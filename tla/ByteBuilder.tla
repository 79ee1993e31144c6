---------------------------- MODULE ByteBuilder ----------------------------
(***************************************************************************)
(* qiven::ByteBuilder (include/qiven/byte_builder.hpp): an owning, growing *)
(* accumulator of bytes, read back through ByteCursor and the decoders of  *)
(* endian.hpp.  One thread uses the builders, one call after the other.    *)
(*                                                                         *)
(* A builder's block is the sequence of its cells; who owns a block is the *)
(* matter of OwnedMemory.  An allocation may be refused at any time; cells *)
(* behind the size, written before a reset or never, hold what no byte is. *)
(* Byte and word widths are parameters: a byte has Byte values, a u64      *)
(* LongWidth bytes.                                                        *)
(***************************************************************************)
EXTENDS Integers, Sequences, SequencesExt, CheckedArithmetic

CONSTANTS
    WordSize,       \* number of values of usize
    Byte,           \* number of values of a byte
    LongWidth,      \* bytes of the u64 that a scalar is encoded in
    ScalarWidths,   \* bytes of a scalar: of u16, u32, u64
    ScalarValues,   \* values appended as scalars
    Spans,          \* spans of bytes appended
    Builders,       \* the variables that hold a builder
    Bounds,         \* max_capacity
    MaxPuts         \* bound: number of appends that all builders together hold

Words == 0 .. WordSize - 1
Bytes == 0 .. Byte - 1
Usize == Unsigned(WordSize - 1)

\* The weight of a byte with so many below it; a shift by bytes divides by it.
Weight[k \in 0 .. LongWidth] == IF k = 0 THEN 1 ELSE Byte * Weight[k - 1]

ASSUME WidthAssumption ==
    /\ WordSize \in Nat \ {0} /\ Byte \in Nat \ {0, 1} /\ LongWidth \in Nat
    /\ ScalarWidths \subseteq 1 .. LongWidth /\ LongWidth \in Words
    /\ ScalarValues \subseteq 0 .. Weight[LongWidth] - 1
    /\ Bounds \subseteq Words
    /\ \A span \in Spans : span \in Seq(Bytes) /\ Len(span) \in Words

VARIABLES
    builders,       \* what each variable holds
    puts            \* history: what was appended to each builder, in order

vars == <<builders, puts>>

Unwritten == Byte
Orders == {"raw", "le", "be"}

\* allocation_ (none, or an emptied one, has no cells), size_, max_capacity_, status_
Builder(max) == [cells |-> <<>>, size |-> 0, max |-> max, status |-> "ok"]
Unborn == [cells |-> <<>>, size |-> 0, max |-> 0, status |-> "unborn"]
Born(b) == builders[b].status # "unborn"

Init ==
    /\ builders = [b \in Builders |-> Unborn]
    /\ puts = [b \in Builders |-> <<>>]

-----------------------------------------------------------------------------
(* The codecs of endian.hpp.                                                *)

EncodeLE(value) == [i \in 1 .. LongWidth |-> (value \div Weight[i - 1]) % Byte]
EncodeBE(value) == [i \in 1 .. LongWidth |-> (value \div Weight[LongWidth - i]) % Byte]

\* A byte that comes in last is the lowest of a big-endian value, and the highest so
\* far of a little-endian one.
DecodeBE(bytes) ==
    LET value[k \in 0 .. Len(bytes)] ==
            IF k = 0 THEN 0 ELSE value[k - 1] * Byte + bytes[k]
    IN  value[Len(bytes)]
DecodeLE(bytes) ==
    LET value[k \in 0 .. Len(bytes)] ==
            IF k = 0 THEN 0 ELSE value[k - 1] + bytes[k] * Weight[k - 1]
    IN  value[Len(bytes)]

\* The bytes of a scalar: the first of the little-endian u64, the last of the
\* big-endian one.
Encoded(order, value, width) ==
    IF order = "le" THEN SubSeq(EncodeLE(value), 1, width)
    ELSE SubSeq(EncodeBE(value), LongWidth - width + 1, LongWidth)

-----------------------------------------------------------------------------
(* Growth.                                                                  *)

Capacity(builder) == Len(builder.cells)

\* Mutant: the doubled capacity is not clamped.
Target_Unclamped(builder, required) == Max({required, 2 * Capacity(builder)})
\* Mutant: growth by what is needed.
Target_Exact(builder, required) == required
\* The capacity to grow to; a doubling that overflows counts as what is required.
Target(builder, required) ==
    LET doubled == CheckedMul(Capacity(builder), 2, Usize)
    IN  Min({Max({required} \cup doubled), builder.max})

\* Mutant: the live bytes are not copied.
Grown_Fresh(builder, capacity) == [i \in 1 .. capacity |-> Unwritten]
\* A block of that capacity with the live bytes copied into it.
Grown(builder, capacity) ==
    [i \in 1 .. capacity |-> IF i <= builder.size THEN builder.cells[i] ELSE Unwritten]

\* The builder after ensure_capacity(required), for each answer of the allocator.
Ensured(builder, required) ==
    CASE required <= Capacity(builder) -> {builder}
      [] required > Capacity(builder) /\ required > builder.max ->
            {[builder EXCEPT !.status = "capacity_exceeded"]}
      [] OTHER ->
            {[builder EXCEPT !.cells = Grown(builder, Target(builder, required))],
             [builder EXCEPT !.status = "allocation_failed"]}

-----------------------------------------------------------------------------
(* The operations.                                                          *)

TryCreate(b, max) ==
    /\ ~Born(b)
    /\ builders' = [builders EXCEPT ![b] = Builder(max)]
    /\ UNCHANGED puts

Written(builder, bytes) ==
    [builder EXCEPT
        !.cells = [i \in 1 .. Len(@) |->
                     IF i \in builder.size + 1 .. builder.size + Len(bytes)
                     THEN bytes[i - builder.size] ELSE @[i]],
        !.size = @ + Len(bytes)]

\* The builder after the bytes were asked to go in: not before a reset if it has
\* failed, not at all if the size overflows or no capacity can be had.
Appended(builder, bytes) ==
    IF builder.status # "ok" THEN {builder}
    ELSE LET required == CheckedAdd(builder.size, Len(bytes), Usize) IN
         IF required = {} THEN {[builder EXCEPT !.status = "capacity_exceeded"]}
         ELSE {IF grown.status = "ok" THEN Written(grown, bytes) ELSE grown :
                  grown \in UNION {Ensured(builder, size) : size \in required}}

Put(b, item, bytes) ==
    /\ Born(b) /\ FoldFunction(LAMBDA items, n : n + Len(items), 0, puts) < MaxPuts
    /\ \E new \in Appended(builders[b], bytes) :
          /\ builders' = [builders EXCEPT ![b] = new]
          /\ puts' = IF new.status = "ok" THEN [puts EXCEPT ![b] = Append(@, item)] ELSE puts

AppendSpan(b, span) ==
    Put(b, [order |-> "raw", value |-> span, width |-> Len(span)], span)

\* append_le_u16 .. append_be_u64: the value is one of the scalar's type.
AppendScalar(b, order, value, width) ==
    /\ value < Weight[width]
    /\ Put(b, [order |-> order, value |-> value, width |-> width],
           Encoded(order, value, width))

\* Mutant: the failure stays.
Cleared_KeepsStatus(builder) ==
    [builder EXCEPT !.cells = [i \in DOMAIN @ |-> Unwritten], !.size = 0]
\* The block stays.
Cleared(builder) ==
    [builder EXCEPT !.cells = [i \in DOMAIN @ |-> Unwritten], !.size = 0, !.status = "ok"]

Reset(b) ==
    /\ Born(b)
    /\ builders' = [builders EXCEPT ![b] = Cleared(@)]
    /\ puts' = [puts EXCEPT ![b] = <<>>]

\* What a move leaves behind.
Left == Builder(0)

\* The move constructor and, onto a builder that gives up its own block, the move
\* assignment.  An assignment to itself does nothing.
Move(b, other) ==
    /\ b # other /\ Born(other)
    /\ builders' = [builders EXCEPT ![b] = builders[other], ![other] = Left]
    /\ puts' = [puts EXCEPT ![b] = puts[other], ![other] = <<>>]

Destroy(b) ==
    /\ Born(b)
    /\ builders' = [builders EXCEPT ![b] = Unborn]
    /\ puts' = [puts EXCEPT ![b] = <<>>]

Next ==
    \/ \E b \in Builders, max \in Bounds : TryCreate(b, max)
    \/ \E b \in Builders, span \in Spans : AppendSpan(b, span)
    \/ \E b \in Builders, order \in {"le", "be"}, value \in ScalarValues,
          width \in ScalarWidths : AppendScalar(b, order, value, width)
    \/ \E b \in Builders : Reset(b) \/ Destroy(b)
    \/ \E b, other \in Builders : Move(b, other)

Spec == Init /\ [][Next]_vars

-----------------------------------------------------------------------------

\* Every variable stays in its range.
TypeOK ==
    /\ \A b \in Builders :
          /\ builders[b].cells \in Seq(Bytes \cup {Unwritten})
          /\ builders[b].size \in Words /\ builders[b].max \in Words
          /\ Capacity(builders[b]) \in Words
          /\ builders[b].status \in
                {"unborn", "ok", "capacity_exceeded", "allocation_failed"}
    /\ DOMAIN builders = Builders /\ DOMAIN puts = Builders

\* bytes(): what a builder shows of its block.
Live(builder) == SubSeq(builder.cells, 1, builder.size)

\* ByteCursor::take with the decoder of the item behind it: what an item is read as,
\* and the cursor after it.
Take(cursor, width) ==
    IF width > Len(cursor) THEN <<>> ELSE SubSeq(cursor, 1, width)
Decoded(order, bytes) ==
    CASE order = "raw" -> bytes [] order = "le" -> DecodeLE(bytes)
      [] order = "be" -> DecodeBE(bytes)
ReadItem(state, item) ==
    LET bytes == Take(state.cursor, item.width)
    IN  [cursor |-> SubSeq(state.cursor, Len(bytes) + 1, Len(state.cursor)),
         read |-> Append(state.read, Decoded(item.order, bytes))]
ReadAll(bytes, items) ==
    LET state[k \in 0 .. Len(items)] ==
            IF k = 0 THEN [cursor |-> bytes, read |-> <<>>]
            ELSE ReadItem(state[k - 1], items[k])
    IN  state[Len(items)]

\* A cursor over the bytes of a builder, with the decoders of the scalars that were
\* put, reads back every value in order and then is empty, whatever growths, moves,
\* resets and refused appends lie between.
ReadsBack ==
    \A b \in Builders :
        LET end == ReadAll(Live(builders[b]), puts[b])
        IN  /\ end.cursor = <<>>
            /\ end.read = [i \in 1 .. Len(puts[b]) |-> puts[b][i].value]

\* A builder's capacity never falls but by a move or its end, and when it grows it
\* doubles, unless its bound or the range of usize is in the way.
GrowsGeometrically ==
    [][\A b \in Builders :
          LET old == Capacity(builders[b])
              new == Capacity(builders'[b])
          IN  (/\ builders'[b].max = builders[b].max /\ builders'[b].status # "unborn"
               /\ \A other \in Builders \ {b} : builders'[other] = builders[other])
              => \/ new = old
                 \/ new > old /\ (new >= 2 * old \/ new = builders[b].max \/ 2 * old \notin Words)
      ]_vars

\* The builder as its promise sees it.
Accumulated(builder) ==
    [bytes |-> Live(builder), bound |-> builder.max, reserve |-> Capacity(builder),
     status |-> IF builder.status = "unborn" THEN "ok" ELSE builder.status]

\* What an append may put in.
AllSpans ==
    Spans \cup {Encoded(order, value, width) :
                    order \in {"le", "be"}, value \in ScalarValues, width \in ScalarWidths}

Accumulator == INSTANCE ByteAccumulator WITH
    Spans <- AllSpans,
    content <- [b \in Builders |-> Accumulated(builders[b])]

\* An append extends the bytes as a whole or leaves them, fails for the bound only
\* beyond the bound and for memory only beyond the capacity, and a failure is latched
\* until reset(); a builder that was moved from is an empty one without a bound.
ImplementsAccumulator == Accumulator!Spec
=============================================================================
