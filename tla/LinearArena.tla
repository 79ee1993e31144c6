---------------------------- MODULE LinearArena ----------------------------
(***************************************************************************)
(* qiven::memory::LinearArena (src/memory/linear_arena.cpp): a bump        *)
(* allocator over storage its caller provides.  Addresses and sizes are    *)
(* words of WordSize values and wrap.                                      *)
(***************************************************************************)
EXTENDS Integers

CONSTANTS
    WordSize,       \* number of values of usize
    Begin,          \* begin_: any address, aligned or not
    Capacity        \* capacity_

Words == 0 .. WordSize - 1

\* The storage is an object of the caller: its end is an address.
ASSUME StorageAssumption ==
    /\ WordSize \in Nat \ {0} /\ Begin \in Words \ {0} /\ Capacity \in Words
    /\ Begin + Capacity \in Words

VARIABLES
    current,        \* current_
    remaining       \* remaining_

arena == <<current, remaining>>

ArenaInit == current = Begin /\ remaining = Capacity

\* std::align, for an alignment that is a power of two: the addition wraps, the
\* mask -alignment clears the low bits.
AlignUp(address, alignment) ==
    LET raised == (address - 1 + alignment) % WordSize
    IN  raised - (raised % alignment)

Padding(alignment) == (AlignUp(current, alignment) - current) % WordSize

\* Mutant: the padding is not asked for.
ArenaFits_NoPadding(size, alignment) == size # 0 /\ size <= remaining
\* Mutant: the last byte is never given out.
ArenaFits_OffByOne(size, alignment) ==
    /\ size # 0 /\ size <= remaining
    /\ Padding(alignment) < remaining - size
\* Whether try_allocate() returns a block.
ArenaFits(size, alignment) ==
    /\ size # 0
    /\ size <= remaining
    /\ Padding(alignment) <= remaining - size

ArenaBlock(alignment) == AlignUp(current, alignment)

\* Mutant: the padding is not deducted.
ArenaTake_FreePadding(size, alignment) ==
    /\ current' = ArenaBlock(alignment) + size
    /\ remaining' = remaining - size
ArenaTake(size, alignment) ==
    /\ current' = ArenaBlock(alignment) + size
    /\ remaining' = remaining - Padding(alignment) - size

ArenaReset == current' = Begin /\ remaining' = Capacity

-----------------------------------------------------------------------------

ArenaEnd == Begin + Capacity

\* Where a block of that layout could start in what is left of the storage.
Places(size, alignment) ==
    {a \in current .. ArenaEnd : a % alignment = 0 /\ a + size <= ArenaEnd}
=============================================================================
