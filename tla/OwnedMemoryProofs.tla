------------------------- MODULE OwnedMemoryProofs -------------------------
(***************************************************************************)
(* The arena and the owning handles, for every word size, storage, heap,   *)
(* layout and number of handles: blocks in use never overlap, each has     *)
(* exactly one owner and goes back once, and the live objects are those    *)
(* the handles own.                                                        *)
(***************************************************************************)
EXTENDS OwnedMemory, ArithmeticProofs, FiniteSetTheorems

-----------------------------------------------------------------------------
(* Alignment: where std::align puts a block in what is left of the storage. *)

LEMMA Alignment ==
    ASSUME NEW alignment \in Alignments
    PROVE  /\ alignment \in Nat \ {0} /\ WordSize \in Nat \ {0} /\ alignment < WordSize
           /\ WordSize % alignment = 0
  BY StorageAssumption, LayoutAssumption, PowersOfTwoAssumption DEF Words

\* The sum does not wrap: the first multiple that is not below the address.
LEMMA AlignUpInWord ==
    ASSUME NEW alignment \in Alignments, NEW address \in Words \ {0},
           address - 1 + alignment < WordSize
    PROVE  /\ AlignUp(address, alignment) \in address .. WordSize - 1
           /\ AlignUp(address, alignment) % alignment = 0
           /\ AlignUp(address, alignment) < address + alignment
<1> DEFINE most == WordSize - 1
           up == AlignUp(address, alignment)
<1>1. /\ alignment \in Nat \ {0} /\ WordSize \in Nat \ {0} /\ WordSize % alignment = 0
      /\ address \in 0 .. most /\ most \in Nat /\ address \in Nat /\ most + 1 = WordSize
  BY Alignment DEF Words
<1>2. address - 1 + alignment \in Nat /\ address + (alignment - 1) = address - 1 + alignment
  BY <1>1
<1>3. (address - 1 + alignment) % WordSize = address - 1 + alignment
  BY <1>1, <1>2, SmallRemainder
<1>4. up = AlignDown(address + (alignment - 1), alignment)
  BY <1>2, <1>3 DEF AlignUp, AlignDown
<1>5. CheckedAlignUp(address, alignment, Unsigned(most)) = {up}
  <2>1. ~ (address > most - (alignment - 1))
    BY <1>1
  <2> QED
    BY <1>4, <2>1 DEF CheckedAlignUp, Unsigned
<1>6. IsAligned(most + 1, alignment)
  BY <1>1 DEF IsAligned
<1> HIDE DEF up, most
<1>7. CheckedAlignUp(address, alignment, Unsigned(most))
         = {m \in address .. most : IsAligned(m, alignment) /\ m < address + alignment}
  BY <1>1, <1>6, AlignUpIsExact
<1>8. up \in {m \in address .. most : IsAligned(m, alignment) /\ m < address + alignment}
  BY <1>5, <1>7
<1> QED
  BY <1>8 DEF IsAligned, up, most

\* The sum wraps: no multiple is left in the word, and the padding runs past its end.
LEMMA AlignUpWraps ==
    ASSUME NEW alignment \in Alignments, NEW address \in Words \ {0},
           address - 1 + alignment >= WordSize
    PROVE  /\ AlignUp(address, alignment) = 0
           /\ (AlignUp(address, alignment) - address) % WordSize = WordSize - address
           /\ \A a \in address .. WordSize - 1 : a % alignment # 0
<1> DEFINE raised == (address - 1 + alignment) % WordSize
<1>1. /\ alignment \in Nat \ {0} /\ WordSize \in Nat \ {0} /\ alignment < WordSize
      /\ WordSize % alignment = 0 /\ address \in Nat \ {0} /\ address < WordSize
  BY Alignment DEF Words
<1>2. raised = address - 1 + alignment - WordSize
  <2> DEFINE x == address - 1 + alignment - WordSize
  <2>1. x \in Nat /\ x < WordSize /\ address - 1 + alignment = x + WordSize
    BY <1>1
  <2>2. (x + WordSize) % WordSize = x
    <3> HIDE DEF x
    <3> QED
      BY <1>1, <2>1
  <2> QED
    BY <2>1, <2>2
<1>3. raised \in Nat /\ raised < alignment
  BY <1>1, <1>2
<1> HIDE DEF raised
<1>4. AlignUp(address, alignment) = 0
  <2>1. raised % alignment = raised
    BY <1>1, <1>3, SmallRemainder
  <2> QED
    BY <1>3, <2>1 DEF AlignUp, raised
<1>5. (0 - address) % WordSize = WordSize - address
  BY <1>1
<1>6. ASSUME NEW a \in address .. WordSize - 1, a % alignment = 0
      PROVE  FALSE
  <2> DEFINE k == a \div alignment
             all == WordSize \div alignment
  <2>1. a \in Int /\ k \in Int /\ all \in Int /\ a = alignment * k /\ WordSize = alignment * all
    BY <1>1, <1>6
  <2> HIDE DEF k, all
  <2>2. alignment * all < alignment * k + alignment
    BY <1>1, <2>1
  <2>3. all <= k
    BY <1>1, <2>1, <2>2, MultiplesApart
  <2>4. alignment * all <= alignment * k
    BY <1>1, <2>1, <2>3
  <2> QED
    BY <2>1, <2>4
<1> QED
  BY <1>4, <1>5, <1>6

\* Two multiples of the alignment less than one alignment apart.
LEMMA FirstMultiple ==
    ASSUME NEW n \in Nat \ {0}, NEW x \in Int, NEW y \in Int, x % n = 0, y % n = 0, x < y + n
    PROVE  x <= y
<1> DEFINE j == x \div n
           k == y \div n
<1>1. j \in Int /\ k \in Int /\ x = n * j /\ y = n * k
  OBVIOUS
<1> HIDE DEF j, k
<1>2. j <= k
  BY <1>1, MultiplesApart
<1>3. n * j <= n * k
  BY <1>1, <1>2
<1> QED
  BY <1>1, <1>3

\* The cursor stays in the storage.
ArenaInv ==
    /\ current \in Words \ {0} /\ remaining \in Words
    /\ Begin <= current /\ current + remaining = ArenaEnd

\* What a request that fits gets, and what one that does not fit finds.
LEMMA ArenaAnswer ==
    ASSUME ArenaInv, NEW size \in Words \ {0}, NEW alignment \in Alignments
    PROVE  /\ ArenaFits(size, alignment) <=> Places(size, alignment) # {}
           /\ ArenaFits(size, alignment) =>
                 /\ ArenaBlock(alignment) \in Places(size, alignment)
                 /\ Padding(alignment) = ArenaBlock(alignment) - current
                 /\ \A a \in Places(size, alignment) : ArenaBlock(alignment) <= a
<1> DEFINE up == AlignUp(current, alignment)
<1>1. /\ WordSize \in Nat \ {0} /\ current \in Nat \ {0} /\ remaining \in Nat
      /\ size \in Nat \ {0} /\ ArenaEnd \in Nat /\ ArenaEnd < WordSize
      /\ current + remaining = ArenaEnd /\ alignment \in Nat \ {0} /\ current < WordSize
  BY StorageAssumption, Alignment DEF ArenaInv, Words, ArenaEnd
<1>2. CASE current - 1 + alignment < WordSize
  <2>1. /\ up \in current .. WordSize - 1 /\ up % alignment = 0 /\ up < current + alignment
    BY <1>2, AlignUpInWord DEF ArenaInv
  <2> HIDE DEF up
  <2>2. Padding(alignment) = up - current
    <3>1. up - current \in Nat /\ up - current < WordSize
      BY <1>1, <2>1
    <3> QED
      BY <1>1, <3>1, SmallRemainder DEF Padding, up
  <2>3. ArenaFits(size, alignment) <=> up + size <= ArenaEnd
    BY <1>1, <2>1, <2>2 DEF ArenaFits
  <2>4. up + size <= ArenaEnd => up \in Places(size, alignment)
    BY <1>1, <2>1 DEF Places
  <2>5. ASSUME NEW a \in Places(size, alignment) PROVE up <= a /\ up + size <= ArenaEnd
    <3>1. a \in Int /\ current <= a /\ a % alignment = 0 /\ a + size <= ArenaEnd
      BY <1>1 DEF Places
    <3>2. up \in Int /\ up < a + alignment
      BY <1>1, <2>1, <3>1
    <3>3. up <= a
      BY <1>1, <2>1, <3>1, <3>2, FirstMultiple
    <3> QED
      BY <1>1, <2>1, <3>1, <3>3
  <2> QED
    BY <2>2, <2>3, <2>4, <2>5 DEF ArenaBlock, up
<1>3. CASE current - 1 + alignment >= WordSize
  <2>1. /\ (up - current) % WordSize = WordSize - current
        /\ \A a \in current .. WordSize - 1 : a % alignment # 0
    BY <1>3, AlignUpWraps DEF ArenaInv
  <2>2. ~ ArenaFits(size, alignment)
    BY <1>1, <2>1 DEF ArenaFits, Padding
  <2>3. Places(size, alignment) = {}
    BY <1>1, <2>1 DEF Places
  <2> QED
    BY <2>2, <2>3
<1> QED
  BY <1>1, <1>2, <1>3

-----------------------------------------------------------------------------
(* The inductive invariant.                                                 *)

BlockType == [resource : Resources, memory : Words, layout : Layouts]
Owns(h) == handles[h].memory # Null

\* Where the bytes of a resource's blocks may lie, with the arena's cursor at top.
Region(resource, top) ==
    IF resource = "arena" THEN Begin .. top - 1 ELSE HeapAddresses

\* Blocks in use have bytes, in the region of their resource, and share none.
LiveInv ==
    /\ \A b \in live :
          /\ b \in BlockType /\ b.memory # Null /\ b.layout.size # 0
          /\ b.memory % b.layout.alignment = 0
          /\ BytesOf(b) \subseteq Region(b.resource, current)
    /\ \A b, c \in live : b # c => BytesOf(b) \cap BytesOf(c) = {}

\* The handles with memory and the blocks in use are one to one.
OwnersInv ==
    /\ \A h \in Handles : ~ Owns(h) => handles[h].layout.size = 0
    /\ \A h \in Handles : Owns(h) => Block(handles[h]) \in live
    /\ \A h, g \in Handles :
          Owns(h) /\ Owns(g) /\ h # g => Block(handles[h]) # Block(handles[g])
    /\ \A b \in live : \E h \in Handles : Owns(h) /\ Block(handles[h]) = b

\* The objects in the handles are the live ones, and within the handle's block.
ObjectsInv ==
    /\ objects = UNION {Contents(handles[h]) : h \in Handles}
    /\ \A h \in Handles :
          Owns(h) /\ handles[h].kind = "object" => handles[h].layout.size = ElementSize

HandlesTyped == handles \in [Handles -> HandleType]

OwnedInv ==
    /\ ArenaInv /\ HandlesTyped /\ LiveInv /\ OwnersInv /\ ObjectsInv /\ mismatched = FALSE

LEMMA ContentsInBlock ==
    ASSUME NEW x \in HandleType, x.memory # Null,
           x.kind = "object" => x.layout.size = ElementSize
    PROVE  Contents(x) \subseteq BytesOf(Block(x))
<1> DEFINE m == x.memory
           n == x.layout.size
<1>1. /\ m \in Nat /\ n \in Nat /\ ElementSize \in Nat \ {0}
  BY LayoutAssumption, StorageAssumption DEF HandleType, Layouts, Words
<1>2. BytesOf(Block(x)) = m .. m + n - 1
  BY DEF BytesOf, Block
<1>3. CASE x.kind = "array"
  <2> DEFINE q == n \div ElementSize
  <2>1. Contents(x) = {m + ElementSize * i : i \in 0 .. q - 1}
    BY <1>3 DEF Contents, Built
  <2>2. q \in Nat /\ ElementSize * q <= n
    BY <1>1
  <2> HIDE DEF q, m, n
  <2>3. ASSUME NEW i \in 0 .. q - 1 PROVE m + ElementSize * i \in m .. m + n - 1
    <3>1. ElementSize * (i + 1) <= ElementSize * q /\ ElementSize * i \in Nat
      BY <1>1, <2>2
    <3>2. ElementSize * (i + 1) = ElementSize * i + ElementSize
      BY <1>1
    <3> QED
      BY <1>1, <2>2, <3>1, <3>2
  <2> QED
    BY <1>2, <2>1, <2>3
<1>4. CASE x.kind = "object"
  BY <1>1, <1>2, <1>4 DEF Contents
<1>5. CASE x.kind \notin {"array", "object"}
  BY <1>5 DEF Contents
<1> QED
  BY <1>3, <1>4, <1>5

\* The objects of different handles are different.
LEMMA ContentsApart ==
    ASSUME OwnedInv, NEW h \in Handles, NEW g \in Handles, h # g
    PROVE  Contents(handles[h]) \cap Contents(handles[g]) = {}
<1>1. CASE ~ Owns(h) \/ ~ Owns(g)
  BY <1>1 DEF Owns, Contents
<1>2. CASE Owns(h) /\ Owns(g)
  <2>1. /\ Contents(handles[h]) \subseteq BytesOf(Block(handles[h]))
        /\ Contents(handles[g]) \subseteq BytesOf(Block(handles[g]))
    BY <1>2, ContentsInBlock DEF OwnedInv, HandlesTyped, ObjectsInv, Owns
  <2>2. BytesOf(Block(handles[h])) \cap BytesOf(Block(handles[g])) = {}
    BY <1>2 DEF OwnedInv, OwnersInv, LiveInv
  <2> QED
    BY <2>1, <2>2
<1> QED
  BY <1>1, <1>2

LEMMA ObjectsWithout ==
    ASSUME OwnedInv, NEW h \in Handles
    PROVE  objects \ Contents(handles[h]) =
               UNION {Contents(handles[g]) : g \in Handles \ {h}}
<1>1. objects = UNION {Contents(handles[g]) : g \in Handles}
  BY DEF OwnedInv, ObjectsInv
<1>2. \A g \in Handles \ {h} : Contents(handles[h]) \cap Contents(handles[g]) = {}
  BY ContentsApart
<1> QED
  BY <1>1, <1>2

-----------------------------------------------------------------------------
(* Giving a block back.                                                     *)

\* A destructor or an assignment gives back the block of the handle, if any, and
\* the resource knows it.
LEMMA DeallocateRight ==
    ASSUME OwnedInv, NEW h \in Handles, Deallocate(handles[h])
    PROVE  /\ mismatched' = FALSE /\ UNCHANGED arena
           /\ live' = live \ {Block(handles[h])}
           /\ ~ Owns(h) => live' = live
<1>1. Owns(h) => Block(handles[h]) \in live
  BY DEF OwnedInv, OwnersInv
<1>2. ~ Owns(h) => Block(handles[h]) \notin live
  BY DEF OwnedInv, LiveInv, Owns, Block
<1> QED
  BY <1>1, <1>2 DEF Deallocate, OwnedInv, Owns

\* Fewer blocks in use, with the arena as it was.
LEMMA LiveShrinks ==
    ASSUME LiveInv, live' \subseteq live, UNCHANGED arena
    PROVE  LiveInv'
<1>1. current' = current
  BY DEF arena
<1> QED
  BY <1>1 DEF LiveInv, BytesOf, Region

LEMMA DestroyKeeps ==
    ASSUME OwnedInv, NEW h \in Handles, Destroy(h)
    PROVE  OwnedInv'
<1>1. /\ mismatched' = FALSE /\ UNCHANGED arena /\ live' = live \ {Block(handles[h])}
      /\ ~ Owns(h) => live' = live
  BY DeallocateRight DEF Destroy
<1>2. handles' = [handles EXCEPT ![h] = Unborn] /\ objects' = objects \ Contents(handles[h])
  BY DEF Destroy
<1>3. Unborn \in HandleType /\ Unborn.memory = Null /\ Unborn.layout.size = 0
  BY StorageAssumption, Alignment, LayoutAssumption
     DEF Unborn, Handle, HandleType, Kinds, Resources, Layouts, EmptyLayout, Words, Null
<1> HIDE DEF Unborn
<1>4. HandlesTyped'
  BY <1>2, <1>3 DEF OwnedInv, HandlesTyped
<1>5. handles'[h] = Unborn /\ \A g \in Handles \ {h} : handles'[g] = handles[g]
  BY <1>2 DEF OwnedInv, HandlesTyped
<1>6. ArenaInv'
  BY <1>1 DEF OwnedInv, ArenaInv, arena
<1>7. LiveInv'
  BY <1>1, LiveShrinks DEF OwnedInv
<1>8. OwnersInv'
  BY <1>1, <1>3, <1>5 DEF OwnedInv, OwnersInv, Owns
<1>9. ObjectsInv'
  <2>1. Contents(Unborn) = {}
    BY <1>3 DEF Contents
  <2>2. objects' = UNION {Contents(handles[g]) : g \in Handles \ {h}}
    BY <1>2, ObjectsWithout
  <2>3. UNION {Contents(handles'[g]) : g \in Handles}
           = UNION {Contents(handles[g]) : g \in Handles \ {h}}
    BY <1>5, <2>1
  <2>4. \A g \in Handles : Owns(g)' /\ handles'[g].kind = "object"
            => handles'[g].layout.size = ElementSize
    BY <1>3, <1>5 DEF OwnedInv, ObjectsInv, Owns
  <2> QED
    BY <2>2, <2>3, <2>4 DEF ObjectsInv, Contents, Built
<1> QED
  BY <1>1, <1>4, <1>6, <1>7, <1>8, <1>9 DEF OwnedInv

-----------------------------------------------------------------------------
(* Moves: the block of a handle goes to another, which had none any more.   *)

LEMMA EmptiedHandle ==
    ASSUME NEW x \in HandleType
    PROVE  /\ Emptied(x) \in HandleType /\ Emptied(x).memory = Null
           /\ Emptied(x).layout.size = 0 /\ Contents(Emptied(x)) = {}
<1>1. EmptyLayout \in Layouts /\ EmptyLayout.size = 0 /\ Null \in Words
  BY StorageAssumption, Alignment, LayoutAssumption DEF Layouts, EmptyLayout, Words, Null
<1> HIDE DEF EmptyLayout, Null
<1>2. Emptied(x) \in HandleType /\ Emptied(x).memory = Null /\ Emptied(x).layout = EmptyLayout
  BY <1>1 DEF Emptied, HandleType
<1> QED
  BY <1>1, <1>2 DEF Contents

\* The handles after a move from other to h, whose own block is no longer in use.
LEMMA MoveKeepsOwners ==
    ASSUME OwnedInv, NEW h \in Handles, NEW other \in Handles, h # other,
           handles' = [handles EXCEPT ![h] = handles[other], ![other] = Emptied(handles[other])],
           live' = IF Owns(h) THEN live \ {Block(handles[h])} ELSE live,
           objects' = objects \ Contents(handles[h])
    PROVE  HandlesTyped' /\ OwnersInv' /\ ObjectsInv'
<1>1. handles[other] \in HandleType
  BY DEF OwnedInv, HandlesTyped
<1> DEFINE empty == Emptied(handles[other])
<1>2. /\ empty \in HandleType /\ empty.memory = Null
      /\ empty.layout.size = 0 /\ Contents(empty) = {}
  BY <1>1, EmptiedHandle
<1>3. handles' = [handles EXCEPT ![h] = handles[other], ![other] = empty]
  OBVIOUS
<1> HIDE DEF empty
<1>4. /\ handles'[h] = handles[other] /\ handles'[other] = empty
      /\ \A g \in Handles \ {h, other} : handles'[g] = handles[g]
  BY <1>3 DEF OwnedInv, HandlesTyped
<1>5. HandlesTyped'
  BY <1>1, <1>2, <1>3 DEF OwnedInv, HandlesTyped
<1>6. OwnersInv'
  <2> DEFINE Old(g) == IF g = h THEN other ELSE g
  <2>1. \A g \in Handles : Owns(g)' => g # other /\ handles'[g] = handles[Old(g)]
    BY <1>2, <1>4 DEF Owns
  <2>2. \A g \in Handles : ~ Owns(g)' => handles'[g].layout.size = 0
    <3>1. \A g \in Handles : ~ Owns(g) => handles[g].layout.size = 0
      BY DEF OwnedInv, OwnersInv
    <3> QED
      BY <1>2, <1>4, <3>1 DEF Owns
  <2>3. ASSUME NEW g \in Handles, Owns(g)' PROVE Block(handles'[g]) \in live'
    <3>1. Owns(Old(g)) /\ Old(g) # h /\ handles'[g] = handles[Old(g)] /\ Old(g) \in Handles
      BY <2>1, <2>3 DEF Owns
    <3> HIDE DEF Old
    <3>2. Block(handles[Old(g)]) \in live
      BY <3>1 DEF OwnedInv, OwnersInv
    <3>3. Owns(h) => Block(handles[Old(g)]) # Block(handles[h])
      BY <3>1 DEF OwnedInv, OwnersInv
    <3> QED
      BY <3>1, <3>2, <3>3
  <2>4. ASSUME NEW g \in Handles, NEW k \in Handles, Owns(g)', Owns(k)', g # k
        PROVE  Block(handles'[g]) # Block(handles'[k])
    <3>1. /\ Owns(Old(g)) /\ handles'[g] = handles[Old(g)] /\ Old(g) \in Handles
          /\ Owns(Old(k)) /\ handles'[k] = handles[Old(k)] /\ Old(k) \in Handles
          /\ Old(g) # Old(k)
      BY <2>1, <2>4 DEF Owns
    <3> HIDE DEF Old
    <3> QED
      BY <3>1 DEF OwnedInv, OwnersInv
  <2>5. ASSUME NEW b \in live' PROVE \E g \in Handles : Owns(g)' /\ Block(handles'[g]) = b
    <3>1. b \in live /\ (Owns(h) => b # Block(handles[h]))
      OBVIOUS
    <3>2. PICK g \in Handles : Owns(g) /\ Block(handles[g]) = b
      BY <3>1 DEF OwnedInv, OwnersInv
    <3>3. g # h
      BY <3>1, <3>2
    <3>4. CASE g = other
      BY <1>4, <3>2, <3>4 DEF Owns
    <3>5. CASE g # other
      BY <1>4, <3>2, <3>3, <3>5 DEF Owns
    <3> QED
      BY <3>4, <3>5
  <2> QED
    BY <2>2, <2>3, <2>4, <2>5 DEF OwnersInv, Block
<1>7. ObjectsInv'
  <2>1. objects' = UNION {Contents(handles[g]) : g \in Handles \ {h}}
    BY ObjectsWithout
  <2>2. UNION {Contents(handles'[g]) : g \in Handles}
           = UNION {Contents(handles[g]) : g \in Handles \ {h}}
    BY <1>2, <1>4
  <2>3. \A g \in Handles : Owns(g)' /\ handles'[g].kind = "object"
            => handles'[g].layout.size = ElementSize
    BY <1>2, <1>4 DEF OwnedInv, ObjectsInv, Owns
  <2> QED
    BY <2>1, <2>2, <2>3 DEF ObjectsInv, Contents, Built
<1> QED
  BY <1>5, <1>6, <1>7

LEMMA MoveConstructKeeps ==
    ASSUME OwnedInv, NEW h \in Handles, NEW other \in Handles, MoveConstruct(h, other)
    PROVE  OwnedInv'
<1>1. /\ h # other /\ handles[h] = Unborn
      /\ handles' = [handles EXCEPT ![h] = handles[other], ![other] = Emptied(handles[other])]
      /\ live' = live /\ objects' = objects /\ UNCHANGED arena /\ mismatched' = mismatched
  BY DEF MoveConstruct, arena
<1>2. ~ Owns(h) /\ Contents(handles[h]) = {}
  BY <1>1 DEF Owns, Unborn, Handle, Contents
<1>3. HandlesTyped' /\ OwnersInv' /\ ObjectsInv'
  BY <1>1, <1>2, MoveKeepsOwners
<1>4. LiveInv'
  BY <1>1, LiveShrinks DEF OwnedInv
<1> QED
  BY <1>1, <1>3, <1>4 DEF OwnedInv, ArenaInv, arena

LEMMA MoveAssignKeeps ==
    ASSUME OwnedInv, NEW h \in Handles, NEW other \in Handles, MoveAssign(h, other)
    PROVE  OwnedInv'
<1>1. /\ mismatched' = FALSE /\ UNCHANGED arena /\ live' = live \ {Block(handles[h])}
      /\ ~ Owns(h) => live' = live
  BY DeallocateRight DEF MoveAssign
<1>2. HandlesTyped' /\ OwnersInv' /\ ObjectsInv'
  BY <1>1, MoveKeepsOwners DEF MoveAssign, Adopted, Released
<1>3. LiveInv'
  BY <1>1, LiveShrinks DEF OwnedInv
<1> QED
  BY <1>1, <1>2, <1>3 DEF OwnedInv, ArenaInv, arena

LEMMA ResetKeeps ==
    ASSUME OwnedInv, Reset
    PROVE  OwnedInv'
<1>1. /\ \A b \in live : b.resource # "arena"
      /\ current' = Begin /\ remaining' = Capacity
      /\ handles' = handles /\ live' = live /\ objects' = objects /\ mismatched' = mismatched
  BY DEF Reset, ArenaReset
<1>2. ArenaInv'
  BY <1>1, StorageAssumption DEF ArenaInv, ArenaEnd, Words
<1>3. LiveInv'
  BY <1>1 DEF OwnedInv, LiveInv, Region, BytesOf
<1> QED
  BY <1>1, <1>2, <1>3 DEF OwnedInv, HandlesTyped, OwnersInv, ObjectsInv, Owns, Contents, Built

-----------------------------------------------------------------------------
(* Construction: a new block lies apart from those in use.                  *)

\* What a resource answers, for a layout whose size is not zero.
NewBlock(resource, memory, layout) ==
    [resource |-> resource, memory |-> memory, layout |-> layout]

\* A block apart from the others: its bytes come from its region, as it is after.
Fresh(b, top) ==
    /\ b \in BlockType /\ b.memory # Null /\ b.memory % b.layout.alignment = 0
    /\ BytesOf(b) \subseteq Region(b.resource, top)
    /\ \A c \in live : BytesOf(b) \cap BytesOf(c) = {}

LEMMA ArenaGives ==
    ASSUME OwnedInv, NEW layout \in Layouts, layout.size # 0, layout.alignment \in Alignments,
           ArenaFits(layout.size, layout.alignment),
           ArenaTake(layout.size, layout.alignment)
    PROVE  /\ ArenaInv' /\ current <= current'
           /\ Fresh(NewBlock("arena", ArenaBlock(layout.alignment), layout), current')
<1> DEFINE size == layout.size
           alignment == layout.alignment
           place == ArenaBlock(alignment)
           b == NewBlock("arena", place, layout)
<1>1. size \in Words \ {0} /\ alignment \in Alignments /\ ArenaInv
  BY DEF Layouts, Null, OwnedInv, Words
<1>2. place \in Places(size, alignment) /\ Padding(alignment) = place - current
  BY <1>1, ArenaAnswer
<1>3. current' = place + size /\ remaining' = remaining - Padding(alignment) - size
  BY DEF ArenaTake
<1>4. /\ current \in Nat \ {0} /\ remaining \in Nat /\ size \in Nat \ {0}
      /\ current + remaining = ArenaEnd /\ ArenaEnd \in Nat /\ ArenaEnd < WordSize
      /\ Begin <= current /\ WordSize \in Nat /\ Begin \in Nat \ {0}
  BY <1>1, StorageAssumption DEF ArenaInv, Words, ArenaEnd
<1>5. /\ place \in Nat \ {0} /\ current <= place /\ place + size <= ArenaEnd
      /\ place % alignment = 0
  BY <1>2, <1>4 DEF Places
<1>6. BytesOf(b) = place .. place + size - 1
  BY DEF BytesOf, NewBlock
<1>7. b \in BlockType /\ b.memory = place /\ b.layout.alignment = alignment /\ b.resource = "arena"
  <2>1. place \in Words
    BY <1>4, <1>5 DEF Words
  <2> HIDE DEF place
  <2> QED
    BY <2>1 DEF NewBlock, BlockType, Resources
<1> HIDE DEF place, size, alignment, b
<1>8. ArenaInv'
  <2>1. current' \in Words \ {0} /\ remaining' \in Words /\ Begin <= current'
    BY <1>2, <1>3, <1>4, <1>5 DEF Words
  <2>2. current' + remaining' = ArenaEnd
    BY <1>2, <1>3, <1>4, <1>5
  <2> QED
    BY <2>1, <2>2 DEF ArenaInv
<1>9. BytesOf(b) \subseteq Region("arena", current')
  BY <1>3, <1>4, <1>5, <1>6 DEF Region
<1>10. ASSUME NEW c \in live PROVE BytesOf(b) \cap BytesOf(c) = {}
  <2>1. BytesOf(c) \subseteq Region(c.resource, current)
    BY DEF OwnedInv, LiveInv
  <2>2. Region(c.resource, current) \subseteq (Begin .. current - 1) \cup HeapAddresses
    BY DEF Region
  <2>3. \A x \in BytesOf(b) : x \notin Begin .. current - 1 /\ x \in Begin .. ArenaEnd - 1
    BY <1>4, <1>5, <1>6
  <2> QED
    BY <2>1, <2>2, <2>3, HeapAssumption
<1>11. current <= current'
  BY <1>3, <1>4, <1>5
<1>12. Fresh(b, current')
  BY <1>5, <1>7, <1>9, <1>10 DEF Fresh, Null
<1> QED
  BY <1>8, <1>11, <1>12 DEF b, place, alignment

\* A multiple of the raised alignment is one of the alignment that was asked for.
LEMMA RaisedAlignment ==
    ASSUME NEW alignment \in Alignments, NEW a \in Nat,
           a % (IF alignment < NativeAlignment THEN NativeAlignment ELSE alignment) = 0
    PROVE  a % alignment = 0
<1>1. alignment \in Nat \ {0} /\ NativeAlignment \in Nat \ {0}
  BY Alignment, LayoutAssumption, StorageAssumption DEF Words
<1>2. CASE alignment < NativeAlignment
  <2> DEFINE j == NativeAlignment \div alignment
             k == a \div NativeAlignment
  <2>1. NativeAlignment % alignment = 0
    BY <1>1, <1>2, PowersOfTwoAssumption
  <2>2. j \in Int /\ k \in Int /\ NativeAlignment = alignment * j /\ a = NativeAlignment * k
    BY <1>1, <1>2, <2>1
  <2> HIDE DEF j, k
  <2>3. PICK x \in Int : a = alignment * x
    <3>1. a = alignment * (j * k) /\ j * k \in Int
      BY <1>1, <2>2
    <3> QED
      BY <3>1
  <2>4. (alignment * x) % alignment = 0
    BY <1>1
  <2> QED
    BY <2>3, <2>4
<1>3. CASE ~ (alignment < NativeAlignment)
  BY <1>3
<1> QED
  BY <1>2, <1>3

LEMMA HeapGives ==
    ASSUME OwnedInv, NEW layout \in Layouts, layout.alignment \in Alignments,
           NEW a \in HeapPlaces(layout)
    PROVE  Fresh(NewBlock("system", a, layout), current')
<1> DEFINE b == NewBlock("system", a, layout)
<1>1. /\ a \in HeapAddresses /\ a .. a + layout.size - 1 \subseteq HeapAddresses
      /\ \A c \in live : BytesOf(c) \cap (a .. a + layout.size - 1) = {}
      /\ a % (IF layout.alignment < NativeAlignment
              THEN NativeAlignment ELSE layout.alignment) = 0
  BY DEF HeapPlaces
<1>2. a \in Words /\ a \in Nat /\ a # Null
  BY <1>1, LayoutAssumption DEF Words, Null
<1>3. a % layout.alignment = 0
  BY <1>1, <1>2, RaisedAlignment
<1>4. BytesOf(b) = a .. a + layout.size - 1
  BY DEF BytesOf, NewBlock
<1>5. b \in BlockType /\ b.memory = a /\ b.layout = layout /\ b.resource = "system"
  BY <1>2 DEF NewBlock, BlockType, Resources
<1> HIDE DEF b
<1>6. BytesOf(b) \subseteq Region("system", current')
  BY <1>1, <1>4 DEF Region
<1>7. \A c \in live : BytesOf(b) \cap BytesOf(c) = {}
  BY <1>1, <1>4
<1> QED
  BY <1>2, <1>3, <1>5, <1>6, <1>7 DEF Fresh, b

LEMMA LiveGrows ==
    ASSUME OwnedInv, current <= current', current' \in Int, NEW b, Fresh(b, current'), b.layout.size # 0,
           live' = live \cup {b}
    PROVE  LiveInv'
<1>1. \A resource : Region(resource, current) \subseteq Region(resource, current')
  <2>1. current \in Int /\ Begin \in Int
    BY StorageAssumption DEF OwnedInv, ArenaInv, Words
  <2>2. \A top \in Int : current <= top => Begin .. current - 1 \subseteq Begin .. top - 1
    BY <2>1
  <2>3. Begin .. current - 1 \subseteq Begin .. current' - 1
    BY <2>2
  <2> TAKE resource
  <2>4. CASE resource = "arena"
    BY <2>3, <2>4 DEF Region
  <2>5. CASE resource # "arena"
    BY <2>5 DEF Region
  <2> QED
    BY <2>4, <2>5
<1>2. \A c \in live : BytesOf(c) \subseteq Region(c.resource, current')
  BY <1>1 DEF OwnedInv, LiveInv
<1>3. \A c \in live' :
          /\ c \in BlockType /\ c.memory # Null /\ c.layout.size # 0
          /\ c.memory % c.layout.alignment = 0
          /\ BytesOf(c) \subseteq Region(c.resource, current')
  BY <1>2 DEF OwnedInv, LiveInv, Fresh
<1>4. \A c, d \in live' : c # d => BytesOf(c) \cap BytesOf(d) = {}
  BY DEF OwnedInv, LiveInv, Fresh
<1> QED
  BY <1>3, <1>4 DEF LiveInv, BytesOf

\* A block apart from the others is none of them.
LEMMA FreshIsNew ==
    ASSUME OwnedInv, NEW b, NEW top, Fresh(b, top), b.layout.size # 0
    PROVE  b \notin live
<1>1. b.memory \in Nat /\ b.layout.size \in Nat
  BY StorageAssumption DEF Fresh, BlockType, Layouts, Words
<1>2. b.memory \in BytesOf(b)
  BY <1>1 DEF BytesOf
<1> QED
  BY <1>2 DEF Fresh

\* What a resource may answer a request for bytes: nothing, or a block of its own.
LEMMA AnswersAreFresh ==
    ASSUME OwnedInv, NEW resource \in Resources, NEW layout \in Layouts,
           layout.alignment \in Alignments, layout.size # 0,
           NEW memory \in Answers(resource, layout), memory # Null,
           Give(resource, memory, layout)
    PROVE  /\ Fresh(NewBlock(resource, memory, layout), current')
           /\ live' = live \cup {NewBlock(resource, memory, layout)}
           /\ ArenaInv' /\ current <= current' /\ mismatched' = mismatched
<1>1. live' = live \cup {NewBlock(resource, memory, layout)} /\ mismatched' = mismatched
  BY DEF Give, NewBlock
<1>2. current \in Int
  BY DEF OwnedInv, ArenaInv, Words
<1>3. CASE resource = "arena"
  <2>1. /\ ArenaFits(layout.size, layout.alignment) /\ memory = ArenaBlock(layout.alignment)
    BY <1>3 DEF Answers
  <2>2. ArenaTake(layout.size, layout.alignment)
    BY <1>3 DEF Give
  <2> QED
    BY <1>1, <1>3, <2>1, <2>2, ArenaGives
<1>4. CASE resource # "arena"
  <2>1. resource = "system"
    BY <1>4 DEF Resources
  <2>2. memory \in HeapPlaces(layout)
    BY <1>4 DEF Answers
  <2>3. current' = current /\ remaining' = remaining
    BY <1>4 DEF Give, arena
  <2>4. Fresh(NewBlock(resource, memory, layout), current')
    BY <2>1, <2>2, HeapGives
  <2> QED
    BY <1>1, <1>2, <2>3, <2>4 DEF OwnedInv, ArenaInv
<1> QED
  BY <1>3, <1>4

\* The layout of a handle and the number of objects made in its block.
Shape(kind, layout, count) ==
    /\ layout \in Layouts /\ layout.alignment \in Alignments
    /\ \/ kind = "allocation" /\ count = 0
       \/ kind = "array" /\ count \in Nat /\ layout.size = ElementSize * count
       \/ kind = "object" /\ layout.size = ElementSize /\ count = 1

\* An array makes as many objects as it will destroy, an allocation none.
LEMMA MakesItsContents ==
    ASSUME NEW kind, NEW resource, NEW memory \in Words, NEW layout, NEW count,
           Shape(kind, layout, count), layout.size = 0 \/ memory # Null,
           memory = Null => layout.size = 0
    PROVE  Built(memory, count) = Contents(Handle(kind, resource, memory, layout))
<1> DEFINE x == Handle(kind, resource, memory, layout)
<1>1. x.kind = kind /\ x.memory = memory /\ x.layout = layout
  BY DEF Handle
<1>2. ElementSize \in Nat \ {0} /\ memory \in Nat
  BY LayoutAssumption, StorageAssumption DEF Words
<1> HIDE DEF x
<1>3. CASE count = 0
  <2>1. Built(memory, count) = {}
    BY <1>3 DEF Built
  <2>2. CASE kind = "allocation"
    BY <1>1, <2>1, <2>2 DEF Contents, x
  <2>3. CASE kind = "array"
    <3>1. layout.size = 0
      BY <1>2, <1>3, <2>3 DEF Shape
    <3>2. layout.size \div ElementSize = 0
      BY <1>2, <3>1
    <3>3. Built(memory, 0) = {}
      BY DEF Built
    <3> QED
      BY <1>1, <2>1, <2>3, <3>2, <3>3 DEF Contents, x
  <2> QED
    BY <1>3, <2>2, <2>3 DEF Shape
<1>4. CASE count # 0 /\ kind = "array"
  <2>1. layout.size = ElementSize * count /\ count \in Nat \ {0}
    BY <1>4 DEF Shape
  <2>2. (ElementSize * count) \div ElementSize = count /\ ElementSize * count # 0
    BY <1>2, <2>1
  <2>3. memory # Null
    BY <2>1, <2>2
  <2> QED
    BY <1>1, <1>4, <2>1, <2>2, <2>3 DEF Contents, x
<1>5. CASE count # 0 /\ kind = "object"
  <2>1. layout.size = ElementSize /\ count = 1 /\ memory # Null
    BY <1>2, <1>5 DEF Shape
  <2>2. Built(memory, count) = {memory}
    <3>1. 0 .. count - 1 = {0}
      BY <2>1
    <3>2. Built(memory, count) = {memory + ElementSize * 0}
      BY <3>1 DEF Built
    <3>3. memory + ElementSize * 0 = memory
      BY <1>2
    <3> QED
      BY <3>2, <3>3
  <2> QED
    BY <1>1, <1>5, <2>1, <2>2 DEF Contents, x
<1> QED
  BY <1>3, <1>4, <1>5 DEF Shape

\* A variable without a handle gets one, with a new block or none.
LEMMA NewHandle ==
    ASSUME OwnedInv, NEW h \in Handles, handles[h] = Unborn, NEW x \in HandleType,
           handles' = [handles EXCEPT ![h] = x],
           x.kind = "object" => x.layout.size = ElementSize,
           objects' = objects \cup Contents(x),
           \/ x.memory = Null /\ x.layout.size = 0 /\ live' = live
           \/ x.memory # Null /\ Block(x) \notin live /\ live' = live \cup {Block(x)}
    PROVE  HandlesTyped' /\ OwnersInv' /\ ObjectsInv'
<1>1. handles'[h] = x /\ \A g \in Handles \ {h} : handles'[g] = handles[g]
  BY DEF OwnedInv, HandlesTyped
<1>2. ~ Owns(h) /\ Contents(handles[h]) = {}
  BY DEF Owns, Unborn, Handle, Contents
<1>3. HandlesTyped'
  BY DEF OwnedInv, HandlesTyped
<1>4. OwnersInv'
  <2>1. \A g \in Handles : ~ Owns(g)' => handles'[g].layout.size = 0
    BY <1>1 DEF OwnedInv, OwnersInv, Owns
  <2>2. \A g \in Handles : Owns(g)' => Block(handles'[g]) \in live'
    BY <1>1 DEF OwnedInv, OwnersInv, Owns
  <2>3. \A g \in Handles \ {h} : Owns(g)' /\ Owns(h)' => Block(handles'[g]) # Block(handles'[h])
    BY <1>1 DEF OwnedInv, OwnersInv, Owns
  <2>4. \A g, k \in Handles \ {h} :
            Owns(g)' /\ Owns(k)' /\ g # k => Block(handles'[g]) # Block(handles'[k])
    BY <1>1 DEF OwnedInv, OwnersInv, Owns
  <2>5. ASSUME NEW b \in live' PROVE \E g \in Handles : Owns(g)' /\ Block(handles'[g]) = b
    <3>1. CASE b \in live
      <4>1. PICK g \in Handles : Owns(g) /\ Block(handles[g]) = b
        BY <3>1 DEF OwnedInv, OwnersInv
      <4>2. g # h
        BY <1>2, <4>1
      <4> QED
        BY <1>1, <4>1, <4>2 DEF Owns
    <3>2. CASE b \notin live
      <4>1. x.memory # Null /\ b = Block(x)
        BY <3>2
      <4> QED
        BY <1>1, <4>1 DEF Owns
    <3> QED
      BY <3>1, <3>2
  <2> QED
    BY <2>1, <2>2, <2>3, <2>4, <2>5 DEF OwnersInv, Block
<1>5. ObjectsInv'
  <2>1. objects = UNION {Contents(handles[g]) : g \in Handles \ {h}}
    BY <1>2 DEF OwnedInv, ObjectsInv
  <2>2. UNION {Contents(handles'[g]) : g \in Handles}
           = Contents(x) \cup UNION {Contents(handles[g]) : g \in Handles \ {h}}
    BY <1>1
  <2>3. \A g \in Handles : Owns(g)' /\ handles'[g].kind = "object"
            => handles'[g].layout.size = ElementSize
    BY <1>1 DEF OwnedInv, ObjectsInv, Owns
  <2> QED
    BY <2>1, <2>2, <2>3 DEF ObjectsInv, Contents, Built
<1> QED
  BY <1>3, <1>4, <1>5

LEMMA ConstructKeeps ==
    ASSUME OwnedInv, NEW h \in Handles, NEW kind \in Kinds, NEW resource \in Resources,
           NEW layout, NEW count, Shape(kind, layout, count),
           Construct(h, kind, resource, layout, count)
    PROVE  OwnedInv'
<1>1. layout \in Layouts /\ layout.alignment \in Alignments /\ handles[h] = Unborn
  BY DEF Shape, Construct
<1>2. PICK memory \in Answers(resource, layout) :
         /\ Give(resource, memory, layout)
         /\ \/ layout.size # 0 /\ memory = Null /\ UNCHANGED <<handles, objects>>
            \/ /\ layout.size = 0 \/ memory # Null
               /\ handles' = [handles EXCEPT ![h] = Handle(kind, resource, memory, layout)]
               /\ objects' = objects \cup Built(memory, count)
  BY DEF Construct
<1>3. CASE memory = Null
  <2>1. live' = live /\ mismatched' = mismatched /\ current' = current /\ remaining' = remaining
    BY <1>2, <1>3 DEF Give, arena
  <2>2. LiveInv' /\ ArenaInv' /\ mismatched' = FALSE
    BY <2>1 DEF OwnedInv, LiveInv, ArenaInv, BytesOf
  <2>3. CASE layout.size # 0
    <3>1. handles' = handles /\ objects' = objects
      BY <1>2, <1>3, <2>3
    <3> QED
      BY <2>1, <2>2, <3>1 DEF OwnedInv, HandlesTyped, OwnersInv, ObjectsInv, Owns, Contents,
          Built
  <2>4. CASE layout.size = 0
    <3> DEFINE x == Handle(kind, resource, memory, layout)
    <3>1. memory \in Words
      BY <1>3, StorageAssumption DEF Null, Words
    <3>2. Built(memory, count) = Contents(x)
      BY <2>4, <3>1, MakesItsContents
    <3>3. /\ x \in HandleType /\ x.memory = memory /\ x.layout = layout /\ x.kind = kind
      BY <1>1, <3>1 DEF Handle, HandleType
    <3>4. handles' = [handles EXCEPT ![h] = x] /\ objects' = objects \cup Contents(x)
      BY <1>2, <2>4, <3>2
    <3> HIDE DEF x
    <3>5. HandlesTyped' /\ OwnersInv' /\ ObjectsInv'
      BY <1>1, <1>3, <2>1, <2>4, <3>3, <3>4, NewHandle DEF Shape
    <3> QED
      BY <2>2, <3>5 DEF OwnedInv
  <2> QED
    BY <2>3, <2>4
<1>4. CASE memory # Null
  <2> DEFINE x == Handle(kind, resource, memory, layout)
             b == NewBlock(resource, memory, layout)
  <2>1. layout.size # 0
    BY <1>4 DEF Answers
  <2>2. /\ Fresh(b, current') /\ live' = live \cup {b}
        /\ ArenaInv' /\ current <= current' /\ mismatched' = mismatched
    BY <1>1, <1>2, <1>4, <2>1, AnswersAreFresh
  <2>3. b.memory = memory /\ b.layout = layout /\ b = Block(x)
    BY DEF NewBlock, Block, Handle
  <2>4. memory \in Words
    BY <2>2, <2>3 DEF Fresh, BlockType
  <2>5. x \in HandleType /\ x.memory = memory /\ x.layout = layout /\ x.kind = kind
    BY <1>1, <2>4 DEF Handle, HandleType
  <2>6. Built(memory, count) = Contents(x)
    BY <1>4, <2>4, MakesItsContents
  <2>7. handles' = [handles EXCEPT ![h] = x] /\ objects' = objects \cup Contents(x)
    BY <1>2, <1>4, <2>6
  <2> HIDE DEF x, b
  <2>8. b \notin live
    BY <2>1, <2>2, <2>3, FreshIsNew
  <2>9. LiveInv'
    <3>1. current' \in Int
      BY <2>2 DEF ArenaInv, Words
    <3> QED
      BY <2>1, <2>2, <2>3, <3>1, LiveGrows
  <2>10. HandlesTyped' /\ OwnersInv' /\ ObjectsInv'
    BY <1>1, <1>4, <2>2, <2>3, <2>5, <2>7, <2>8, NewHandle DEF Shape
  <2> QED
    BY <2>2, <2>9, <2>10 DEF OwnedInv
<1> QED
  BY <1>3, <1>4

-----------------------------------------------------------------------------
(* The steps of the program.                                                *)

LEMMA MakesKeep ==
    ASSUME OwnedInv, NEW h \in Handles, NEW resource \in Resources,
           \/ \E s \in Sizes, a \in Alignments : MakeAllocation(h, resource, s, a)
           \/ \E n \in Counts : MakeArray(h, resource, n)
           \/ MakeObject(h, resource)
    PROVE  OwnedInv'
<1>1. /\ Sizes \subseteq Words /\ Counts \subseteq Words /\ Alignments \subseteq Words
      /\ ElementSize \in Words /\ ElementAlignment \in Alignments
  BY LayoutAssumption
<1>2. ASSUME NEW s \in Sizes, NEW a \in Alignments, MakeAllocation(h, resource, s, a)
      PROVE  OwnedInv'
  <2>1. Shape("allocation", [size |-> s, alignment |-> a], 0)
    BY <1>1 DEF Shape, Layouts
  <2> QED
    BY <1>2, <2>1, ConstructKeeps DEF MakeAllocation, Kinds
<1>3. ASSUME NEW n \in Counts, MakeArray(h, resource, n) PROVE OwnedInv'
  <2> DEFINE usize == Unsigned(WordSize - 1)
  <2>1. PICK layout \in ArrayLayouts(n) : Construct(h, "array", resource, layout, n)
    BY <1>3 DEF MakeArray
  <2>2. Values(usize) = Words
    BY DEF Values, Unsigned, Words
  <2>3. usize \in IntegerTypes
    BY StorageAssumption DEF IntegerTypes
  <2> HIDE DEF usize
  <2>4. CheckedMul(ElementSize, n, usize) = {ElementSize * n} \cap Words
    BY <1>1, <2>2, <2>3, MulIsExact
  <2>5. /\ layout = [size |-> ElementSize * n, alignment |-> ElementAlignment]
        /\ ElementSize * n \in Words
    BY <2>1, <2>4 DEF ArrayLayouts, usize
  <2>6. n \in Nat
    BY <1>1, StorageAssumption DEF Words
  <2>7. Shape("array", layout, n)
    BY <1>1, <2>5, <2>6 DEF Shape, Layouts
  <2> QED
    BY <2>1, <2>7, ConstructKeeps DEF Kinds
<1>4. CASE MakeObject(h, resource)
  <2>1. Shape("object", [size |-> ElementSize, alignment |-> ElementAlignment], 1)
    BY <1>1 DEF Shape, Layouts
  <2> QED
    BY <1>4, <2>1, ConstructKeeps DEF MakeObject, Kinds
<1> QED
  BY <1>2, <1>3, <1>4

LEMMA OwnedStep ==
    ASSUME OwnedInv, [Next]_vars
    PROVE  OwnedInv'
<1>1. CASE UNCHANGED vars
  BY <1>1 DEF vars, OwnedInv, ArenaInv, HandlesTyped, LiveInv, OwnersInv, ObjectsInv, Owns,
      BytesOf, Region, Block, Contents, Built
<1>2. ASSUME NEW h \in Handles, NEW r \in Resources,
             \/ \E s \in Sizes, a \in Alignments : MakeAllocation(h, r, s, a)
             \/ \E n \in Counts : MakeArray(h, r, n)
             \/ MakeObject(h, r)
      PROVE  OwnedInv'
  BY <1>2, MakesKeep
<1>3. ASSUME NEW h \in Handles, NEW other \in Handles,
             MoveConstruct(h, other) \/ MoveAssign(h, other)
      PROVE  OwnedInv'
  BY <1>3, MoveConstructKeeps, MoveAssignKeeps
<1>4. ASSUME NEW h \in Handles, Destroy(h) PROVE OwnedInv'
  BY <1>4, DestroyKeeps
<1>5. CASE Reset
  BY <1>5, ResetKeeps
<1> QED
  BY <1>1, <1>2, <1>3, <1>4, <1>5 DEF Next

LEMMA OwnedInit == Init => OwnedInv
<1> SUFFICES ASSUME Init PROVE OwnedInv
  OBVIOUS
<1> USE DEF Init
<1>1. ArenaInv
  BY StorageAssumption DEF ArenaInit, ArenaInv, ArenaEnd, Words
<1>2. Unborn \in HandleType /\ Unborn.memory = Null /\ Unborn.layout.size = 0
  BY StorageAssumption, Alignment, LayoutAssumption
     DEF Unborn, Handle, HandleType, Kinds, Resources, Layouts, EmptyLayout, Words, Null
<1> HIDE DEF Unborn
<1>3. \A h \in Handles : handles[h] = Unborn
  OBVIOUS
<1>4. HandlesTyped
  BY <1>2 DEF HandlesTyped
<1>5. LiveInv /\ OwnersInv
  BY <1>2, <1>3 DEF LiveInv, OwnersInv, Owns
<1>6. ObjectsInv
  BY <1>2, <1>3 DEF ObjectsInv, Owns, Contents
<1> QED
  BY <1>1, <1>4, <1>5, <1>6 DEF OwnedInv

LEMMA OwnedAlways == Spec => []OwnedInv
  BY OwnedInit, OwnedStep, PTL DEF Spec

\* What each variable of the memory module holds, at every width of the words.
THEOREM MemoryTyped == Spec => []TypeOK
<1>1. ASSUME OwnedInv PROVE objects \subseteq Words
  <2>1. ASSUME NEW h \in Handles PROVE Contents(handles[h]) \subseteq Words
    <3>1. CASE ~ Owns(h)
      BY <3>1 DEF Owns, Contents
    <3>2. CASE Owns(h)
      <4>1. Contents(handles[h]) \subseteq BytesOf(Block(handles[h]))
        BY <1>1, <3>2, ContentsInBlock DEF OwnedInv, HandlesTyped, ObjectsInv, Owns
      <4>2. /\ Block(handles[h]) \in live /\ Block(handles[h]).resource \in Resources
            /\ BytesOf(Block(handles[h])) \subseteq Region(Block(handles[h]).resource, current)
        BY <1>1, <3>2 DEF OwnedInv, OwnersInv, LiveInv, BlockType
      <4>3. Begin .. current - 1 \subseteq Words /\ HeapAddresses \subseteq Words
        <5>1. HeapAddresses \subseteq Words
          BY LayoutAssumption
        <5>2. Begin \in Nat /\ current \in Nat /\ current < WordSize /\ WordSize \in Nat
          BY <1>1, StorageAssumption DEF OwnedInv, ArenaInv, Words
        <5> QED
          BY <5>1, <5>2 DEF Words
      <4> QED
        BY <4>1, <4>2, <4>3 DEF Region
    <3> QED
      BY <3>1, <3>2
  <2> QED
    BY <1>1, <2>1 DEF OwnedInv, ObjectsInv
<1>2. OwnedInv => TypeOK
  <2> SUFFICES ASSUME OwnedInv PROVE TypeOK
    OBVIOUS
  <2>1. objects \subseteq Words
    BY <1>1
  <2>2. mismatched \in BOOLEAN
    BY DEF OwnedInv
  <2>3. \A b \in live : b \in [resource : Resources, memory : Words, layout : Layouts]
    BY DEF OwnedInv, LiveInv, BlockType
  <2> QED
    BY <2>1, <2>2, <2>3 DEF OwnedInv, ArenaInv, HandlesTyped, TypeOK
<1> QED
  BY <1>2, OwnedAlways, PTL

\* No two blocks in use overlap, whatever the arena and the heap gave (linear_arena.cpp:26-42).
THEOREM NoOverlap == Spec => []BlocksApart
<1>1. OwnedInv => BlocksApart
  BY DEF OwnedInv, ArenaInv, LiveInv, BlocksApart, Region
<1> QED
  BY <1>1, OwnedAlways, PTL

\* The arena's answer is the first place there is, and it refuses only if there is none.
THEOREM ArenaIsExact == Spec => []RefusesOnlyWhenFull
<1>1. ASSUME OwnedInv PROVE RefusesOnlyWhenFull
  <2>1. \A size \in Sizes \ {0} : size \in Words \ {0}
    BY LayoutAssumption
  <2>2. ArenaInv
    BY <1>1 DEF OwnedInv
  <2> QED
    BY <2>1, <2>2, ArenaAnswer DEF RefusesOnlyWhenFull
<1> QED
  BY <1>1, OwnedAlways, PTL

\* Moves and assignments neither share a block nor drop one.
THEOREM OneOwner == Spec => []ExactlyOneOwner
<1>1. ASSUME OwnedInv PROVE ExactlyOneOwner
  <2>1. \A h \in Handles : \/ handles[h].memory = Null /\ handles[h].layout.size = 0
                           \/ Block(handles[h]) \in live
    BY <1>1 DEF OwnedInv, OwnersInv, Owns
  <2>2. ASSUME NEW b \in live
        PROVE  Cardinality({h \in Handles : Block(handles[h]) = b}) = 1
    <3>1. PICK h \in Handles : Owns(h) /\ Block(handles[h]) = b
      BY <1>1 DEF OwnedInv, OwnersInv
    <3>2. ASSUME NEW g \in Handles, Block(handles[g]) = b PROVE g = h
      <4>1. b.memory # Null
        BY <1>1 DEF OwnedInv, LiveInv
      <4>2. Owns(g)
        BY <3>2, <4>1 DEF Owns, Block
      <4> QED
        BY <1>1, <3>1, <3>2, <4>2 DEF OwnedInv, OwnersInv
    <3>3. {g \in Handles : Block(handles[g]) = b} = {h}
      BY <3>1, <3>2
    <3> QED
      BY <3>3, FS_Singleton
  <2> QED
    BY <2>1, <2>2 DEF ExactlyOneOwner
<1> QED
  BY <1>1, OwnedAlways, PTL

\* No destructor or assignment frees twice, or through another allocator.
THEOREM NoDoubleFree == Spec => []GivenBackOnce
<1>1. OwnedInv => GivenBackOnce
  BY DEF OwnedInv, GivenBackOnce
<1> QED
  BY <1>1, OwnedAlways, PTL

\* The objects that live are those the handles hold, however they were moved about.
THEOREM ObjectsOwned == Spec => []ObjectsMatchOwners
<1>1. OwnedInv => ObjectsMatchOwners
  BY DEF OwnedInv, ObjectsInv, ObjectsMatchOwners
<1> QED
  BY <1>1, OwnedAlways, PTL
=============================================================================
