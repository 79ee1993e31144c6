---------------------------- MODULE OwnedMemory ----------------------------
(***************************************************************************)
(* The owning handles of qiven::memory - OwnedAllocation, OwnedObject<T>,  *)
(* OwnedArray<T> - on AllocatorRefs to two resources, a LinearArena and    *)
(* the SystemAllocator.  One program thread runs any sequence of           *)
(* constructions, moves, assignments and destructions; each runs to its    *)
(* end before the next, so each is one step, destructors of members and of *)
(* temporaries included.                                                   *)
(***************************************************************************)
EXTENDS LinearArena, FiniteSets, CheckedArithmetic

CONSTANTS
    Handles,            \* the variables of the program that hold a handle
    Sizes,              \* sizes asked for
    Alignments,         \* alignments asked for: powers of two
    Counts,             \* element counts asked for
    ElementSize,        \* sizeof(T)
    ElementAlignment,   \* alignof(T)
    NativeAlignment,    \* minimum_native_alignment
    HeapAddresses       \* the bytes the C library has to give

ASSUME LayoutAssumption ==
    /\ Sizes \subseteq Words /\ Counts \subseteq Words
    /\ Alignments \subseteq Words \ {0}
    /\ ElementSize \in Words \ {0} /\ ElementAlignment \in Alignments
    /\ NativeAlignment \in Words \ {0}
    /\ HeapAddresses \subseteq Words \ {0}

\* Of two powers of two the smaller divides the larger; usize has a power of two of
\* values, and Layout accepts no other alignment.
ASSUME PowersOfTwoAssumption ==
    \A a, b \in Alignments \cup {NativeAlignment, WordSize} : a <= b => b % a = 0

\* The arena's storage is an object of the caller: the heap gives out no byte of it.
ASSUME HeapAssumption == \A a \in HeapAddresses : a \notin Begin .. ArenaEnd - 1

VARIABLES
    handles,        \* what each variable holds
    live,           \* blocks a resource has handed out and not got back
    objects,        \* addresses of the live objects of type T
    mismatched      \* history: whether a resource got back what it never gave

vars == <<current, remaining, handles, live, objects, mismatched>>

Null == 0
Layouts == [size : Words, alignment : Words]
EmptyLayout == [size |-> 0, alignment |-> 1]
Resources == {"arena", "system"}
Kinds == {"allocation", "array", "object", "unborn"}
HandleType == [kind : Kinds, resource : Resources, memory : Words, layout : Layouts]

\* allocator_, memory_ and layout_; an unborn variable holds no handle.
Handle(kind, resource, memory, layout) ==
    [kind |-> kind, resource |-> resource, memory |-> memory, layout |-> layout]
Unborn == Handle("unborn", "arena", Null, EmptyLayout)

Block(handle) ==
    [resource |-> handle.resource, memory |-> handle.memory, layout |-> handle.layout]
BytesOf(block) == block.memory .. block.memory + block.layout.size - 1

Init ==
    /\ ArenaInit
    /\ handles = [h \in Handles |-> Unborn]
    /\ live = {} /\ objects = {} /\ mismatched = FALSE

-----------------------------------------------------------------------------
(* The resources behind an AllocatorRef.                                    *)

\* posix_memalign: some free stretch of the heap with the raised alignment.
HeapPlaces(layout) ==
    LET alignment == IF layout.alignment < NativeAlignment
                     THEN NativeAlignment ELSE layout.alignment
    IN  {a \in HeapAddresses :
            /\ a % alignment = 0
            /\ a .. a + layout.size - 1 \subseteq HeapAddresses
            /\ \A b \in live : BytesOf(b) \cap (a .. a + layout.size - 1) = {}}

\* What AllocatorRef::try_allocate may answer: an empty layout asks nobody, and
\* the C library may refuse.
Answers(resource, layout) ==
    CASE layout.size = 0 -> {Null}
      [] layout.size # 0 /\ resource = "arena" ->
            IF ArenaFits(layout.size, layout.alignment)
            THEN {ArenaBlock(layout.alignment)} ELSE {Null}
      [] OTHER -> HeapPlaces(layout) \cup {Null}

Give(resource, memory, layout) ==
    /\ live' = IF memory = Null THEN live
               ELSE live \cup {[resource |-> resource, memory |-> memory, layout |-> layout]}
    /\ IF resource = "arena" /\ memory # Null
       THEN ArenaTake(layout.size, layout.alignment) ELSE UNCHANGED arena
    /\ UNCHANGED mismatched

\* AllocatorRef::deallocate and the resource behind it: no resource but the heap
\* does anything, and none can tell whether the block is one of its own.
Deallocate(handle) ==
    /\ live' = live \ {Block(handle)}
    /\ mismatched' = (\/ mismatched
                      \/ handle.memory # Null /\ Block(handle) \notin live)
    /\ UNCHANGED arena

-----------------------------------------------------------------------------
(* Construction: try_allocate, try_make_owned_array, try_make_owned_object. *)

\* The objects construct_at makes, and those destroy_n will find.
Built(memory, count) == {memory + ElementSize * i : i \in 0 .. count - 1}
Contents(handle) ==
    CASE handle.memory = Null -> {}
      [] handle.memory # Null /\ handle.kind = "array" ->
            Built(handle.memory, handle.layout.size \div ElementSize)
      [] handle.memory # Null /\ handle.kind = "object" -> {handle.memory}
      [] OTHER -> {}

\* Without memory for a layout of some size there is no handle.
Construct(h, kind, resource, layout, count) ==
    /\ handles[h] = Unborn
    /\ \E memory \in Answers(resource, layout) :
          /\ Give(resource, memory, layout)
          /\ \/ /\ layout.size # 0 /\ memory = Null
                /\ UNCHANGED <<handles, objects>>
             \/ /\ layout.size = 0 \/ memory # Null
                /\ handles' = [handles EXCEPT ![h] = Handle(kind, resource, memory, layout)]
                /\ objects' = objects \cup Built(memory, count)

MakeAllocation(h, resource, size, alignment) ==
    Construct(h, "allocation", resource, [size |-> size, alignment |-> alignment], 0)

\* Layout::array: none when the size is not a usize.
ArrayLayouts(count) ==
    {[size |-> size, alignment |-> ElementAlignment] :
        size \in CheckedMul(ElementSize, count, Unsigned(WordSize - 1))}

MakeArray(h, resource, count) ==
    \E layout \in ArrayLayouts(count) : Construct(h, "array", resource, layout, count)

MakeObject(h, resource) ==
    Construct(h, "object", resource,
              [size |-> ElementSize, alignment |-> ElementAlignment], 1)

-----------------------------------------------------------------------------
(* Destruction and moves.                                                   *)

\* The owned objects go first, then the storage.
Destroy(h) ==
    /\ handles[h] # Unborn
    /\ Deallocate(handles[h])
    /\ objects' = objects \ Contents(handles[h])
    /\ handles' = [handles EXCEPT ![h] = Unborn]

\* Mutant: only the pointer leaves.
Emptied_KeepsLayout(handle) == [handle EXCEPT !.memory = Null]
\* What a move leaves behind.
Emptied(handle) == [handle EXCEPT !.memory = Null, !.layout = EmptyLayout]

MoveConstruct(h, other) ==
    /\ handles[h] = Unborn /\ handles[other] # Unborn
    /\ handles' = [handles EXCEPT ![h] = handles[other], ![other] = Emptied(handles[other])]
    /\ UNCHANGED <<current, remaining, live, objects, mismatched>>

\* Mutant: the assigned handle keeps its own allocator.
Adopted_OwnAllocator(handle, other) == [other EXCEPT !.resource = handle.resource]
\* What the handle holds after the assignment.
Adopted(handle, other) == other

\* Mutant: the objects of the assigned handle are forgotten.
Released_Forgotten(handle) == {}
\* The objects the assignment ends.
Released(handle) == Contents(handle)

\* An assignment to itself does nothing.
MoveAssign(h, other) ==
    /\ h # other
    /\ handles[h] # Unborn /\ handles[other].kind = handles[h].kind
    /\ Deallocate(handles[h])
    /\ objects' = objects \ Released(handles[h])
    /\ handles' = [handles EXCEPT ![h] = Adopted(handles[h], handles[other]),
                                  ![other] = Emptied(handles[other])]

\* The caller resets the arena when it has no block of it left.
Reset ==
    /\ \A b \in live : b.resource # "arena"
    /\ ArenaReset
    /\ UNCHANGED <<handles, live, objects, mismatched>>

Next ==
    \/ \E h \in Handles, r \in Resources :
          \/ \E s \in Sizes, a \in Alignments : MakeAllocation(h, r, s, a)
          \/ \E n \in Counts : MakeArray(h, r, n)
          \/ MakeObject(h, r)
    \/ \E h, other \in Handles : MoveConstruct(h, other) \/ MoveAssign(h, other)
    \/ \E h \in Handles : Destroy(h)
    \/ Reset

Spec == Init /\ [][Next]_vars

-----------------------------------------------------------------------------

\* Every variable stays in its range.
TypeOK ==
    /\ current \in Words /\ remaining \in Words
    /\ handles \in [Handles -> HandleType]
    /\ \A b \in live : b \in [resource : Resources, memory : Words, layout : Layouts]
    /\ objects \subseteq Words /\ mismatched \in BOOLEAN

\* Blocks that are in use never overlap, each has the alignment that was asked for,
\* and the arena's lie in its storage, below what it will give out next.
BlocksApart ==
    /\ \A b \in live :
          /\ b.memory % b.layout.alignment = 0
          /\ b.resource = "arena" => BytesOf(b) \subseteq Begin .. current - 1
    /\ \A b, c \in live : b # c => BytesOf(b) \cap BytesOf(c) = {}
    /\ current + remaining = ArenaEnd

\* The arena refuses a request exactly when what is left of its storage has no place
\* for it, and answers with the first such place: neither a short remainder nor an
\* address that wraps makes it refuse too early or accept too late.
RefusesOnlyWhenFull ==
    \A size \in Sizes \ {0}, alignment \in Alignments :
        /\ ArenaFits(size, alignment) <=> Places(size, alignment) # {}
        /\ ArenaFits(size, alignment) =>
              /\ ArenaBlock(alignment) \in Places(size, alignment)
              /\ \A a \in Places(size, alignment) : ArenaBlock(alignment) <= a

\* Through any sequence of moves and assignments each block in use belongs to exactly
\* one handle, which names the resource and the layout it came with; a handle without
\* a block reports the size zero.
ExactlyOneOwner ==
    /\ \A h \in Handles :
          \/ handles[h].memory = Null /\ handles[h].layout.size = 0
          \/ Block(handles[h]) \in live
    /\ \A b \in live : Cardinality({h \in Handles : Block(handles[h]) = b}) = 1

\* No resource is ever handed a block that is not its own, with that layout, and still
\* in use: no double free, and none through another allocator.
GivenBackOnce == ~mismatched

\* The live objects are those the handles own: none outlives its storage, none is
\* forgotten, and an array constructs as many as it will destroy.
ObjectsMatchOwners ==
    objects = UNION {Contents(handles[h]) : h \in Handles}
=============================================================================
