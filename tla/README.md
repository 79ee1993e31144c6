# A TLA+ model of qiven-foundation

This directory holds the formal model of the library's behaviour at run time: TLA+
modules translated from the sources, TLC configurations that model-check them on small
instances, and theorems that TLAPS proves for every instance. File names below are
relative to the repository (`include/qiven/...`, `src/...`).

## Inventory

| Component | State | Operations | Hard behaviour | What makes it correct |
|---|---|---|---|---|
| Crash ring, `include/qiven/diag/ring.hpp` | last reservation, drop counter; per slot a sequence word, an access word, a plain payload | `write` (many threads), `capture_newest` (many threads) | lock-free; owners suspended or killed; wrap-around; saturation | no torn record, slots only advance, honest status, every write counted, nobody waits |
| Diagnostics service, `src/diag/service.cpp` | two bounded lanes, writer thread, stop flag, counters, one global instance | `emit`, `install`, `shutdown`, `health`, `crash_history` | producers against the writer against shutdown; timeouts; missed notifications | no silent loss, order, bounded emit, a flush that covers what was queued |
| Rotating sink, `src/diag/service.cpp` (`write_record`, `rotate`) | file family, open stream and its buffer, byte count of the generation | write, rotate, open, close | each file-system call may fail; the process may die between two | the newest records are kept without a gap, generations stay bounded, failures are counted |
| Memory, `include/qiven/memory/`, `src/memory/` | arena offset, owning handles, live objects | allocate, deallocate, move, assign, reset | overflow arithmetic, long sequences of moves between handles of two allocators | each block freed once with its layout; alignment and bounds; objects live and die with their storage |
| Allocation observer, `include/qiven/memory/observer.hpp` | seven atomic counters, a watch's snapshot | three hooks, `snapshot`, `reset`, `has_leak` | counters updated and loaded one at a time by many threads | counters that add up, a true high-water mark |
| Byte builder, cursor, writer | a growing buffer, a position | append, put scalars, reset, move, take | growth refused or overflowing in the middle | all or nothing, and what is put can be read back |
| Result, `include/qiven/result.hpp` | a flag and a union per object | construct, copy, move, assign, `value`, `reason` | copy constructors that throw between two alternatives | one live alternative, the one the flag claims; objects constructed and destroyed in pairs |
| Contracts and CRT failure, `src/contracts.cpp`, `src/crt_failure.cpp` | the re-entrancy guard, what standard error received | `contract_fail`, the invalid-parameter handler | faults of several threads, and in the handler itself | evidence is written once, then the process ends |
| SHA-256, `include/qiven/hashing_sha256.hpp` | the block buffer, the byte count, the compressed blocks | `update`, `finish`, re-arming | chunks across block ends, padding, what a message leaves behind | the digest is that of the padded message |
| Checked arithmetic, `include/qiven/checked_*.hpp`, `alignment.hpp` | none | add, sub, mul, cast, subspan, align | signed extremes, truncating division | exact result or none |
| Platform, types, configuration, event vocabulary, tools | - | - | - | compile time, or outside the library |

The producers call `emit`, which writes the event into the crash ring and then pushes it
into a lane; the writer thread pops the lanes and hands records to the rotating sink; a
crash handler reads the ring through `crash_history()`, which takes the mutex that
`install` and `shutdown` hold. The byte builder owns its block through `OwnedAllocation`,
which asks a resource (arena or system allocator) through an `AllocatorRef`; both compute
sizes with checked arithmetic. A `Result` asked for the alternative it does not hold, and
a message too long to hash, end in `contract_fail`; the CRT handler ends the process on
its own way. The diagnostics part uses none of the memory part, and nothing in the library
calls the observer's hooks, which are there for allocators of its users.

## Modules

| Module | What it is |
|---|---|
| `RingBoard` | what the ring promises: a board whose places change atomically, and passes over it |
| `CrashRing` | the ring, one step per access to shared memory; its properties; the protocol invariant; the refinement mapping to `RingBoard` |
| `CrashRingProofs` | theorems about `CrashRing`: the protocol, bounded calls, counted writes; what captures return; that the ring implements the board |
| `DiagService` | producers, lanes, writer loop, crash of the writer, install and shutdown |
| `DiagServiceProofs` | theorems about `DiagService`: the accounts, order, flush and the results it reports |
| `RecordLine` | how long a record's line gets, and what escaping keeps of a message |
| `RotatingSink` | the file family, one step per file-system call; extends `RecordLine` |
| `RotatingSinkProofs` | theorems about the escape loop, the size of generations and what the family retains |
| `CheckedArithmetic` | checked operations, casts, subspans and alignment as operators |
| `ArithmeticProofs` | theorems: the checked operations are exact; before them, least elements, induction, finite sums, powers, remainders and sequences for the other proofs |
| `LinearArena` | the arena's arithmetic and its two state changes, for `OwnedMemory` |
| `OwnedMemory` | allocator references, the system allocator and the three owning handles |
| `OwnedMemoryProofs` | theorems about the arena, the handles and the objects in them |
| `AllocationObserver` | the observer's hooks and a watch, one atomic operation per step |
| `AllocationObserverProofs` | theorems about the observer's peak, its totals and a quiet watch |
| `ByteAccumulator` | what the byte builder promises |
| `ByteBuilder` | the byte builder with the codecs and a cursor; the mapping to `ByteAccumulator` |
| `ByteBuilderProofs` | theorems about the codecs, growth and reading back; that the builder implements the accumulator |
| `ResultCells` | variables of a Result type |
| `Sha256Stream` | the streaming of SHA-256 |
| `FailFast` | `contract_fail` and the invalid-parameter handler |
| `CheckedProgram` | a program with Results, a hasher and failing threads: composes the three |
| `CheckedProgramProofs` | theorems: the lifetimes of Results balance; evidence is written once; a digest is its message's |
| `MC*` | instances for TLC |

### CrashRing

Variables are the class's members (`lastReserved`, `dropped`, `sequences`, `access`,
`records`) and, per thread, a program counter and the locals of the call. `write` is
`BeginWrite`, `Reserve`, `ClaimSlot`, `CheckSequence` (then `GiveUp`, `CountDrop`),
`MarkInProgress`, `StoreHeader`, `StoreMessage`, `CommitSequence`, `ReleaseSlot`;
`capture_newest` is `BeginCapture`, `LoadDropped`, and per slot `InspectSlot` or
`SkipBusySlot`, `LoadSequence`, `CopyHeader`, `CopyMessage`, `JudgeSlot`. The payload is
stored and copied in two halves so that a mixed record is a state the model can reach.
`started`, `ledger`, `newest` and `base` are histories that no guard reads, but for the
bound on the number of writes. Sequence words wrap at `WordSize`.

`NobodyWaits` says with ENABLED that a thread inside a call always has a next step,
whatever the others have stopped at; `EachStepIsProgress` measures how many steps a call
still has (`WriterStepsLeft`, `InspectorStepsLeft`), which its own steps lower and the
others' never raise. Together they are wait-freedom, with no fairness assumed. The status
of a window is judged by `StatusIsHonest` against `base`, the board at the capture's
beginning.

Accesses are interleaved, i.e. sequentially consistent. What the properties need of the
weaker order in the code is the edge from an owner's `access.store(0, release)` to the
next owner's acquiring compare-exchange, which exists at every hand-over. The watermark
and the drop counter are read without such an edge, so a real snapshot may carry older
values of them than the model's.

### DiagService

A lane operation is one critical section of the lane's mutex and hence one step. The
writer loop is cut at every lane operation, at its look at `stop_`, and around its sleep;
`shutdown` at every call it makes: `BeginShutdown` finds the service, `GeneralBefore` and
`DrainedBefore` read the two counters of `drained_before` (from left to right), then
`SetStop`, `WakeLanes`, `NotifyWriter`, `Join`, and the result lane by lane. Time is not
represented: a wait may time out at any moment, and `FlushWindowPasses` says that the
timeout counted from the call of `shutdown()` is over; the deadline of the flush loop lies
no earlier. The ring write of `emit`, whose outcome it ignores, is `CrashRing`'s. With `MayCrash` the writer thread may
crash at any step (`WriterCrashes`); the handler then asks for the ring with
`CrashHistory`, which needs `g_service_mutex` and so an idle host, and its report ends the
process. The caller's contract (`service.hpp:173-176`) is a guard of `Destroy`; with
`Overlap` emits may run while `shutdown()` does. `health()` and the configuration errors of
`install` change nothing and are left out. Producers stop after `MaxEmits` records: with
endless emits during `shutdown()` the main loop would never find the lanes empty.

Four histories follow the records of a shutdown from its call on: `promised` is what was
queued then, `taken` what the writer took since, `evicted` what pushes dropped since, and
`unseen` the part of `taken` that the baseline already contains, because the writer took it
before `drained_before` was read in its lane. `FlushCoversQueued` says that the flush takes
all of `promised`, but for general records that an overlapping emit evicts;
`ResultCoversQueued` that `drained` is exactly the number of `taken` without `unseen`, and
that the leftovers reported are as many as what is promised and neither taken nor evicted,
or more. A record in `unseen` is delivered and in no number of the result.

### RecordLine and RotatingSink

`RecordLine` keeps of a message what its escape depends on: which of its characters stay,
which take two bytes and which six. `Escaped` is the loop of `write_record` with its two
tests for room, `LineLength` the bounded line around it. With `MaxMessageBytes` 4 the
escape buffer has 9 bytes, so that one control character fits and a second does not; the
line buffer of 9 bytes cuts the longest lines, like the real one. `BadLengths` are the
lines of messages whose escape is not faithful; `EscapeFits` says that no file holds one.

`Write` is `write_record` with the size check behind it. `rotate` is `BeginRotate`,
`RemoveOlder` and `RenameOlder` per generation, `ClearFirst`, `PromoteRoot`, `Reopen`. A
file is the sequence of its records; the root path is generation 0. `remove`, `rename`,
`fopen` may fail whenever they have something to do; the stream's buffer is the C
library's, and a failed `fflush` or `fclose` is a step like any other. `Crash` may come
at any point, and a new run finds the files as they are. Partial lines left by a failed
`fwrite` and the `rotations` counter are not represented.

### CheckedArithmetic

An integer type is its least and greatest value, so that signed and unsigned types of every
width are instances of one definition; `Quotient` truncates like the language's division,
and an optional is a set of at most one element. The overflow tests are the code's, branch
by branch. `ByteBuilder` and `OwnedMemory` extend the module and compute with it.

### OwnedMemory and LinearArena

`handles` is what each variable of a program holds: a handle's `allocator_`, `memory_` and
`layout_`, or nothing yet. `live` is the view of the resources: the blocks they handed out
and did not get back. One thread runs one operation after the other, and none can be
interrupted, so each is one step: `MakeAllocation`, `MakeArray`, `MakeObject`, `Destroy`,
`MoveConstruct`, `MoveAssign`, and `Reset` of the arena. Addresses and sizes are words of
`WordSize` values. `AlignUp` is `std::align`, which is external, with its wrapping
addition. An array handle and an object handle differ from an allocation in their
`Contents`, the addresses where they will destroy an object. Assertions of the code are
not represented; what they assert follows from `BlocksApart` and `ExactlyOneOwner`.
`Reset` waits until no block of the arena is in use: the arena leaves lifetimes to its
caller (`docs/legacy/architecture/foundation-bootstrap-and-amendments-2026-09-25.md:169`).

### AllocationObserver

Each `fetch_add`, load, store and exchange is one step of a thread that is in a hook.
`Return` ends the hook, and with it the allocation: from then on any thread may free the
block. A `ScopedMemoryWatch` loads its snapshots field by field; only the two fields that
`has_leak` compares are kept. `reset` runs when no hook or snapshot does: the file names
only the hooks and `snapshot` as safe beside each other (`observer.hpp:12-13`). A watch
whose snapshots overlap with hooks gives no exact answer: between the two loads a block may
come and go, so that `has_leak` reports a leak that is none or misses one.
`QuietWatchIsExact` is therefore about the others.

### ByteBuilder

A builder is its block's cells, `size_`, `max_capacity_` and the latched `status_`. An
append is one step, with a choice where the allocator may refuse. Where `ensure_capacity`
computes, `Target` does, overflow of the doubling included: a capacity beyond half of
`usize` grows to what is required and not to the bound, although the comment there
(`byte_builder.hpp:214-215`) wants no exact fit; `GrowsGeometrically` makes that exception.
`puts` is a history of what was appended; `ReadsBack` walks it with `ByteCursor::take` and
the decoders of `endian.hpp`. `ImplementsAccumulator` maps cells and size to
the sequence of bytes of `ByteAccumulator`. A span of the builder's own bytes is
excluded, as it is by the comment at `byte_builder.hpp:87-92`. A shift by whole bytes divides
or multiplies by a `Weight`, the codecs' loops are recursive functions of the bytes they have
gone through, and so is the cursor's in `ReadAll`.

### CheckedProgram, ResultCells, Sha256Stream, FailFast

`ResultCells` has the variables of a program that are Results of one type: the flag, the
object in the union, and histories of what was constructed. Construction, copy, move,
assignment and the end of a scope are one step each, since one thread runs them; a copy
assignment may stop behind `destroy_active()` and the flag (`AssignThrows`), or, where the
void specialization promises `noexcept`, in `std::terminate` (`AssignTerminates`). What is
done to a cell without the object its flag claims is undefined, and `undefined` ends the
main thread's part of the model.

`Sha256Stream` cuts a stream of bytes into messages and chunks in every way. The
compression of a block is abstract: the state is the sequence of compressed blocks, so
that a digest is right when its blocks are those of the padded message. Widths are
parameters, so that the boundaries of padding and length come within a few bytes. The
length is written in powers of the byte (`Weight`), as `sha256_store_be_u64` shifts it.

`FailFast` has a program counter per thread for `contract_fail` and for the
invalid-parameter handler with its guard. A fault may come on any thread at any moment,
also in the calls the handler itself makes: before the guard, where it formats the evidence,
as well as behind it. `faults` counts them up to two, one or several being all that
`EvidenceOnce` distinguishes.

`CheckedProgram` runs the first two on its main thread, where a refused accessor (`Access`)
and a message too long (`HashTooLong`) enter `contract_fail`, while other threads fail on
their own. `Asserts` is `QIVEN_ENABLE_ASSERTS`.

## Runs

| Run | Instance | Shows |
|---|---|---|
| `ring` | 2 writers, 1 inspector, 2 slots, 3 reservations, 4 writes, windows 0, 1 and 3 (clamped to 2) | `NeverTorn`, `ProtocolInv`, `NewestFirst`, `StatusIsHonest`, `EveryWriteCounted`, `NobodyWaits`, `SlotNeverRegresses`, `EachStepIsProgress`, and `ImplementsBoard`: the ring refines `RingBoard` |
| `diag` | 2 producers, lanes of 2 and 1, 3 emits, overlap, a writer that may crash | `EveryRecordAccounted`, `SinkInOrder`, `FlushCoversQueued`, `ResultCoversQueued` |
| `diag_live` | lanes of 1, 2 emits, 2 installations, a writer that may crash | `EmitReturns`, `ShutdownReturns` |
| `diag_flush` | lanes of 2 and 1, 3 emits | refutes `FlushIsBounded` |
| `diag_crash_path` | lanes of 1, one emit, a writer that may crash | refutes `CrashIsReported` |
| `sink` | 3 generations, bound 8, lines of 4 and 8 bytes, 6 records, 2 runs; messages of up to 3 characters | `RetainsItsBudget`, `GenerationBounded`, `EscapeFits` |
| `sink_disk_full` | 2 generations, 4 records, 1 run | refutes `LossIsObservable` |
| `owned_memory` | 3 variables, words of 5 bits, an arena of 8 bytes at 23, a heap of the 12 bytes from 4, elements of 2 bytes | `BlocksApart`, `RefusesOnlyWhenFull`, `ExactlyOneOwner`, `GivenBackOnce`, `ObjectsMatchOwners` |
| `observer` | 2 threads, 3 allocations of 1 and 2 bytes, a watch, one reset, words of 3 bits | `CountersAddUp`, `PeakIsHighWaterMark`, `PeakNeverFalls`, `QuietWatchIsExact` |
| `byte_builder` | 2 builders bounded by 3 and 7, words of 3 bits, bytes of 1 bit, scalars of 2 and 4 bytes, 3 appends held | `ReadsBack`, `GrowsGeometrically`, `ImplementsAccumulator` |
| `program` | 2 cells, both copies throwing, blocks of 4 bytes with a length of 2, bytes of 3 bits, words of 6, a stream of 9 bytes, 2 threads, Windows, assertions on | `LifetimesBalance`, `DigestIsOfMessage`, `EvidenceOnce` |
| `result_throw` | the same | refutes `HoldsExactlyOne` |

Each passing run also checks its module's type invariant, but for `diag_live`, whose state
space the run `diag` covers for types.

The bounds are the smallest at which the interesting cases meet: with two slots and three
reservations a slot is reused while a delayed writer still holds its older reservation,
and the fourth write meets saturation; a lane of two drops an oldest that is not the only
one; five lines of the size of the bound fill every generation and push one out. The
arena ends one byte below the top of its words, so that every alignment of the run meets
an address that wraps; 16 elements of 2 bytes overflow a word of 5 bits; a builder's
capacity of 5 doubles past 3 bits. Nine bytes end a message at every place of a block of
four, with a length field that fits behind the marker or does not, and let a second
message begin in what the first left behind; eight bytes are more than a length word of 6
bits can count in bits, and so break the contract of `finish()`. `CHECK_DEADLOCK FALSE`
stands in the runs of the diagnostics part, where all activity stops when the bound on the
input is reached, and in those of `CheckedProgram`, where the process ends.

Fairness: none in `CrashRing`, whose threads may be suspended or killed
(`ring.hpp:65-68`). In `DiagService` it is assumed of producers and their timed waits,
whose deadlines are absolute (`service.cpp:81-86`), and of nobody else: the writer may
hang in the file system. `ShutdownReturns` and `CrashIsReported` name the progress of
writer, host and crash handler as hypotheses of their own.

### What the code does otherwise than its text

* Run `diag_flush`: `service.hpp:171-172` bounds the flush by the timeout; the clock
  starts only when the main loop has emptied both lanes (`service.cpp:319-339`).
* Run `diag_crash_path`: `service.cpp:12-13` keeps locks off the crash path, but
  `crash_history()` takes the mutex that `shutdown()` holds while it joins the writer
  (`service.cpp:608-629`): when the writer crashes meanwhile, both wait for ever.
* Run `sink_disk_full`: `service.hpp:82-83` says that loss remains observable; the results
  of `fflush` and `fclose` are ignored, so records that only the buffer took are lost with
  all counters at zero.
* Run `result_throw`: `result.hpp:7` says that a Result holds exactly one alternative;
  after a copy assignment that threw it holds none (`result.hpp:98-107`).

Without a run: `tools/f1_smoke_consumer/main.cpp:97-101` emits six records and demands of a
shutdown that flushed that it drained as many, but `drained` counts only from the baseline
(`service.cpp:262`), so that a record which the writer takes before it is missing there;
`service.hpp:108-110` has critical events fall back to the ring when their
lane refuses them, and `emit` ignores that the ring may have dropped them as well;
`service.cpp:344-345` says that the final generation must not overshoot, and the flush
loop never compares the count it keeps with the bound; a line that `service.cpp:439` cuts
loses its closing quote, brace and newline; `fnv1a64_offset_basis` (`hashing.hpp:22`) is
1469598103934665603, the published 14695981039346656037 without its last digit.

## Proofs

All theorems are about the specifications the runs check (`Spec`) and hold for every value
of the constants that the named assumptions of the modules admit. Three of these carry
more than types: `PowersOfTwoAssumption`, that of two alignments the smaller divides the
larger, and each divides the number of words; `HeapAssumption`, that the heap's bytes lie
outside the arena; and `ThreadsAssumption`, that the observer's threads are finitely many,
without which its sums are of nothing.

### Crash ring

For all numbers of threads, slots and events, any word width that holds a shifted
reservation and any window bound.

* `TypeCorrect`: `TypeOK`; `ProtocolCorrect`: `ProtocolInv`, and from it `NoTornRecords`:
  `NeverTorn`; `SlotsOnlyAdvance`: the action property `SlotNeverRegresses`.
* `CallsAreBounded`: the action property `EachStepIsProgress`.
* `WritesAreCounted`: `EveryWriteCounted`.
* `WindowsAreOrdered`: `NewestFirst`; `StatusTellsTruth`: `StatusIsHonest`.
* `RingImplementsBoard`: `ImplementsBoard`, the refinement of `RingBoard`.

`NeverTorn` is not inductive: it says nothing of what is in the slots. `ProtocolInv` adds
that reservations are unique (`ReservationsUnique`), that the access word names the one
owner of a slot (`OneOwner`), that a slot nobody writes holds its newest committed record
whole (`SettledSlots`), what a writer has stored so far and that it supersedes
(`WritersProgress`), and that an inspector's copy is what its slot holds
(`InspectorsProgress`). There is one lemma for each part and kind of thread, with a step
per action. `EveryWriteCounted` compares two cardinalities, of the calls in flight and of
the ledger, which stay finite with the number of reservations.

A capture takes several lemmas about its window before its invariants: insertion keeps an
ordered window ordered (`InsertionKeepsOrder`), and forgets the oldest only when the window
is full of newer ones (`WindowForgetsOldest`). For `NewestFirst`, `OrderInv` adds that the
entries of a pass come from slots it has left behind, so that a record met now is in none
of them. For `StatusIsHonest`, `StatusInv` adds that a slot's newest record was reserved
and belongs to it (`NewestSound`), that what was there when the capture began has at most
been superseded (`BaseSuperseded`), and that a pass which missed nothing so far accounts
for all it has left behind (`Covers`): a record of the beginning is in the window, or was
pushed out by newer ones, or was replaced.

For the refinement `SimulationInv` puts these together, with the fact that only a capture
that found something reserved looks at slots (`LimitInv`). `CommitSequence` is the board's
`Publish`, and the step at which the slot's place changes; `BeginCapture` is its `Begin`,
`LoadDropped` its `NothingYet` when nothing was reserved, `SkipBusySlot` a `Miss`, `JudgeSlot`
a `See`, `FindEmpty` or `Miss`; every other step changes nothing the board has. That the window is the set the board calls `NewestOf` is
`WindowIsNewest`, by counting: an ordered window has as many records as places
(`OrderedCount`), the least of a full window is the one with fewer than the bound above it.

### Diagnostics service

For any number of producers, lanes of any size, with and without overlapping emits, a
development sink, and a crashing writer.

* `ServiceTyped`: `TypeOK`; `NoSilentLoss`: `EveryRecordAccounted`. The invariant
  `ServiceInv` adds that whoever is in `emit()` has stamped its record, that the writer's
  hand is full exactly while it delivers, and that nobody emits without a service; the sum
  is kept in two parts (`Offered`, `Taken`), each changed by one kind of thread.
* `DeliveryInOrder`: `SinkInOrder`. `OrderInv` adds that the record of a running `emit()` is
  its producer's newest (`StampsUnique`), that sink, hand and lanes continue each other
  (`LanesOrdered`), and that the writer is past the critical lane, and then past the general
  one, only when these hold nothing that was promised (`FlushOrdered`); the last holds
  because a producer's running record cannot have been promised.
* `FlushIsComplete`: `FlushCoversQueued`. `HistoryInv` adds to `OrderInv` that a promised
  record is queued, taken or evicted at any time, that only overlapping emits evict, and only
  general records, and that what was taken is in no lane any more. Behind the writer's exit
  nothing promised is queued.
* `ResultIsComplete`: `ResultCoversQueued`. `ResultInv` follows the numbers through the host's
  stages: what a lane's counter exceeds its baseline by is the number of records taken since
  that baseline was read, and from the join on nobody takes any more; a lane's length, when
  it is read, is at least the number of promised records still to be accounted for in it, of
  which later pushes can only evict some.

### Rotating sink

For every bound on messages, bound on generations, number of generations and set of line
lengths, with every call of the file system failing as it likes and the process dying at
any point.

* `EscapeIsFaithful`: the escape loop, a recursive function of the characters it has looked
  at, keeps whole characters, leaves the terminator its byte, and cuts a message only
  behind a control character; `NoLineIsSpoiled`: `EscapeFits`, from it.
* `SinkTyped`: `TypeOK`, with `SinkStages`, which relates the stages to the stream.
* `GenerationsBounded`: `GenerationBounded`. `BoundInv` adds that the count the code keeps
  covers what the stream took (it may count what was lost, never the reverse), and that
  the root exceeds the bound by at most its last line from the moment the bound is met
  until the root has been renamed or cleared, whichever of these fails. `RecordSizes`
  must not be empty.
* `BudgetIsRetained`: `RetainsItsBudget`, from `RetainInv`.

The records of a run are numbered as they are written, and `RetainInv` says where the
files cut that row: there is a function `cut` from generations to numbers such that
generation g holds the records from `cut[g + 1]` to just before `cut[g]`, or only what
an earlier run left and nothing between its cuts (`CutHolds`). The budget is the third
part of it: whenever a record of this run lies behind a generation, or is gone, all
generations before it are full (`Filled`), but for the one the shifting has just emptied
(`Hole`). A write moves the newest end (`EndMoves`), the removal of the oldest
generation the other end (`OldestGone`), a rename the cut of the place it fills
(`MovedUp`); at `PromoteRoot` the root's cut becomes that of generation 1
(`RootPromoted`); the rest leave the cuts alone (`SameCuts`), but for `Start`, which
begins with all of them at the next number.

`StreamHolds` says why: while nothing is counted, only an open stream is written, the
byte count is exactly what it took, so that a root that is rotated is full, and no
rename finds its target in place. With `Generations` below 2 the last does not hold of
generation 1, whose removal is not checked, and the rename replaces it; then there is
nothing behind it to keep. All this holds only while nothing excuses the sink
(`Unhurt`); `AllWritten` holds always, and makes what a new run finds older than its own
records (`StartsIntact`), however the earlier run ended. What the property says of the
records of all files together follows by induction over the files (`FamilyKept`) and, in
each, over its records (`OwnAreKept`, `EarlierAddNothing`).

### Memory

For every word width, storage, heap, set of layouts and number of variables.

* `ArenaIsExact`: `RefusesOnlyWhenFull`: what `std::align` computes with wrapping words is
  the first aligned place behind the cursor, and it refuses only if there is none
  (`ArenaAnswer`, by divisibility alone).
* `MemoryTyped`: `TypeOK`; `NoOverlap`: `BlocksApart`; `OneOwner`: `ExactlyOneOwner`;
  `NoDoubleFree`: `GivenBackOnce`; `ObjectsOwned`: `ObjectsMatchOwners`.

The five follow from one invariant, `OwnedInv`: the arena's cursor and remainder add up to
its end (`ArenaInv`), blocks in use have bytes, lie in their resource's region and share no
byte (`LiveInv`), handles with memory and blocks in use are one to one (`OwnersInv`), and
the live objects are the union of the handles' contents, each in its handle's block
(`ObjectsInv`). None of the five is inductive alone: an owner's block is freed with the
handle's layout, so it must be the block that is live, and an object ends with its block
only if no other block has its address.

### Allocation observer

For any finite number of threads, any sizes and any word width.

* `ObserverTyped`: `TypeOK`; `PeakIsExact`: `PeakIsHighWaterMark`; `PeakOnlyRises`: the action
  property `PeakNeverFalls`. `PeakKnown` adds that no thread in the exchange loop knows a
  later peak than the present one, and that the highest usage is in the peak or still on
  its way there with some thread.
* `TotalsAddUp`: `CountersAddUp`. The counters wrap, so the invariant speaks of numbers that
  do not: each counter is the remainder of one (`Ideal`), and the differences between them
  are sums over blocks in use plus what each thread inside a hook has counted already or
  has still to count (`Balanced`). Finite sums are built in `ArithmeticProofs`.
* `WatchIsExact`: `QuietWatchIsExact`, if the program makes fewer allocations than a counter
  has values: after as many as that, two different histories leave the same counters.
  `WatchInv` says what part of a snapshot has been loaded, against the numbers of blocks
  and allocations at its ends.

### Byte builder

For every width of words, bytes and scalars, any number of builders, bounds and spans.

* `CodecsInvert`: decoding what was encoded, in either byte order, gives the value back, by
  induction over its digits (`Digit`).
* `BuildersTyped`: `TypeOK`; `GrowthDoubles`: the action property `GrowsGeometrically`, from
  what `Target` is (`TargetIs`), where `MulIsExact` says when the doubling overflows.
* `WhatIsPutIsRead`: `ReadsBack`.
* `BuilderImplementsAccumulator`: `ImplementsAccumulator`, the refinement of
  `ByteAccumulator`. An append that succeeds is its `Accept`, one that fails its `Refuse`, one
  that finds a failure latched changes nothing; a moved-from builder is its `Nothing`.

The invariant `BuilderInv` says of each builder that size, capacity and bound are in order
and its live cells are bytes (`Sound`), and that its items lie in them one behind the other,
each decoded as what was put (`Placed`). `ReadsBack` alone is not inductive: it would have
to say what reading finds in the bytes of a block that has grown. `AppendedIs` sums up the
append, branch by branch, for all three theorems.

### Results, the hasher and failing threads

* `ResultsBalance`: `LifetimesBalance`, for any number of cells and either choice of which
  copies throw, in a build with assertions; its invariant `Lifetimes` adds that only
  finitely many cells, all in scope, hold something.
* `EvidenceWrittenOnce`: `EvidenceOnce`, for any number of threads. While the process runs, at
  most one thread is past the guard, and standard error holds as much of its evidence as
  it has got to write (`ReporterHolds`); the guard can be found taken only by another fault
  (`FaultsHold`), so that a process that ended for a lone fault wrote both lines
  (`EndHolds`).
* `DigestsAreOfMessages`: `DigestIsOfMessage`, for every stream of bytes, block and length of
  any width, with assertions and without. The invariant `StreamHolds` says that the
  compressed blocks, what is used of the buffer and what `update()` has still to absorb are
  consecutive parts of the stream from where the message begins, and that the count is the
  message's length in the word. What `finish()` adds to them is then the end of the padded
  form, by `PaddedBlocks`: full blocks and last blocks are the blocks of it, whether the
  length fits behind the marker or not.
* `ProgramTyped`: `TypeOK`, for any number of cells and threads and all widths, with
  assertions and without; of the Results it needs that a cell whose assignment an
  exception left holds nothing (`CellsHold`).

### Checked arithmetic

For every signed and unsigned type: `AddIsExact`, `SubIsExact`, `MulIsExact`,
`AlignUpIsExact`.

### Only model-checked

All liveness (`EmitReturns`, `ShutdownReturns`), and `NobodyWaits`, which speaks of ENABLED:
out of the prover's reach. Every other property of a passing run is a theorem.

The prover has no exponentiation: powers are functions of their exponent, and what is
needed of them is proved in `ArithmeticProofs`. Induction over natural numbers, which these,
the sums, the codecs, the escape loop and the sink's files need, is not cited from the library, whose theorem
takes the property as a parameter: each such lemma takes the least counterexample from the
set of them and contradicts it (`Least` and `NatInd` in `ArithmeticProofs`).

## Not modelled, and the plan

Next: `ByteBuilder` on `OwnedMemory`, with the builder's block as one of the handles, and
`ByteWriter`.

Left out for good: the codecs' refusal of a span that is not as long as the scalar, which
the builder never gives them; `health()` and the configuration errors of `install`, which change no
state; error values and the event vocabulary, plain data; FNV-1a and the compression of
SHA-256, arithmetic without control; the report modes the CRT installation sets and an
attached debugger, which are the platform's; platform and type definitions and the Python
tools, which have no states at run time; the I2 capture design, which has no code yet.
