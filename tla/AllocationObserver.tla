------------------------- MODULE AllocationObserver -------------------------
(***************************************************************************)
(* qiven::memory::AllocationObserver and ScopedMemoryWatch                 *)
(* (include/qiven/memory/observer.hpp), compiled in: seven relaxed atomic  *)
(* counters that allocators on any thread update one at a time, and that a *)
(* snapshot loads one at a time.                                           *)
(*                                                                         *)
(* The hooks are called as they are meant to be: observe_allocate() for a  *)
(* block that was handed out, observe_deallocate() with its size when it   *)
(* comes back, on whatever thread.  Each step is one atomic operation.     *)
(***************************************************************************)
EXTENDS Integers, Sequences, FiniteSetsExt, Functions

CONSTANTS
    WordSize,           \* number of values of usize
    Threads,            \* threads that allocate
    Sizes,              \* sizes of blocks
    MaxAllocations,     \* bound: number of allocations, failed ones included
    MaxResets           \* bound: number of calls of reset()

Words == 0 .. WordSize - 1

ASSUME WordAssumption == WordSize \in Nat \ {0} /\ Sizes \subseteq Words
ASSUME ThreadsAssumption == IsFiniteSet(Threads)
ASSUME BoundAssumption == MaxAllocations \in Nat /\ MaxResets \in Nat

VARIABLES
    counters,       \* the seven counters
    pc,             \* where each thread is in a hook
    size,           \* its argument
    usage,          \* new_usage
    peak,           \* current_peak
    blocks,         \* how many blocks of each size are in use
    watch,          \* a ScopedMemoryWatch and the snapshot it is taking
    made,           \* history: number of allocations
    resets,         \* history: number of resets
    high,           \* history: the highest usage an allocation led to since the last one
    kept            \* history: the blocks that were in use at it

vars == <<counters, pc, size, usage, peak, blocks, watch, made, resets, high, kept>>
history == <<made, resets, high, kept>>

Fields == {"total_allocations", "total_deallocations", "total_bytes_allocated",
           "total_bytes_freed", "current_usage", "peak_usage", "allocation_failures"}
Zero == [f \in Fields |-> 0]

\* The counters a snapshot loads first, in this order, and has_leak() compares.  The
\* other five are loaded after them and only passed on, and are left out.
Watched == <<"total_allocations", "total_deallocations">>

Minus(a, b) == (a - b) % WordSize
\* Mutant: the counters do not wrap.
FetchAdd_Signed(field, n) == counters' = [counters EXCEPT ![field] = @ + n]
FetchAdd(field, n) == counters' = [counters EXCEPT ![field] = (@ + n) % WordSize]
Goes(t, from, to) == pc[t] = from /\ pc' = [pc EXCEPT ![t] = to]

Count(some) == FoldFunction(LAMBDA n, sum : n + sum, 0, some)
BytesIn(some) == FoldSet(LAMBDA s, sum : s * some[s] + sum, 0, Sizes)

InSnapshot == watch.step \in {"entering", "leaving"}
HooksIdle == \A t \in Threads : pc[t] = "idle"

\* A watch is disturbed when a hook runs while it loads the counters.
Disturb == watch' = [watch EXCEPT !.quiet = @ /\ ~InSnapshot]

\* What a watch finds: the loaded prefixes of its two snapshots, whether nothing ran
\* meanwhile, and, as a history, the blocks in use and allocated by then.
NoBlocks == [held |-> 0, made |-> 0]
NoWatch == [step |-> "none", entry |-> <<>>, now |-> <<>>, quiet |-> TRUE,
            before |-> NoBlocks, after |-> NoBlocks]

Init ==
    /\ counters = Zero
    /\ pc = [t \in Threads |-> "idle"]
    /\ size = [t \in Threads |-> 0]
    /\ usage = [t \in Threads |-> 0]
    /\ peak = [t \in Threads |-> 0]
    /\ blocks = [s \in Sizes |-> 0]
    /\ watch = NoWatch
    /\ made = 0 /\ resets = 0 /\ high = 0
    /\ kept = blocks

-----------------------------------------------------------------------------
(* observe_allocate()                                                       *)

MayAllocate == made + counters["allocation_failures"] < MaxAllocations

BeginAllocate(t, s) ==
    /\ MayAllocate
    /\ Goes(t, "idle", "allocated")
    /\ FetchAdd("total_allocations", 1)
    /\ size' = [size EXCEPT ![t] = s]
    /\ made' = made + 1
    /\ Disturb
    /\ UNCHANGED <<usage, peak, blocks, resets, high, kept>>

AddBytesAllocated(t) ==
    /\ Goes(t, "allocated", "counted")
    /\ FetchAdd("total_bytes_allocated", size[t])
    /\ Disturb
    /\ UNCHANGED <<size, usage, peak, blocks, history>>

AddUsage(t) ==
    /\ Goes(t, "counted", "used")
    /\ FetchAdd("current_usage", size[t])
    /\ usage' = [usage EXCEPT ![t] = counters'["current_usage"]]
    /\ high' = Max({high, usage'[t]})
    /\ Disturb
    /\ UNCHANGED <<size, peak, blocks, made, resets, kept>>

LoadPeak(t) ==
    /\ Goes(t, "used", "raising")
    /\ peak' = [peak EXCEPT ![t] = counters["peak_usage"]]
    /\ Disturb
    /\ UNCHANGED <<counters, size, usage, blocks, history>>

\* The hook returns, and with it the allocation: the block may be freed.
Return(t) ==
    /\ Goes(t, "raising", "idle")
    /\ blocks' = [blocks EXCEPT ![size[t]] = @ + 1]
    /\ size' = [size EXCEPT ![t] = 0]
    /\ usage' = [usage EXCEPT ![t] = 0]
    /\ peak' = [peak EXCEPT ![t] = 0]

\* Mutant: the peak is stored, not exchanged.
RaisePeak_Store(t) ==
    /\ usage[t] > peak[t]
    /\ counters' = [counters EXCEPT !["peak_usage"] = usage[t]]
    /\ Return(t)
\* The compare-exchange succeeds.
RaisePeak(t) ==
    /\ usage[t] > peak[t] /\ counters["peak_usage"] = peak[t]
    /\ counters' = [counters EXCEPT !["peak_usage"] = usage[t]]
    /\ Return(t)

\* Mutant: one attempt is made.
RetryPeak_GiveUp(t) ==
    /\ usage[t] > peak[t] /\ counters["peak_usage"] # peak[t]
    /\ Return(t) /\ UNCHANGED counters
\* It fails, and current_peak is the value found; a spurious failure changes nothing.
RetryPeak(t) ==
    /\ usage[t] > peak[t] /\ counters["peak_usage"] # peak[t]
    /\ pc[t] = "raising"
    /\ peak' = [peak EXCEPT ![t] = counters["peak_usage"]]
    /\ UNCHANGED <<counters, pc, size, usage, blocks>>

LeavePeak(t) ==
    /\ usage[t] <= peak[t]
    /\ Return(t)
    /\ UNCHANGED counters

UpdatePeak(t) ==
    /\ pc[t] = "raising"
    /\ RaisePeak(t) \/ RetryPeak(t) \/ LeavePeak(t)
    /\ Disturb
    /\ UNCHANGED history

-----------------------------------------------------------------------------
(* observe_deallocate() and observe_allocate_failure()                      *)

BeginDeallocate(t, s) ==
    /\ blocks[s] > 0
    /\ blocks' = [blocks EXCEPT ![s] = @ - 1]
    /\ Goes(t, "idle", "deallocated")
    /\ FetchAdd("total_deallocations", 1)
    /\ size' = [size EXCEPT ![t] = s]
    /\ Disturb
    /\ UNCHANGED <<usage, peak, history>>

AddBytesFreed(t) ==
    /\ Goes(t, "deallocated", "freed")
    /\ FetchAdd("total_bytes_freed", size[t])
    /\ Disturb
    /\ UNCHANGED <<size, usage, peak, blocks, history>>

SubtractUsage(t) ==
    /\ Goes(t, "freed", "idle")
    /\ FetchAdd("current_usage", -size[t])
    /\ size' = [size EXCEPT ![t] = 0]
    /\ Disturb
    /\ UNCHANGED <<usage, peak, blocks, history>>

ObserveFailure(t) ==
    /\ pc[t] = "idle" /\ MayAllocate
    /\ FetchAdd("allocation_failures", 1)
    /\ Disturb
    /\ UNCHANGED <<pc, size, usage, peak, blocks, history>>

-----------------------------------------------------------------------------
(* snapshot(), as a ScopedMemoryWatch takes it, and reset().                *)

InUse == [held |-> Count(blocks), made |-> made]
NextField(loaded) == Watched[Len(loaded) + 1]
UnchangedByWatch == UNCHANGED <<counters, pc, size, usage, peak, blocks, history>>

\* The constructor begins the first snapshot, delta() the second.
OpenWatch ==
    /\ watch.step = "none"
    /\ watch' = [NoWatch EXCEPT !.step = "entering", !.quiet = HooksIdle, !.before = InUse]
    /\ UnchangedByWatch

LoadEntry ==
    /\ watch.step = "entering"
    /\ watch' = [watch EXCEPT
          !.entry = Append(@, counters[NextField(watch.entry)]),
          !.step = IF Len(watch.entry) + 1 = Len(Watched) THEN "open" ELSE @]
    /\ UnchangedByWatch

Delta ==
    /\ watch.step = "open"
    /\ watch' = [watch EXCEPT !.step = "leaving", !.quiet = @ /\ HooksIdle, !.after = InUse]
    /\ UnchangedByWatch

LoadNow ==
    /\ watch.step = "leaving"
    /\ watch' = [watch EXCEPT
          !.now = Append(@, counters[NextField(watch.now)]),
          !.step = IF Len(watch.now) + 1 = Len(Watched) THEN "done" ELSE @]
    /\ UnchangedByWatch

CloseWatch ==
    /\ watch.step = "done"
    /\ watch' = NoWatch
    /\ UnchangedByWatch

\* Mutant: the usage survives.
Cleared_KeepsUsage == [Zero EXCEPT !["current_usage"] = counters["current_usage"]]
\* What reset() stores.
Cleared == Zero

\* reset() is not among the operations that are safe beside others.
Reset ==
    /\ resets < MaxResets /\ HooksIdle /\ ~InSnapshot
    /\ counters' = Cleared
    /\ resets' = resets + 1 /\ high' = 0 /\ kept' = blocks
    /\ watch' = [watch EXCEPT !.quiet = FALSE]
    /\ UNCHANGED <<pc, size, usage, peak, blocks, made>>

Next ==
    \/ \E t \in Threads, s \in Sizes : BeginAllocate(t, s) \/ BeginDeallocate(t, s)
    \/ \E t \in Threads :
          \/ AddBytesAllocated(t) \/ AddUsage(t) \/ LoadPeak(t) \/ UpdatePeak(t)
          \/ AddBytesFreed(t) \/ SubtractUsage(t) \/ ObserveFailure(t)
    \/ OpenWatch \/ LoadEntry \/ Delta \/ LoadNow \/ CloseWatch
    \/ Reset

Spec == Init /\ [][Next]_vars

-----------------------------------------------------------------------------

\* Every variable stays in its range.
TypeOK ==
    /\ counters \in [Fields -> Words]
    /\ pc \in [Threads -> {"idle", "allocated", "counted", "used", "raising",
                           "deallocated", "freed"}]
    /\ size \in [Threads -> Sizes \cup {0}]
    /\ usage \in [Threads -> Words] /\ peak \in [Threads -> Words]
    /\ blocks \in [Sizes -> Nat] /\ kept \in [Sizes -> Nat]
    /\ watch.step \in {"none", "entering", "open", "leaving", "done"}
    /\ watch.entry \in Seq(Words) /\ watch.now \in Seq(Words)
    /\ made \in Nat /\ resets \in Nat /\ high \in Nat

\* When no hook is running, the counters agree with each other and with the blocks in
\* use, less those an earlier reset forgot: on which thread each hook ran, and how they
\* overlapped, has left no trace.
CountersAddUp ==
    HooksIdle =>
        /\ Minus(counters["total_allocations"], counters["total_deallocations"])
              = Minus(Count(blocks), Count(kept))
        /\ counters["current_usage"] = Minus(BytesIn(blocks), BytesIn(kept))
        /\ counters["current_usage"]
              = Minus(counters["total_bytes_allocated"], counters["total_bytes_freed"])

\* The peak is the high-water mark: no allocation's usage is lost when several raise the
\* mark at once, and none is invented.
PeakIsHighWaterMark ==
    /\ counters["peak_usage"] <= high
    /\ HooksIdle => counters["peak_usage"] = high

\* The mark never falls, unless reset() clears it.
PeakNeverFalls ==
    [][counters'["peak_usage"] >= counters["peak_usage"] \/ resets' # resets]_vars

\* ScopedMemoryWatch::delta() of a field, and has_leak().
Difference(field) ==
    LET i == CHOOSE i \in DOMAIN Watched : Watched[i] = field
    IN  Minus(watch.now[i], watch.entry[i])
\* Mutant: the totals are compared, not what was added to them.
HasLeak_Totals == watch.now[1] > watch.now[2]
HasLeak == Difference("total_allocations") > Difference("total_deallocations")

\* A watch whose two snapshots no hook overlaps tells exactly what happened in between:
\* the allocations made, and a leak if and only if more blocks are in use than before,
\* whichever threads allocated and freed them.
QuietWatchIsExact ==
    watch.step = "done" /\ watch.quiet =>
        /\ Difference("total_allocations") = watch.after.made - watch.before.made
        /\ HasLeak <=> watch.after.held > watch.before.held
=============================================================================
