---------------------- MODULE AllocationObserverProofs ----------------------
(***************************************************************************)
(* Theorems about the allocation observer, for any number of threads, any *)
(* block sizes and any word width: the peak is the high-water mark of the  *)
(* usage, the totals agree with the blocks in use, and a quiet watch is    *)
(* exact.                                                                  *)
(***************************************************************************)
EXTENDS AllocationObserver, ArithmeticProofs

\* The part of the types that the peak depends on.
PeakTypes ==
    /\ counters \in [Fields -> Words]
    /\ pc \in [Threads -> {"idle", "allocated", "counted", "used", "raising",
                           "deallocated", "freed"}]
    /\ size \in [Threads -> Words]
    /\ usage \in [Threads -> Words] /\ peak \in [Threads -> Words]
    /\ high \in Nat /\ resets \in Nat

\* A thread that has counted its bytes and not yet left the exchange loop.
Raising(t) == pc[t] \in {"used", "raising"}

\* Nobody knows of more than the highest usage, nor of a later peak than the present one;
\* and the highest usage is in the peak, or a thread is still on its way with it.
PeakKnown ==
    /\ counters["peak_usage"] <= high
    /\ \A t \in Threads : Raising(t) => usage[t] <= high
    /\ \A t \in Threads : pc[t] = "raising" => peak[t] <= counters["peak_usage"]
    /\ high = counters["peak_usage"] \/ \E t \in Threads : Raising(t) /\ usage[t] = high

PeakInv == PeakTypes /\ PeakKnown

-----------------------------------------------------------------------------
LEMMA WordsAreNaturals ==
    /\ \A w \in Words : w \in Nat /\ w \in Int
    /\ 0 \in Words
    /\ \A n \in Int : n % WordSize \in Words
BY WordAssumption DEF Words

LEMMA ArgumentType ==
    ASSUME PeakTypes, NEW t \in Threads PROVE size[t] \in Int /\ -size[t] \in Int
<1>1. size[t] \in Words
  BY DEF PeakTypes
<1>2. size[t] \in Int
  BY <1>1, WordsAreNaturals
<1> QED
  BY <1>2

LEMMA MaxOfTwo ==
    ASSUME NEW a \in Nat, NEW b \in Nat
    PROVE  Max({a, b}) = IF a >= b THEN a ELSE b
<1> DEFINE most == IF a >= b THEN a ELSE b
<1>1. most \in {a, b} /\ \A y \in {a, b} : most >= y
  OBVIOUS
<1>2. \A x \in {a, b} : (\A y \in {a, b} : x >= y) => x = most
  OBVIOUS
<1>3. Max({a, b}) = CHOOSE x \in {a, b} : \A y \in {a, b} : x >= y
  BY DEF Max
<1> HIDE DEF most
<1>4. (CHOOSE x \in {a, b} : \A y \in {a, b} : x >= y) = most
  BY <1>1, <1>2
<1> QED
  BY <1>3, <1>4 DEF most

\* fetch_add leaves a word in every counter and the others as they were.
LEMMA FetchAddType ==
    ASSUME PeakTypes, NEW f \in Fields \ {"peak_usage"}, NEW n \in Int, FetchAdd(f, n)
    PROVE  /\ counters' \in [Fields -> Words]
           /\ counters'["peak_usage"] = counters["peak_usage"]
<1>0. counters[f] \in Words
  BY DEF PeakTypes
<1>1. counters[f] + n \in Int
  BY <1>0, WordsAreNaturals
<1>2. (counters[f] + n) % WordSize \in Words
  BY <1>1, WordsAreNaturals
<1>3. "peak_usage" \in Fields
  BY DEF Fields
<1> QED
  BY <1>2, <1>3 DEF FetchAdd, PeakTypes

\* What most steps do: they leave the peak, the usage words and the highest
\* usage alone, and no thread enters or leaves the exchange loop.
LEMMA PeakAside ==
    ASSUME PeakInv, PeakTypes', UNCHANGED <<usage, peak, high>>,
           counters'["peak_usage"] = counters["peak_usage"],
           \A t \in Threads : /\ Raising(t)' <=> Raising(t)
                              /\ pc'[t] = "raising" => pc[t] = "raising"
    PROVE  PeakInv'
BY DEF PeakInv, PeakKnown

-----------------------------------------------------------------------------
(* One lemma for each kind of step.                                         *)

\* The steps of a hook before it adds to the usage, and of the other hooks.
LEMMA HookAside ==
    ASSUME PeakInv, NEW t \in Threads, NEW f \in Fields \ {"peak_usage"}, NEW n \in Int,
           FetchAdd(f, n), NEW to \in {"idle", "allocated", "counted", "deallocated", "freed"},
           pc[t] \notin {"used", "raising"}, pc' = [pc EXCEPT ![t] = to],
           size' \in [Threads -> Words], UNCHANGED <<usage, peak, high, resets>>
    PROVE  PeakInv' /\ counters'["peak_usage"] = counters["peak_usage"]
<1>1. /\ counters' \in [Fields -> Words]
      /\ counters'["peak_usage"] = counters["peak_usage"]
  BY FetchAddType DEF PeakInv
<1>2. PeakTypes'
  BY <1>1 DEF PeakInv, PeakTypes
<1>3. \A u \in Threads : /\ Raising(u)' <=> Raising(u)
                         /\ pc'[u] = "raising" => pc[u] = "raising"
  BY DEF PeakInv, PeakTypes, Raising
<1> QED
  BY <1>1, <1>2, <1>3, PeakAside

LEMMA AddUsageKeeps ==
    ASSUME PeakInv, NEW t \in Threads, AddUsage(t)
    PROVE  PeakInv'
<1> USE DEF PeakInv
<1>1. "current_usage" \in Fields \ {"peak_usage"} /\ size[t] \in Int
  BY ArgumentType DEF Fields
<1>2. /\ counters' \in [Fields -> Words]
      /\ counters'["peak_usage"] = counters["peak_usage"]
  BY <1>1, FetchAddType DEF AddUsage
<1>3. counters'["current_usage"] \in Words
  BY <1>1, <1>2
<1>4. usage' \in [Threads -> Words] /\ usage'[t] = counters'["current_usage"]
      /\ \A u \in Threads \ {t} : usage'[u] = usage[u]
  BY <1>3 DEF AddUsage, PeakTypes
<1>5. high' = (IF high >= usage'[t] THEN high ELSE usage'[t]) /\ high \in Nat
      /\ usage'[t] \in Nat
  <2>1. high \in Nat /\ usage'[t] \in Nat
    BY <1>3, <1>4, WordsAreNaturals DEF PeakTypes
  <2>2. high' = Max({high, usage'[t]})
    BY DEF AddUsage
  <2> QED
    BY <2>1, <2>2, MaxOfTwo
<1>6. PeakTypes'
  BY <1>2, <1>4, <1>5 DEF PeakTypes, AddUsage, Goes
<1>7. ~ Raising(t) /\ Raising(t)'
      /\ \A u \in Threads \ {t} : pc'[u] = pc[u] /\ (Raising(u)' <=> Raising(u))
  BY DEF AddUsage, Goes, Raising, PeakTypes
<1>8. high <= high' /\ usage'[t] <= high' /\ high' \in Nat
  BY <1>5
<1>9. pc'[t] # "raising" /\ peak' = peak
  BY DEF AddUsage, Goes, PeakTypes
<1>10. /\ counters["peak_usage"] \in Nat
       /\ \A u \in Threads : usage[u] \in Nat /\ peak[u] \in Nat
  BY WordsAreNaturals DEF PeakTypes, Fields
<1>11. counters'["peak_usage"] <= high'
  BY <1>2, <1>5, <1>10 DEF PeakKnown
<1>12. \A u \in Threads : Raising(u)' => usage'[u] <= high'
  <2> SUFFICES ASSUME NEW u \in Threads, Raising(u)' PROVE usage'[u] <= high'
    OBVIOUS
  <2>1. CASE u = t
    BY <2>1, <1>8
  <2>2. CASE u # t
    <3>1. usage'[u] = usage[u] /\ usage[u] <= high
      BY <2>2, <1>4, <1>7 DEF PeakKnown
    <3> QED
      BY <3>1, <1>5, <1>10
  <2> QED
    BY <2>1, <2>2
<1>13. \A u \in Threads : pc'[u] = "raising" => peak'[u] <= counters'["peak_usage"]
  BY <1>2, <1>7, <1>9 DEF PeakKnown
<1>14. high' = counters'["peak_usage"] \/ \E u \in Threads : Raising(u)' /\ usage'[u] = high'
  <2>1. CASE high >= usage'[t]
    <3>1. high' = high
      BY <2>1, <1>5
    <3>2. CASE high = counters["peak_usage"]
      BY <3>1, <3>2, <1>2
    <3>3. ASSUME NEW u \in Threads, Raising(u), usage[u] = high
          PROVE  \E v \in Threads : Raising(v)' /\ usage'[v] = high'
      <4>1. u # t
        BY <3>3, <1>7
      <4>2. Raising(u)' /\ usage'[u] = high'
        BY <3>1, <3>3, <4>1, <1>4, <1>7
      <4> QED
        BY <4>2
    <3> QED
      BY <3>2, <3>3 DEF PeakKnown
  <2>2. CASE ~ (high >= usage'[t])
    BY <2>2, <1>5, <1>7
  <2> QED
    BY <2>1, <2>2
<1> QED
  BY <1>6, <1>11, <1>12, <1>13, <1>14 DEF PeakKnown

LEMMA LoadPeakKeeps ==
    ASSUME PeakInv, NEW t \in Threads, LoadPeak(t)
    PROVE  PeakInv'
<1> USE DEF PeakInv, LoadPeak, Goes
<1>1. counters["peak_usage"] \in Words /\ counters["peak_usage"] \in Nat
  BY WordsAreNaturals DEF PeakTypes, Fields
<1>2. PeakTypes'
  BY <1>1 DEF PeakTypes, history
<1>3. \A u \in Threads : Raising(u)' <=> Raising(u)
  BY DEF Raising, PeakTypes
<1>4. \A u \in Threads : pc'[u] = "raising" => peak'[u] <= counters'["peak_usage"]
  <2> SUFFICES ASSUME NEW u \in Threads, pc'[u] = "raising"
               PROVE  peak'[u] <= counters'["peak_usage"]
    OBVIOUS
  <2>1. CASE u = t
    BY <2>1, <1>1 DEF PeakTypes
  <2>2. CASE u # t
    BY <2>2 DEF PeakTypes, PeakKnown
  <2> QED
    BY <2>1, <2>2
<1> QED
  BY <1>2, <1>3, <1>4 DEF PeakKnown, history

\* The exchange succeeds: the peak was below this thread's usage, so that the highest
\* usage, if it was in the peak or is this thread's, is in the peak now.
LEMMA RaisePeakKeeps ==
    ASSUME PeakInv, NEW t \in Threads, pc[t] = "raising", RaisePeak(t), UNCHANGED history
    PROVE  PeakInv' /\ counters'["peak_usage"] >= counters["peak_usage"]
<1> USE DEF PeakInv
<1>1. counters["peak_usage"] \in Nat /\ high \in Nat
      /\ \A u \in Threads : usage[u] \in Nat /\ peak[u] \in Nat
  BY WordsAreNaturals DEF PeakTypes, Fields
<1>2. counters' \in [Fields -> Words] /\ counters'["peak_usage"] = usage[t]
  BY DEF RaisePeak, PeakTypes, Fields
<1>3. Raising(t) /\ usage[t] > counters["peak_usage"] /\ usage[t] <= high
  BY DEF RaisePeak, Raising, PeakKnown
<1>4. /\ high' = high /\ ~ Raising(t)' /\ pc'[t] # "raising"
      /\ \A u \in Threads \ {t} : /\ pc'[u] = pc[u] /\ (Raising(u)' <=> Raising(u))
                                  /\ usage'[u] = usage[u] /\ peak'[u] = peak[u]
  BY DEF RaisePeak, Return, Goes, Raising, PeakTypes, history
<1>5. PeakTypes'
  BY <1>2, WordsAreNaturals DEF PeakTypes, RaisePeak, Return, Goes, history
<1>6. high # counters["peak_usage"]
  BY <1>1, <1>3
<1>7. high' = counters'["peak_usage"] \/ \E u \in Threads : Raising(u)' /\ usage'[u] = high'
  <2>1. PICK u \in Threads : Raising(u) /\ usage[u] = high
    BY <1>6 DEF PeakKnown
  <2>2. CASE u = t
    BY <2>1, <2>2, <1>2, <1>4
  <2>3. CASE u # t
    BY <2>1, <2>3, <1>4
  <2> QED
    BY <2>2, <2>3
<1>8. \A u \in Threads : Raising(u)' => usage'[u] <= high'
  BY <1>4 DEF PeakKnown
<1>9. \A u \in Threads : pc'[u] = "raising" => peak'[u] <= counters'["peak_usage"]
  <2> SUFFICES ASSUME NEW u \in Threads, pc'[u] = "raising"
               PROVE  peak'[u] <= counters'["peak_usage"]
    OBVIOUS
  <2>1. u # t /\ pc[u] = "raising" /\ peak'[u] = peak[u]
    BY <1>4
  <2>2. peak[u] <= counters["peak_usage"]
    BY <2>1 DEF PeakKnown
  <2> QED
    BY <2>1, <2>2, <1>1, <1>2, <1>3
<1>10. counters'["peak_usage"] <= high'
  BY <1>2, <1>3, <1>4
<1> QED
  BY <1>1, <1>2, <1>3, <1>5, <1>7, <1>8, <1>9, <1>10 DEF PeakKnown

LEMMA RetryPeakKeeps ==
    ASSUME PeakInv, NEW t \in Threads, RetryPeak(t), UNCHANGED history
    PROVE  PeakInv'
<1> USE DEF PeakInv, RetryPeak
<1>1. counters["peak_usage"] \in Words /\ counters["peak_usage"] \in Nat
  BY WordsAreNaturals DEF PeakTypes, Fields
<1>2. PeakTypes'
  BY <1>1 DEF PeakTypes, history
<1>3. \A u \in Threads : peak'[u] = peak[u] \/ peak'[u] = counters'["peak_usage"]
  BY DEF PeakTypes
<1> QED
  BY <1>1, <1>2, <1>3 DEF PeakKnown, Raising, history

\* The peak is already as high as this thread's usage.
LEMMA LeavePeakKeeps ==
    ASSUME PeakInv, NEW t \in Threads, pc[t] = "raising", LeavePeak(t), UNCHANGED history
    PROVE  PeakInv'
<1> USE DEF PeakInv
<1>1. counters["peak_usage"] \in Nat /\ high \in Nat
      /\ \A u \in Threads : usage[u] \in Nat /\ peak[u] \in Nat
  BY WordsAreNaturals DEF PeakTypes, Fields
<1>2. usage[t] <= counters["peak_usage"] /\ counters["peak_usage"] <= high
  BY <1>1 DEF LeavePeak, PeakKnown
<1>3. /\ high' = high /\ counters' = counters /\ ~ Raising(t)' /\ pc'[t] # "raising"
      /\ \A u \in Threads \ {t} : /\ pc'[u] = pc[u] /\ (Raising(u)' <=> Raising(u))
                                  /\ usage'[u] = usage[u] /\ peak'[u] = peak[u]
  BY DEF LeavePeak, Return, Goes, Raising, PeakTypes, history
<1>4. PeakTypes'
  BY WordsAreNaturals DEF PeakTypes, LeavePeak, Return, Goes, history
<1>5. high' = counters'["peak_usage"] \/ \E u \in Threads : Raising(u)' /\ usage'[u] = high'
  <2>1. CASE high = counters["peak_usage"]
    BY <2>1, <1>3
  <2>2. ASSUME NEW u \in Threads, Raising(u), usage[u] = high
        PROVE  high' = counters'["peak_usage"]
               \/ \E v \in Threads : Raising(v)' /\ usage'[v] = high'
    <3>1. CASE u = t
      BY <2>2, <3>1, <1>1, <1>2, <1>3
    <3>2. CASE u # t
      BY <2>2, <3>2, <1>3
    <3> QED
      BY <3>1, <3>2
  <2> QED
    BY <2>1, <2>2 DEF PeakKnown
<1>6. \A u \in Threads : Raising(u)' => usage'[u] <= high'
  BY <1>3 DEF PeakKnown
<1>7. \A u \in Threads : pc'[u] = "raising" => peak'[u] <= counters'["peak_usage"]
  BY <1>3 DEF PeakKnown
<1> QED
  BY <1>2, <1>3, <1>4, <1>5, <1>6, <1>7 DEF PeakKnown

\* reset() finds every hook idle.
LEMMA ResetKeeps ==
    ASSUME PeakInv, Reset PROVE PeakInv' /\ resets' # resets
<1>1. \A t \in Threads : ~ Raising(t)' /\ pc'[t] # "raising"
  BY DEF Reset, HooksIdle, Raising
<1>2. counters' = [f \in Fields |-> 0] /\ high' = 0
  BY DEF Reset, Cleared, Zero
<1>3. counters'["peak_usage"] = 0
  BY <1>2 DEF Fields
<1>4. PeakTypes' /\ resets' # resets
  BY <1>2, WordsAreNaturals DEF PeakInv, PeakTypes, Reset
<1> QED
  BY <1>1, <1>2, <1>3, <1>4 DEF PeakInv, PeakKnown, Reset

-----------------------------------------------------------------------------
\* The three steps of a hook that pass an argument on.
LEMMA BeginKeeps ==
    ASSUME PeakInv, NEW t \in Threads, NEW s \in Sizes,
           BeginAllocate(t, s) \/ BeginDeallocate(t, s)
    PROVE  PeakInv' /\ counters'["peak_usage"] = counters["peak_usage"]
<1>1. s \in Words /\ pc[t] = "idle"
  BY WordAssumption DEF BeginAllocate, BeginDeallocate, Goes
<1>2. size' \in [Threads -> Words]
  BY <1>1 DEF PeakInv, PeakTypes, BeginAllocate, BeginDeallocate
<1>3. CASE BeginAllocate(t, s)
  <2>1. "total_allocations" \in Fields \ {"peak_usage"}
    BY DEF Fields
  <2>2. /\ FetchAdd("total_allocations", 1) /\ 1 \in Int
        /\ pc' = [pc EXCEPT ![t] = "allocated"] /\ pc[t] \notin {"used", "raising"}
        /\ UNCHANGED <<usage, peak, high, resets>>
    BY <1>1, <1>3 DEF BeginAllocate, Goes
  <2> QED
    BY <1>2, <2>1, <2>2, HookAside
<1>4. CASE BeginDeallocate(t, s)
  <2>1. "total_deallocations" \in Fields \ {"peak_usage"}
    BY DEF Fields
  <2>2. /\ FetchAdd("total_deallocations", 1) /\ 1 \in Int
        /\ pc' = [pc EXCEPT ![t] = "deallocated"] /\ pc[t] \notin {"used", "raising"}
        /\ UNCHANGED <<usage, peak, high, resets>>
    BY <1>1, <1>4 DEF BeginDeallocate, Goes, history
  <2> QED
    BY <1>2, <2>1, <2>2, HookAside
<1> QED
  BY <1>3, <1>4

LEMMA AddBytesKeeps ==
    ASSUME PeakInv, NEW t \in Threads,
           AddBytesAllocated(t) \/ AddBytesFreed(t) \/ SubtractUsage(t)
    PROVE  PeakInv' /\ counters'["peak_usage"] = counters["peak_usage"]
<1>1. {"total_bytes_allocated", "total_bytes_freed", "current_usage"}
         \subseteq Fields \ {"peak_usage"}
  BY DEF Fields
<1>2. size[t] \in Int /\ -size[t] \in Int
  BY ArgumentType DEF PeakInv
<1>3. size' \in [Threads -> Words]
  BY WordsAreNaturals
  DEF PeakInv, PeakTypes, AddBytesAllocated, AddBytesFreed, SubtractUsage
<1>4. CASE AddBytesAllocated(t)
  BY <1>1, <1>2, <1>3, <1>4, HookAside DEF AddBytesAllocated, Goes, history
<1>5. CASE AddBytesFreed(t)
  BY <1>1, <1>2, <1>3, <1>5, HookAside DEF AddBytesFreed, Goes, history
<1>6. CASE SubtractUsage(t)
  BY <1>1, <1>2, <1>3, <1>6, HookAside DEF SubtractUsage, Goes, history
<1> QED
  BY <1>4, <1>5, <1>6

LEMMA FailureKeeps ==
    ASSUME PeakInv, NEW t \in Threads, ObserveFailure(t)
    PROVE  PeakInv' /\ counters'["peak_usage"] = counters["peak_usage"]
<1>1. "allocation_failures" \in Fields \ {"peak_usage"}
  BY DEF Fields
<1>2. pc' = [pc EXCEPT ![t] = "idle"] /\ pc[t] = "idle"
  BY DEF ObserveFailure, PeakInv, PeakTypes
<1>3. size' \in [Threads -> Words] /\ 1 \in Int
  BY DEF ObserveFailure, PeakInv, PeakTypes
<1> QED
  BY <1>1, <1>2, <1>3, HookAside DEF ObserveFailure, history

LEMMA UntouchedKeeps ==
    ASSUME PeakInv, UNCHANGED <<counters, pc, size, usage, peak, blocks, history>>
    PROVE  PeakInv' /\ counters'["peak_usage"] = counters["peak_usage"]
BY DEF PeakInv, PeakTypes, PeakKnown, Raising, history

\* Every step keeps the invariant, and lets the peak fall only with a reset.
LEMMA NextKeeps ==
    ASSUME PeakInv, [Next]_vars
    PROVE  /\ PeakInv'
           /\ counters'["peak_usage"] >= counters["peak_usage"] \/ resets' # resets
<1>0. counters["peak_usage"] \in Nat
  BY WordsAreNaturals DEF PeakInv, PeakTypes, Fields
<1>1. ASSUME NEW t \in Threads, NEW s \in Sizes, BeginAllocate(t, s) \/ BeginDeallocate(t, s)
      PROVE  PeakInv' /\ counters'["peak_usage"] >= counters["peak_usage"]
  BY <1>0, <1>1, BeginKeeps
<1>2. ASSUME NEW t \in Threads,
             AddBytesAllocated(t) \/ AddBytesFreed(t) \/ SubtractUsage(t) \/ ObserveFailure(t)
      PROVE  PeakInv' /\ counters'["peak_usage"] >= counters["peak_usage"]
  BY <1>0, <1>2, AddBytesKeeps, FailureKeeps
<1>3. ASSUME NEW t \in Threads, AddUsage(t)
      PROVE  PeakInv' /\ counters'["peak_usage"] >= counters["peak_usage"]
  <2>1. "current_usage" \in Fields \ {"peak_usage"} /\ size[t] \in Int
    BY ArgumentType DEF PeakInv, Fields
  <2>2. counters'["peak_usage"] = counters["peak_usage"]
    BY <1>3, <2>1, FetchAddType DEF AddUsage, PeakInv
  <2> QED
    BY <1>0, <1>3, <2>2, AddUsageKeeps
<1>4. ASSUME NEW t \in Threads, LoadPeak(t)
      PROVE  PeakInv' /\ counters'["peak_usage"] >= counters["peak_usage"]
  <2>1. UNCHANGED counters
    BY <1>4 DEF LoadPeak
  <2> QED
    BY <1>0, <1>4, <2>1, LoadPeakKeeps
<1>5. ASSUME NEW t \in Threads, UpdatePeak(t)
      PROVE  PeakInv' /\ counters'["peak_usage"] >= counters["peak_usage"]
  <2>1. CASE RaisePeak(t)
    BY <1>5, <2>1, RaisePeakKeeps DEF UpdatePeak
  <2>2. CASE RetryPeak(t)
    <3>1. UNCHANGED <<counters, history>>
      BY <1>5, <2>2 DEF UpdatePeak, RetryPeak
    <3> QED
      BY <1>0, <2>2, <3>1, RetryPeakKeeps
  <2>3. CASE LeavePeak(t)
    BY <1>0, <1>5, <2>3, LeavePeakKeeps DEF UpdatePeak, LeavePeak
  <2> QED
    BY <1>5, <2>1, <2>2, <2>3 DEF UpdatePeak
<1>6. CASE OpenWatch \/ LoadEntry \/ Delta \/ LoadNow \/ CloseWatch
  BY <1>0, <1>6, UntouchedKeeps
  DEF OpenWatch, LoadEntry, Delta, LoadNow, CloseWatch, UnchangedByWatch
<1>7. CASE Reset
  BY <1>7, ResetKeeps
<1>8. CASE UNCHANGED vars
  BY <1>0, <1>8, UntouchedKeeps DEF vars, history
<1> QED
  BY <1>1, <1>2, <1>3, <1>4, <1>5, <1>6, <1>7, <1>8 DEF Next

LEMMA InitHolds == Init => PeakInv
<1> SUFFICES ASSUME Init PROVE PeakInv
  OBVIOUS
<1>1. counters \in [Fields -> Words] /\ counters["peak_usage"] = 0
  BY WordsAreNaturals DEF Init, Zero, Fields
<1>2. PeakTypes
  BY <1>1, WordsAreNaturals DEF Init, PeakTypes
<1>3. \A t \in Threads : pc[t] = "idle"
  BY DEF Init
<1>4. high = 0
  BY DEF Init
<1> QED
  BY <1>1, <1>2, <1>3, <1>4 DEF PeakInv, PeakKnown, Raising

\* When no hook runs, nobody is on its way with a higher usage.
LEMMA PeakFollows == PeakInv => PeakIsHighWaterMark
<1> SUFFICES ASSUME PeakInv PROVE PeakIsHighWaterMark
  OBVIOUS
<1>1. HooksIdle => \A t \in Threads : ~ Raising(t)
  BY DEF HooksIdle, Raising
<1>2. HooksIdle => high = counters["peak_usage"]
  BY <1>1 DEF PeakInv, PeakKnown
<1> QED
  BY <1>2 DEF PeakIsHighWaterMark, PeakInv, PeakKnown

-----------------------------------------------------------------------------
\* The compare-exchange loop of observe_allocate() loses no allocation's usage and
\* invents none, however many threads raise the peak at once (observer.hpp:57-63).
THEOREM PeakIsExact == Spec => []PeakIsHighWaterMark
<1>1. PeakInv /\ [Next]_vars => PeakInv'
  BY NextKeeps
<1> QED
  BY InitHolds, <1>1, PeakFollows, PTL DEF Spec

\* No thread with an old view of the peak puts a lower one in its place: the mark falls
\* only when reset() clears it.
THEOREM PeakOnlyRises == Spec => PeakNeverFalls
<1>1. PeakInv /\ [Next]_vars => PeakInv'
  BY NextKeeps
<1>2. PeakInv /\ [Next]_vars =>
        [counters'["peak_usage"] >= counters["peak_usage"] \/ resets' # resets]_vars
  BY NextKeeps
<1> QED
  BY InitHolds, <1>1, <1>2, PTL DEF Spec, PeakNeverFalls

-----------------------------------------------------------------------------
(* The types of the rest, and how far a watch has got.                      *)

WatchType ==
    [step : {"none", "entering", "open", "leaving", "done"},
     entry : Seq(Words), now : Seq(Words), quiet : BOOLEAN,
     before : [held : Int, made : Int], after : [held : Int, made : Int]]

\* A thread has an argument only inside a hook.
RestTypes ==
    /\ size \in [Threads -> Sizes \cup {0}]
    /\ \A t \in Threads : pc[t] # "idle" => size[t] \in Sizes
    /\ blocks \in [Sizes -> Nat] /\ kept \in [Sizes -> Nat]
    /\ made \in Nat

\* A snapshot is complete when the watch goes on.
WatchStages ==
    /\ watch \in WatchType
    /\ watch.step = "entering" => Len(watch.entry) < 2 /\ watch.now = <<>>
    /\ watch.step = "open" => Len(watch.entry) = 2 /\ watch.now = <<>>
    /\ watch.step = "leaving" => Len(watch.entry) = 2 /\ Len(watch.now) < 2
    /\ watch.step = "done" => Len(watch.entry) = 2 /\ Len(watch.now) = 2

TypeInv == PeakInv /\ RestTypes /\ WatchStages

LEMMA FiniteSizes == IsFiniteSet(Sizes)
<1>1. IsFiniteSet(Words)
  BY FS_Interval, WordAssumption DEF Words
<1> QED
  BY <1>1, FS_Subset, WordAssumption

\* The sums of the model are totals.
LEMMA CountIsTotal ==
    ASSUME NEW some \in [Sizes -> Nat]
    PROVE  Count(some) = Total(Sizes, some) /\ Count(some) \in Nat
<1>1. DOMAIN some = Sizes
  OBVIOUS
<1>2. Count(some) = Total(Sizes, some)
  BY <1>1, Zenon
  DEF Count, FoldFunction, FoldFunctionOnSet, MapThenFoldSet, IsSum, Total
<1>3. \A s \in Sizes : some[s] \in Nat
  OBVIOUS
<1> QED
  BY <1>2, <1>3, FiniteSizes, TotalType

Weighed(some) == [s \in Sizes |-> s * some[s]]

LEMMA BytesInIsTotal ==
    ASSUME NEW some \in [Sizes -> Nat]
    PROVE  BytesIn(some) = Total(Sizes, Weighed(some))
<1> DEFINE Q(g) == g = [s \in SUBSET Sizes |->
                          IF s = {} THEN 0
                          ELSE (CHOOSE x \in s : TRUE) * some[CHOOSE x \in s : TRUE]
                               + g[s \ {CHOOSE x \in s : TRUE}]]
<1>1. BytesIn(some) = (CHOOSE g : Q(g))[Sizes]
  BY Zenon DEF BytesIn, FoldSet, MapThenFoldSet
<1>2. ASSUME NEW g PROVE Q(g) <=> IsSum(g, Sizes, Weighed(some))
  <2>1. \A s \in SUBSET Sizes : s # {} => (CHOOSE x \in s : TRUE) \in s
    OBVIOUS
  <2>2. \A s \in SUBSET Sizes : s # {} =>
           Weighed(some)[CHOOSE x \in s : TRUE]
              = (CHOOSE x \in s : TRUE) * some[CHOOSE x \in s : TRUE]
    BY <2>1 DEF Weighed
  <2> QED
    BY <2>2 DEF IsSum
<1> HIDE DEF Q
<1>3. (CHOOSE g : Q(g)) = CHOOSE g : IsSum(g, Sizes, Weighed(some))
  BY <1>2
<1> QED
  BY <1>1, <1>3 DEF Total

LEMMA SizesAreWords == \A s \in Sizes : s \in Words /\ s \in Nat
  BY WordAssumption, WordsAreNaturals

-----------------------------------------------------------------------------
(* What a step does to the rest.                                            *)

\* A step of a hook leaves the watch where it was, and knows that it was disturbed.
LEMMA DisturbKeeps ==
    ASSUME WatchStages, Disturb
    PROVE  /\ WatchStages'
           /\ watch'.step = watch.step /\ watch'.entry = watch.entry
           /\ watch'.now = watch.now /\ watch'.before = watch.before
           /\ watch'.after = watch.after
           /\ watch'.quiet <=> watch.quiet /\ ~ InSnapshot
<1>1. watch \in WatchType
  BY DEF WatchStages
<1>2. /\ watch'.step = watch.step /\ watch'.entry = watch.entry
      /\ watch'.now = watch.now /\ watch'.before = watch.before
      /\ watch'.after = watch.after
      /\ watch'.quiet = (watch.quiet /\ ~ InSnapshot)
  BY <1>1 DEF Disturb, WatchType
<1>3. watch' \in WatchType
  <2>1. (watch.quiet /\ ~ InSnapshot) \in BOOLEAN
    OBVIOUS
  <2> HIDE DEF InSnapshot
  <2> QED
    BY <1>1, <2>1 DEF Disturb, WatchType
<1> QED
  BY <1>2, <1>3 DEF WatchStages

\* The steps of the watch itself.
LEMMA OneMore ==
    ASSUME NEW S, NEW q \in Seq(S), NEW x \in S
    PROVE  Append(q, x) \in Seq(S) /\ Len(Append(q, x)) = Len(q) + 1 /\ Len(q) \in Nat
  OBVIOUS

LEMMA OneMoreLast ==
    ASSUME NEW S, NEW q \in Seq(S), NEW x \in S
    PROVE  Append(q, x)[Len(q) + 1] = x /\ \A i \in 1 .. Len(q) : Append(q, x)[i] = q[i]
  OBVIOUS

LEMMA OneMoreRead ==
    ASSUME NEW S, NEW q \in Seq(S), NEW x \in S, NEW r, r = Append(q, x), Len(q) = 1
    PROVE  Len(r) = 2 /\ r[1] = q[1] /\ r[2] = x
<1> DEFINE l == Len(q)
<1>1. r[l + 1] = x /\ (\A i \in 1 .. l : r[i] = q[i]) /\ Len(r) = l + 1
  BY OneMore, OneMoreLast
<1>2. l = 1
  OBVIOUS
<1> HIDE DEF l
<1>3. 1 \in 1 .. l /\ l + 1 = 2
  BY <1>2
<1> QED
  BY <1>1, <1>2, <1>3

LEMMA NextIsWatched ==
    ASSUME NEW q \in Seq(Words), Len(q) < 2
    PROVE  NextField(q) \in Fields
<1> DEFINE n == Len(q)
<1>0. n \in Nat
  OBVIOUS
<1>3. n < 2
  OBVIOUS
<1> HIDE DEF n
<1>1. n = 0 \/ n = 1
  BY <1>0, <1>3
<1>2. NextField(q) = Watched[n + 1]
  BY DEF NextField, n
<1> QED
  BY <1>1, <1>2 DEF Watched, Fields

LEMMA InUseType ==
    ASSUME RestTypes PROVE InUse \in [held : Int, made : Int]
<1>1. Count(blocks) \in Int
  BY CountIsTotal DEF RestTypes
<1> QED
  BY <1>1 DEF RestTypes, InUse

LEMMA WatchStepKeeps ==
    ASSUME TypeInv, OpenWatch \/ LoadEntry \/ Delta \/ LoadNow \/ CloseWatch
    PROVE  WatchStages'
<1>1. watch \in WatchType /\ counters \in [Fields -> Words]
  BY DEF TypeInv, WatchStages, PeakInv, PeakTypes
<1>2. InUse \in [held : Int, made : Int]
  BY InUseType DEF TypeInv
<1>3. NoWatch \in WatchType /\ NoWatch.step = "none" /\ NoWatch.entry = <<>> /\ NoWatch.now = <<>>
  BY DEF NoWatch, WatchType, NoBlocks
<1>4. CASE OpenWatch
  <2> DEFINE u == InUse
             q == HooksIdle
  <2>1. q \in BOOLEAN
    BY DEF HooksIdle
  <2>2. watch' = [NoWatch EXCEPT !.step = "entering", !.quiet = q, !.before = u]
    BY <1>4 DEF OpenWatch
  <2> HIDE DEF u, q
  <2>3. watch' \in WatchType
    BY <1>2, <1>3, <2>1, <2>2 DEF WatchType, u
  <2>4. watch'.step = "entering" /\ watch'.entry = <<>> /\ watch'.now = <<>>
    BY <1>3, <2>2 DEF WatchType
  <2>5. Len(watch'.entry) = 0
    BY <2>4
  <2> QED
    BY <2>3, <2>4, <2>5 DEF WatchStages
<1>5. CASE LoadEntry
  <2>1. watch.step = "entering" /\ Len(watch.entry) < 2 /\ watch.now = <<>> /\ watch.entry \in Seq(Words)
    BY <1>1, <1>5 DEF LoadEntry, TypeInv, WatchStages, WatchType
  <2> DEFINE c == counters[NextField(watch.entry)]
             longer == Append(watch.entry, c)
             step == IF Len(watch.entry) + 1 = 2 THEN "open" ELSE "entering"
  <2>2. c \in Words
    BY <1>1, <2>1, NextIsWatched
  <2>3. longer \in Seq(Words) /\ Len(longer) = Len(watch.entry) + 1 /\ Len(watch.entry) \in Nat
    BY <2>1, <2>2, OneMore
  <2>4. watch' = [watch EXCEPT !.entry = longer, !.step = step]
    BY <1>5, <2>1 DEF LoadEntry, Watched
  <2> HIDE DEF longer
  <2>5. watch' \in WatchType
    BY <1>1, <2>3, <2>4 DEF WatchType
  <2>6. watch'.step = step /\ watch'.entry = longer /\ watch'.now = <<>>
    BY <1>1, <2>1, <2>4 DEF WatchType
  <2>7. (step = "open" /\ Len(longer) = 2) \/ (step = "entering" /\ Len(longer) < 2)
    BY <2>1, <2>3
  <2> HIDE DEF step
  <2> QED
    BY <2>5, <2>6, <2>7 DEF WatchStages
<1>6. CASE Delta
  <2> DEFINE u == InUse
             q == watch.quiet /\ HooksIdle
  <2>1. q \in BOOLEAN
    BY DEF HooksIdle
  <2>2. watch' = [watch EXCEPT !.step = "leaving", !.quiet = q, !.after = u]
    BY <1>6 DEF Delta
  <2> HIDE DEF u, q
  <2>3. watch' \in WatchType
    BY <1>1, <1>2, <2>1, <2>2 DEF WatchType, u
  <2>4. watch'.step = "leaving" /\ watch'.entry = watch.entry /\ watch'.now = watch.now
    BY <1>1, <2>2 DEF WatchType
  <2>5. Len(watch.entry) = 2 /\ watch.now = <<>>
    BY <1>6 DEF Delta, TypeInv, WatchStages
  <2>6. Len(watch'.now) = 0
    BY <2>4, <2>5
  <2> QED
    BY <2>3, <2>4, <2>5, <2>6 DEF WatchStages
<1>7. CASE LoadNow
  <2>1. watch.step = "leaving" /\ Len(watch.now) < 2 /\ Len(watch.entry) = 2 /\ watch.now \in Seq(Words)
    BY <1>1, <1>7 DEF LoadNow, TypeInv, WatchStages, WatchType
  <2> DEFINE c == counters[NextField(watch.now)]
             longer == Append(watch.now, c)
             step == IF Len(watch.now) + 1 = 2 THEN "done" ELSE "leaving"
  <2>2. c \in Words
    BY <1>1, <2>1, NextIsWatched
  <2>3. longer \in Seq(Words) /\ Len(longer) = Len(watch.now) + 1 /\ Len(watch.now) \in Nat
    BY <2>1, <2>2, OneMore
  <2>4. watch' = [watch EXCEPT !.now = longer, !.step = step]
    BY <1>7, <2>1 DEF LoadNow, Watched
  <2> HIDE DEF longer
  <2>5. watch' \in WatchType
    BY <1>1, <2>3, <2>4 DEF WatchType
  <2>6. watch'.step = step /\ watch'.entry = watch.entry /\ watch'.now = longer
    BY <1>1, <2>1, <2>4 DEF WatchType
  <2>7. (step = "done" /\ Len(longer) = 2) \/ (step = "leaving" /\ Len(longer) < 2)
    BY <2>1, <2>3
  <2> HIDE DEF step
  <2> QED
    BY <2>1, <2>5, <2>6, <2>7 DEF WatchStages
<1>8. CASE CloseWatch
  BY <1>3, <1>8 DEF CloseWatch, WatchStages
<1> QED
  BY <1>4, <1>5, <1>6, <1>7, <1>8

\* The blocks and the arguments.
LEMMA RestKeeps ==
    ASSUME TypeInv, [Next]_vars
    PROVE  RestTypes'
<1>1. pc \in [Threads -> {"idle", "allocated", "counted", "used", "raising",
                          "deallocated", "freed"}]
  BY DEF TypeInv, PeakInv, PeakTypes
<1> USE <1>1 DEF TypeInv, RestTypes, history
<1>2. ASSUME NEW t \in Threads, NEW s \in Sizes, BeginAllocate(t, s)
      PROVE  RestTypes'
  BY <1>2 DEF BeginAllocate, Goes
<1>3. ASSUME NEW t \in Threads, NEW s \in Sizes, BeginDeallocate(t, s)
      PROVE  RestTypes'
  BY <1>3 DEF BeginDeallocate, Goes
<1>4. ASSUME NEW t \in Threads,
             \/ AddBytesAllocated(t) \/ LoadPeak(t) \/ AddBytesFreed(t) \/ SubtractUsage(t)
      PROVE  RestTypes'
  BY <1>4 DEF AddBytesAllocated, LoadPeak, AddBytesFreed, SubtractUsage, Goes
<1>5. ASSUME NEW t \in Threads, AddUsage(t) \/ ObserveFailure(t)
      PROVE  RestTypes'
  BY <1>5 DEF AddUsage, ObserveFailure, Goes
<1>6. ASSUME NEW t \in Threads, UpdatePeak(t)
      PROVE  RestTypes'
  <2>1. CASE Return(t)
    BY <1>6, <2>1 DEF UpdatePeak, Return, Goes
  <2>2. CASE RetryPeak(t)
    BY <1>6, <2>2 DEF UpdatePeak, RetryPeak
  <2> QED
    BY <1>6, <2>1, <2>2 DEF UpdatePeak, RaisePeak, LeavePeak
<1>7. CASE OpenWatch \/ LoadEntry \/ Delta \/ LoadNow \/ CloseWatch
  BY <1>7 DEF OpenWatch, LoadEntry, Delta, LoadNow, CloseWatch, UnchangedByWatch
<1>8. CASE Reset
  BY <1>8 DEF Reset
<1>9. CASE UNCHANGED vars
  BY <1>9 DEF vars
<1> QED
  BY <1>2, <1>3, <1>4, <1>5, <1>6, <1>7, <1>8, <1>9 DEF Next

LEMMA StagesKeep ==
    ASSUME TypeInv, [Next]_vars
    PROVE  WatchStages'
<1>1. CASE Disturb
  BY <1>1, DisturbKeeps DEF TypeInv
<1>2. CASE OpenWatch \/ LoadEntry \/ Delta \/ LoadNow \/ CloseWatch
  BY <1>2, WatchStepKeeps
<1>3. CASE Reset
  <2>1. watch' \in WatchType /\ watch'.step = watch.step /\ watch'.entry = watch.entry
        /\ watch'.now = watch.now
    BY <1>3 DEF Reset, TypeInv, WatchStages, WatchType
  <2> QED
    BY <2>1 DEF TypeInv, WatchStages
<1>4. CASE UNCHANGED vars
  BY <1>4 DEF vars, TypeInv, WatchStages
<1>5. ASSUME NEW t \in Threads, NEW s \in Sizes, BeginAllocate(t, s) \/ BeginDeallocate(t, s)
      PROVE  Disturb
  BY <1>5 DEF BeginAllocate, BeginDeallocate
<1>6. ASSUME NEW t \in Threads,
             \/ AddBytesAllocated(t) \/ AddUsage(t) \/ LoadPeak(t) \/ UpdatePeak(t)
             \/ AddBytesFreed(t) \/ SubtractUsage(t) \/ ObserveFailure(t)
      PROVE  Disturb
  BY <1>6 DEF AddBytesAllocated, AddUsage, LoadPeak, UpdatePeak, AddBytesFreed,
              SubtractUsage, ObserveFailure
<1> QED
  BY <1>1, <1>2, <1>3, <1>4, <1>5, <1>6 DEF Next

LEMMA TypeInvHolds ==
    /\ Init => TypeInv
    /\ TypeInv /\ [Next]_vars => TypeInv'
<1>1. ASSUME Init PROVE TypeInv
  <2>1. RestTypes
    BY <1>1 DEF Init, RestTypes
  <2>2. watch = NoWatch /\ NoWatch \in WatchType /\ NoWatch.step = "none"
    BY <1>1 DEF Init, NoWatch, WatchType, NoBlocks
  <2> QED
    BY <1>1, <2>1, <2>2, InitHolds DEF TypeInv, WatchStages
<1>2. ASSUME TypeInv, [Next]_vars PROVE TypeInv'
  <2>1. PeakInv'
    BY <1>2, NextKeeps DEF TypeInv
  <2>2. RestTypes' /\ WatchStages'
    BY <1>2, RestKeeps, StagesKeep
  <2> QED
    BY <2>1, <2>2 DEF TypeInv
<1> QED
  BY <1>1, <1>2

\* Every variable of the observer stays in its range: in particular every counter stays a
\* word, and a snapshot loads words only.
THEOREM ObserverTyped == Spec => []TypeOK
<1>1. TypeInv => TypeOK
  BY DEF TypeInv, TypeOK, PeakInv, PeakTypes, RestTypes, WatchStages, WatchType
<1> QED
  BY TypeInvHolds, <1>1, PTL DEF Spec

-----------------------------------------------------------------------------
(* The counters as numbers that do not wrap.  A thread inside a hook accounts *)
(* for the difference between them and the blocks in use.                   *)

Ideal(n) ==
    /\ n \in [Fields -> Int]
    /\ \A f \in Fields \ {"peak_usage"} : counters[f] = n[f] % WordSize

\* By where a thread is in a hook, and with which argument: blocks counted but not yet in
\* use, bytes in the usage but not in the blocks, and bytes the byte totals are ahead by.
Begins(at) == IF at \in {"allocated", "counted", "used", "raising"} THEN 1 ELSE 0
Holding(at, arg) == IF at \in {"used", "raising", "deallocated", "freed"} THEN arg ELSE 0
Leading(at, arg) == IF at = "counted" THEN arg ELSE IF at = "freed" THEN -arg ELSE 0

Begun(p) == [t \in Threads |-> Begins(p[t])]
Holds(p, z) == [t \in Threads |-> Holding(p[t], z[t])]
Ahead(p, z) == [t \in Threads |-> Leading(p[t], z[t])]

Balanced(n, b, k, p, z) ==
    /\ n["total_allocations"] - n["total_deallocations"]
          = Total(Sizes, b) - Total(Sizes, k) + Total(Threads, Begun(p))
    /\ n["current_usage"]
          = Total(Sizes, Weighed(b)) - Total(Sizes, Weighed(k)) + Total(Threads, Holds(p, z))
    /\ n["total_bytes_allocated"] - n["total_bytes_freed"]
          = n["current_usage"] + Total(Threads, Ahead(p, z))

\* Adding to a word is adding to the number.
LEMMA WrapOnce ==
    ASSUME NEW a \in Int, NEW b \in Int
    PROVE  ((a % WordSize) + b) % WordSize = (a + b) % WordSize
  BY RemainderAdds, WordAssumption

LEMMA WrapMinus ==
    ASSUME NEW a \in Int, NEW b \in Int
    PROVE  Minus(a % WordSize, b % WordSize) = Minus(a, b)
<1> DEFINE s == b % WordSize
           q == b \div WordSize
           m == WordSize * q
           n == WordSize * (-q)
<1>1. q \in Int /\ s \in Int /\ b = m + s /\ m \in Int /\ n = -m /\ -q \in Int
  BY WordAssumption
<1>2. (n + (a - s)) % WordSize = (a - s) % WordSize
  <2> DEFINE x == a - s
             k == -q
  <2>1. x \in Int /\ n = WordSize * k /\ k \in Int
    BY <1>1
  <2> HIDE DEF s, n, x, k
  <2>2. (n + x) % WordSize = x % WordSize
    BY <2>1, WholeTurns, WordAssumption
  <2> QED
    BY <2>2 DEF x
<1> HIDE DEF q, m, n, s
<1>3. ((a % WordSize) + (-s)) % WordSize = (a + (-s)) % WordSize
  BY <1>1, WrapOnce
<1>4. a - b = n + (a - s) /\ a + (-s) = a - s
  BY <1>1
<1>5. a % WordSize \in Int
  BY WordAssumption
<1>6. (a % WordSize) + (-s) = (a % WordSize) - s
  BY <1>1, <1>5
<1> QED
  BY <1>2, <1>3, <1>4, <1>6 DEF Minus, s

LEMMA ReadsWell ==
    ASSUME NEW at, NEW arg \in Int
    PROVE  Begins(at) \in Int /\ Holding(at, arg) \in Int /\ Leading(at, arg) \in Int
  BY DEF Begins, Holding, Leading

\* One thread goes on.
LEMMA ThreadBegins ==
    ASSUME NEW p, NEW q, NEW t \in Threads, \A u \in Threads \ {t} : q[u] = p[u]
    PROVE  Total(Threads, Begun(q)) = Total(Threads, Begun(p)) + (Begins(q[t]) - Begins(p[t]))
<1> DEFINE before == Begun(p)
           after == Begun(q)
<1>1. \A u \in Threads : before[u] \in Int /\ after[u] \in Int
  BY DEF Begun, Begins
<1>2. \A u \in Threads \ {t} : before[u] = after[u]
  BY DEF Begun
<1>3. before[t] = Begins(p[t]) /\ after[t] = Begins(q[t])
  BY DEF Begun
<1> HIDE DEF before, after
<1>4. Total(Threads, after) = Total(Threads, before) + (after[t] - before[t])
  BY <1>1, <1>2, TotalChange, ThreadsAssumption
<1> QED
  BY <1>3, <1>4 DEF before, after

LEMMA ThreadHolds ==
    ASSUME NEW p, NEW q, NEW z \in [Threads -> Int], NEW y \in [Threads -> Int],
           NEW t \in Threads, \A u \in Threads \ {t} : q[u] = p[u] /\ y[u] = z[u]
    PROVE  Total(Threads, Holds(q, y)) = Total(Threads, Holds(p, z)) + (Holding(q[t], y[t]) - Holding(p[t], z[t]))
<1> DEFINE before == Holds(p, z)
           after == Holds(q, y)
<1>1. \A u \in Threads : before[u] \in Int /\ after[u] \in Int
  BY ReadsWell DEF Holds
<1>2. \A u \in Threads \ {t} : before[u] = after[u]
  BY DEF Holds
<1>3. before[t] = Holding(p[t], z[t]) /\ after[t] = Holding(q[t], y[t])
  BY DEF Holds
<1> HIDE DEF before, after
<1>4. Total(Threads, after) = Total(Threads, before) + (after[t] - before[t])
  BY <1>1, <1>2, TotalChange, ThreadsAssumption
<1> QED
  BY <1>3, <1>4 DEF before, after

LEMMA ThreadLeads ==
    ASSUME NEW p, NEW q, NEW z \in [Threads -> Int], NEW y \in [Threads -> Int],
           NEW t \in Threads, \A u \in Threads \ {t} : q[u] = p[u] /\ y[u] = z[u]
    PROVE  Total(Threads, Ahead(q, y)) = Total(Threads, Ahead(p, z)) + (Leading(q[t], y[t]) - Leading(p[t], z[t]))
<1> DEFINE before == Ahead(p, z)
           after == Ahead(q, y)
<1>1. \A u \in Threads : before[u] \in Int /\ after[u] \in Int
  BY ReadsWell DEF Ahead
<1>2. \A u \in Threads \ {t} : before[u] = after[u]
  BY DEF Ahead
<1>3. before[t] = Leading(p[t], z[t]) /\ after[t] = Leading(q[t], y[t])
  BY DEF Ahead
<1> HIDE DEF before, after
<1>4. Total(Threads, after) = Total(Threads, before) + (after[t] - before[t])
  BY <1>1, <1>2, TotalChange, ThreadsAssumption
<1> QED
  BY <1>3, <1>4 DEF before, after

\* One block comes or goes.
LEMMA BlockMoves ==
    ASSUME NEW b \in [Sizes -> Nat], NEW c \in [Sizes -> Nat], NEW s \in Sizes,
           NEW k \in {1, -1}, c[s] = b[s] + k, \A r \in Sizes \ {s} : c[r] = b[r]
    PROVE  /\ Total(Sizes, c) = Total(Sizes, b) + k
           /\ Total(Sizes, Weighed(c)) = Total(Sizes, Weighed(b)) + (IF k = 1 THEN s ELSE -s)
<1>1. c[s] = b[s] + k /\ \A r \in Sizes \ {s} : c[r] = b[r]
  OBVIOUS
<1>2. \A r \in Sizes : b[r] \in Int /\ c[r] \in Int
  OBVIOUS
<1>3. Total(Sizes, c) = Total(Sizes, b) + (c[s] - b[s])
  <2>1. \A r \in Sizes \ {s} : b[r] = c[r]
    BY <1>1
  <2> QED
    BY <1>2, <2>1, FiniteSizes, TotalChange
<1>4. \A r \in Sizes : Weighed(b)[r] \in Int /\ Weighed(c)[r] \in Int
  <2> SUFFICES ASSUME NEW r \in Sizes PROVE r * b[r] \in Int /\ r * c[r] \in Int
    BY DEF Weighed
  <2> QED
    BY <1>2, SizesAreWords
<1>5. \A r \in Sizes \ {s} : Weighed(b)[r] = Weighed(c)[r]
  BY <1>1 DEF Weighed
<1>6. Total(Sizes, Weighed(c)) = Total(Sizes, Weighed(b)) + (Weighed(c)[s] - Weighed(b)[s])
  <2> DEFINE before == Weighed(b)
             after == Weighed(c)
  <2>1. \A r \in Sizes : before[r] \in Int /\ after[r] \in Int
    BY <1>4
  <2>2. \A r \in Sizes \ {s} : before[r] = after[r]
    BY <1>5
  <2> HIDE DEF before, after
  <2>3. Total(Sizes, after) = Total(Sizes, before) + (after[s] - before[s])
    BY <2>1, <2>2, FiniteSizes, TotalChange
  <2> QED
    BY <2>3 DEF before, after
<1>7. Weighed(c)[s] - Weighed(b)[s] = (IF k = 1 THEN s ELSE -s)
  <2> DEFINE x == b[s]
  <2>1. x \in Int /\ s \in Int
    BY SizesAreWords
  <2>2. Weighed(b)[s] = s * x /\ Weighed(c)[s] = s * (x + k)
    BY <1>1 DEF Weighed
  <2> HIDE DEF x
  <2>3. s * (x + 1) - s * x = s /\ s * (x + (-1)) - s * x = -s
    BY <2>1
  <2> QED
    BY <2>2, <2>3
<1>8. c[s] - b[s] = k
  BY <1>1
<1> QED
  BY <1>3, <1>6, <1>7, <1>8

\* A step keeps the balance if what it adds to the counters, what it does to the blocks
\* and where the thread goes make up for each other.
LEMMA StepBalances ==
    ASSUME TypeInv, NEW n \in [Fields -> Int], NEW m \in [Fields -> Int],
           Balanced(n, blocks, kept, pc, size),
           NEW t \in Threads, size' \in [Threads -> Int],
           \A u \in Threads \ {t} : pc'[u] = pc[u] /\ size'[u] = size[u],
           NEW count \in Int, Total(Sizes, blocks') = Total(Sizes, blocks) + count,
           NEW bytes \in Int,
           Total(Sizes, Weighed(blocks')) = Total(Sizes, Weighed(blocks)) + bytes,
           kept' = kept,
           (m["total_allocations"] - n["total_allocations"])
              - (m["total_deallocations"] - n["total_deallocations"])
              = count + (Begins(pc'[t]) - Begins(pc[t])),
           m["current_usage"] - n["current_usage"]
              = bytes + (Holding(pc'[t], size'[t]) - Holding(pc[t], size[t])),
           (m["total_bytes_allocated"] - n["total_bytes_allocated"])
              - (m["total_bytes_freed"] - n["total_bytes_freed"])
              = (m["current_usage"] - n["current_usage"])
                + (Leading(pc'[t], size'[t]) - Leading(pc[t], size[t]))
    PROVE  Balanced(m, blocks', kept', pc', size')
<1> DEFINE tb == Total(Sizes, blocks)
           tk == Total(Sizes, kept)
           wb == Total(Sizes, Weighed(blocks))
           wk == Total(Sizes, Weighed(kept))
           g == Total(Threads, Begun(pc))
           h == Total(Threads, Holds(pc, size))
           a == Total(Threads, Ahead(pc, size))
<1>1. size \in [Threads -> Int]
  BY WordsAreNaturals DEF TypeInv, PeakInv, PeakTypes
<1>2. /\ Total(Threads, Begun(pc')) = g + (Begins(pc'[t]) - Begins(pc[t]))
      /\ Total(Threads, Holds(pc', size'))
            = h + (Holding(pc'[t], size'[t]) - Holding(pc[t], size[t]))
      /\ Total(Threads, Ahead(pc', size'))
            = a + (Leading(pc'[t], size'[t]) - Leading(pc[t], size[t]))
  <2>1. Total(Threads, Begun(pc')) = g + (Begins(pc'[t]) - Begins(pc[t]))
    BY ThreadBegins
  <2>2. Total(Threads, Holds(pc', size'))
           = h + (Holding(pc'[t], size'[t]) - Holding(pc[t], size[t]))
    <3> DEFINE p == pc
               q == pc'
               z == size
               y == size'
    <3>1. z \in [Threads -> Int] /\ y \in [Threads -> Int]
          /\ \A u \in Threads \ {t} : q[u] = p[u] /\ y[u] = z[u]
      BY <1>1
    <3> HIDE DEF p, q, z, y
    <3>2. Total(Threads, Holds(q, y))
             = Total(Threads, Holds(p, z)) + (Holding(q[t], y[t]) - Holding(p[t], z[t]))
      BY <3>1, ThreadHolds
    <3> QED
      BY <3>2 DEF p, q, z, y
  <2>3. Total(Threads, Ahead(pc', size'))
           = a + (Leading(pc'[t], size'[t]) - Leading(pc[t], size[t]))
    <3> DEFINE p == pc
               q == pc'
               z == size
               y == size'
    <3>1. z \in [Threads -> Int] /\ y \in [Threads -> Int]
          /\ \A u \in Threads \ {t} : q[u] = p[u] /\ y[u] = z[u]
      BY <1>1
    <3> HIDE DEF p, q, z, y
    <3>2. Total(Threads, Ahead(q, y))
             = Total(Threads, Ahead(p, z)) + (Leading(q[t], y[t]) - Leading(p[t], z[t]))
      BY <3>1, ThreadLeads
    <3> QED
      BY <3>2 DEF p, q, z, y
  <2> QED
    BY <2>1, <2>2, <2>3
<1>3. tb \in Int /\ tk \in Int /\ wb \in Int /\ wk \in Int
  <2>1. \A f \in [Sizes -> Nat] : Total(Sizes, f) \in Int /\ Total(Sizes, Weighed(f)) \in Int
    <3> SUFFICES ASSUME NEW f \in [Sizes -> Nat]
                 PROVE  Total(Sizes, f) \in Int /\ Total(Sizes, Weighed(f)) \in Int
      OBVIOUS
    <3>1. \A s \in Sizes : f[s] \in Int /\ s * f[s] \in Int
      BY SizesAreWords
    <3>2. \A s \in Sizes : Weighed(f)[s] \in Int
      BY <3>1 DEF Weighed
    <3> QED
      BY <3>1, <3>2, FiniteSizes, TotalType
  <2> QED
    BY <2>1 DEF TypeInv, RestTypes
<1>4. g \in Int /\ h \in Int /\ a \in Int
  <2>1. \A u \in Threads : Begun(pc)[u] \in Int /\ Holds(pc, size)[u] \in Int
                           /\ Ahead(pc, size)[u] \in Int
    BY <1>1, ReadsWell DEF Begun, Holds, Ahead
  <2> QED
    BY <2>1, TotalType, ThreadsAssumption
<1> DEFINE dg == Begins(pc'[t]) - Begins(pc[t])
           dh == Holding(pc'[t], size'[t]) - Holding(pc[t], size[t])
           da == Leading(pc'[t], size'[t]) - Leading(pc[t], size[t])
<1>5. dg \in Int /\ dh \in Int /\ da \in Int
  <2>1. size[t] \in Int /\ size'[t] \in Int
    BY <1>1
  <2> QED
    BY <2>1, ReadsWell
<1>6. \A f \in Fields : n[f] \in Int /\ m[f] \in Int
  OBVIOUS
<1> DEFINE na == n["total_allocations"]
           nd == n["total_deallocations"]
           nu == n["current_usage"]
           nb == n["total_bytes_allocated"]
           nf == n["total_bytes_freed"]
           ma == m["total_allocations"]
           md == m["total_deallocations"]
           mu == m["current_usage"]
           mb == m["total_bytes_allocated"]
           mf == m["total_bytes_freed"]
<1>7. /\ na \in Int /\ nd \in Int /\ nu \in Int /\ nb \in Int /\ nf \in Int
      /\ ma \in Int /\ md \in Int /\ mu \in Int /\ mb \in Int /\ mf \in Int
  BY <1>6 DEF Fields
<1>8. na - nd = tb - tk + g /\ nu = wb - wk + h /\ nb - nf = nu + a
  BY DEF Balanced
<1>9. (ma - na) - (md - nd) = count + dg /\ mu - nu = bytes + dh
      /\ (mb - nb) - (mf - nf) = (mu - nu) + da
  OBVIOUS
<1>10. /\ Total(Threads, Begun(pc')) = g + dg
       /\ Total(Threads, Holds(pc', size')) = h + dh
       /\ Total(Threads, Ahead(pc', size')) = a + da
  BY <1>2
<1> HIDE DEF tb, tk, wb, wk, g, h, a, dg, dh, da, na, nd, nu, nb, nf, ma, md, mu, mb, mf
<1>11. ma - md = (tb + count) - tk + (g + dg)
  BY <1>3, <1>4, <1>5, <1>7, <1>8, <1>9
<1>12. mu = (wb + bytes) - wk + (h + dh)
  BY <1>3, <1>4, <1>5, <1>7, <1>8, <1>9
<1>13. mb - mf = mu + (a + da)
  BY <1>3, <1>4, <1>5, <1>7, <1>8, <1>9
<1> QED
  BY <1>10, <1>11, <1>12, <1>13 DEF Balanced, tb, tk, wb, wk, ma, md, mu, mb, mf

\* fetch_add on a counter is an addition to the number it stands for.
LEMMA IdealAdds ==
    ASSUME TypeInv, NEW n, Ideal(n), NEW f \in Fields \ {"peak_usage"}, NEW k \in Int,
           FetchAdd(f, k)
    PROVE  Ideal([n EXCEPT ![f] = @ + k])'
<1> DEFINE m == [n EXCEPT ![f] = @ + k]
<1>1. n \in [Fields -> Int] /\ m \in [Fields -> Int] /\ counters \in [Fields -> Words]
  BY DEF Ideal, TypeInv, PeakInv, PeakTypes
<1>2. counters'[f] = m[f] % WordSize
  <2>1. counters'[f] = ((n[f] % WordSize) + k) % WordSize
    BY <1>1 DEF FetchAdd, Ideal
  <2>2. m[f] = n[f] + k /\ n[f] \in Int
    BY <1>1
  <2>3. ((n[f] % WordSize) + k) % WordSize = (n[f] + k) % WordSize
    BY <2>2, WrapOnce
  <2> QED
    BY <2>1, <2>2, <2>3
<1>3. \A g \in Fields \ {"peak_usage", f} : counters'[g] = m[g] % WordSize
  BY <1>1 DEF FetchAdd, Ideal
<1> HIDE DEF m
<1>4. Ideal(m)'
  BY <1>1, <1>2, <1>3 DEF Ideal
<1> QED
  BY <1>4 DEF m
Sound(n) == Ideal(n) /\ Balanced(n, blocks, kept, pc, size)

LEMMA TotalsOfBlocks ==
    ASSUME NEW f \in [Sizes -> Nat]
    PROVE  Total(Sizes, f) \in Int /\ Total(Sizes, Weighed(f)) \in Int
<1>1. \A s \in Sizes : f[s] \in Int /\ s * f[s] \in Int
  BY SizesAreWords
<1>2. \A s \in Sizes : Weighed(f)[s] \in Int
  BY <1>1 DEF Weighed
<1> QED
  BY <1>1, <1>2, FiniteSizes, TotalType

\* What an addition to one of the counters needs, for the balance to be kept.
LEMMA AdditionBalances ==
    ASSUME TypeInv, NEW n, Sound(n), NEW t \in Threads,
           NEW f \in Fields \ {"peak_usage"}, NEW k \in Int, FetchAdd(f, k),
           size' \in [Threads -> Int],
           \A u \in Threads \ {t} : pc'[u] = pc[u] /\ size'[u] = size[u],
           NEW count \in Int, Total(Sizes, blocks') = Total(Sizes, blocks) + count,
           NEW bytes \in Int,
           Total(Sizes, Weighed(blocks')) = Total(Sizes, Weighed(blocks)) + bytes,
           kept' = kept,
           (IF f = "total_allocations" THEN k ELSE 0)
              - (IF f = "total_deallocations" THEN k ELSE 0)
              = count + (Begins(pc'[t]) - Begins(pc[t])),
           (IF f = "current_usage" THEN k ELSE 0)
              = bytes + (Holding(pc'[t], size'[t]) - Holding(pc[t], size[t])),
           (IF f = "total_bytes_allocated" THEN k ELSE 0)
              - (IF f = "total_bytes_freed" THEN k ELSE 0)
              = (IF f = "current_usage" THEN k ELSE 0)
                + (Leading(pc'[t], size'[t]) - Leading(pc[t], size[t]))
    PROVE  \E m : /\ Sound(m)'
                  /\ m["total_allocations"]
                        = n["total_allocations"] + (IF f = "total_allocations" THEN k ELSE 0)
                  /\ m["total_deallocations"]
                        = n["total_deallocations"] + (IF f = "total_deallocations" THEN k ELSE 0)
<1> DEFINE m == [n EXCEPT ![f] = @ + k]
           plus(g) == IF f = g THEN k ELSE 0
<1>1. n \in [Fields -> Int] /\ m \in [Fields -> Int]
  BY DEF Sound, Ideal
<1>2. \A g \in Fields : m[g] = n[g] + plus(g) /\ m[g] - n[g] = plus(g)
  <2> SUFFICES ASSUME NEW g \in Fields PROVE m[g] = n[g] + plus(g) /\ m[g] - n[g] = plus(g)
    OBVIOUS
  <2>1. n[g] \in Int
    BY <1>1
  <2>2. CASE f = g
    BY <1>1, <2>1, <2>2
  <2>3. CASE f # g
    BY <1>1, <2>1, <2>3
  <2> QED
    BY <2>2, <2>3
<1>3. Ideal(m)'
  BY IdealAdds DEF Sound
<1> HIDE DEF m
<1>4. /\ (m["total_allocations"] - n["total_allocations"])
            - (m["total_deallocations"] - n["total_deallocations"])
               = plus("total_allocations") - plus("total_deallocations")
      /\ m["current_usage"] - n["current_usage"] = plus("current_usage")
      /\ (m["total_bytes_allocated"] - n["total_bytes_allocated"])
            - (m["total_bytes_freed"] - n["total_bytes_freed"])
               = plus("total_bytes_allocated") - plus("total_bytes_freed")
      /\ m["total_allocations"] = n["total_allocations"] + plus("total_allocations")
      /\ m["total_deallocations"] = n["total_deallocations"] + plus("total_deallocations")
  <2> HIDE DEF plus
  <2> QED
    BY <1>2 DEF Fields
<1>5. Balanced(m, blocks', kept', pc', size')
  <2>1. Balanced(n, blocks, kept, pc, size)
    BY DEF Sound
  <2>2. (m["total_allocations"] - n["total_allocations"])
           - (m["total_deallocations"] - n["total_deallocations"])
           = count + (Begins(pc'[t]) - Begins(pc[t]))
    BY <1>4
  <2>3. m["current_usage"] - n["current_usage"]
           = bytes + (Holding(pc'[t], size'[t]) - Holding(pc[t], size[t]))
    BY <1>4
  <2>4. (m["total_bytes_allocated"] - n["total_bytes_allocated"])
           - (m["total_bytes_freed"] - n["total_bytes_freed"])
           = (m["current_usage"] - n["current_usage"])
             + (Leading(pc'[t], size'[t]) - Leading(pc[t], size[t]))
    BY <1>4
  <2> QED
    BY <1>1, <2>1, <2>2, <2>3, <2>4, StepBalances
<1> QED
  BY <1>3, <1>4, <1>5 DEF Sound

LEMMA BlocksAside ==
    ASSUME TypeInv, blocks' = blocks
    PROVE  /\ Total(Sizes, blocks') = Total(Sizes, blocks) + 0
           /\ Total(Sizes, Weighed(blocks')) = Total(Sizes, Weighed(blocks)) + 0
  BY TotalsOfBlocks DEF TypeInv, RestTypes

LEMMA ArgumentsAreIntegers ==
    ASSUME TypeInv
    PROVE  /\ \A t \in Threads : size[t] \in Int
           /\ \A s \in Sizes : s \in Int
           /\ size \in [Threads -> Int]
  BY SizesAreWords, WordsAreNaturals DEF TypeInv, PeakInv, PeakTypes
LEMMA BeginAllocateCounts ==
    ASSUME TypeInv, NEW n, Sound(n), NEW t \in Threads, NEW s \in Sizes, BeginAllocate(t, s)
    PROVE  \E m : /\ Sound(m)'
                  /\ m["total_allocations"] = n["total_allocations"] + 1
                  /\ m["total_deallocations"] = n["total_deallocations"] + 0
<1>1. /\ size' \in [Threads -> Int] /\ pc[t] = "idle" /\ pc'[t] = "allocated"
      /\ \A u \in Threads \ {t} : pc'[u] = pc[u] /\ size'[u] = size[u]
      /\ blocks' = blocks /\ kept' = kept
  BY ArgumentsAreIntegers DEF BeginAllocate, Goes, TypeInv, PeakInv, PeakTypes
<1>2. /\ 1 - 0 = 0 + (Begins(pc'[t]) - Begins(pc[t]))
      /\ 0 = 0 + (Holding(pc'[t], size'[t]) - Holding(pc[t], size[t]))
      /\ 0 - 0 = 0 + (Leading(pc'[t], size'[t]) - Leading(pc[t], size[t]))
  BY <1>1 DEF Begins, Holding, Leading
<1>3. FetchAdd("total_allocations", 1) /\ "total_allocations" \in Fields \ {"peak_usage"}
  BY DEF BeginAllocate, Fields
<1>4. 0 \in Int /\ 1 \in Int
  OBVIOUS
<1> QED
  BY <1>1, <1>2, <1>3, <1>4, BlocksAside, AdditionBalances

LEMMA AddBytesAllocatedCounts ==
    ASSUME TypeInv, NEW n, Sound(n), NEW t \in Threads, AddBytesAllocated(t)
    PROVE  \E m : /\ Sound(m)'
                  /\ m["total_allocations"] = n["total_allocations"] + 0
                  /\ m["total_deallocations"] = n["total_deallocations"] + 0
<1>1. size[t] \in Int /\ size[t] \in Int /\ 0 \in Int
  BY ArgumentsAreIntegers
<1>2. /\ size' \in [Threads -> Int] /\ pc[t] = "allocated" /\ pc'[t] = "counted"
      /\ \A u \in Threads \ {t} : pc'[u] = pc[u] /\ size'[u] = size[u]
      /\ blocks' = blocks /\ kept' = kept /\ size' = size
  BY ArgumentsAreIntegers DEF AddBytesAllocated, Goes, TypeInv, PeakInv, PeakTypes, history
<1>3. /\ 0 - 0 = 0 + (Begins(pc'[t]) - Begins(pc[t]))
      /\ 0 = 0 + (Holding(pc'[t], size'[t]) - Holding(pc[t], size[t]))
      /\ size[t] - 0
            = 0 + (Leading(pc'[t], size'[t]) - Leading(pc[t], size[t]))
  BY <1>1, <1>2 DEF Begins, Holding, Leading
<1>4. FetchAdd("total_bytes_allocated", size[t]) /\ "total_bytes_allocated" \in Fields \ {"peak_usage"}
  BY DEF AddBytesAllocated, Fields
<1> QED
  BY <1>1, <1>2, <1>3, <1>4, BlocksAside, AdditionBalances

LEMMA AddUsageCounts ==
    ASSUME TypeInv, NEW n, Sound(n), NEW t \in Threads, AddUsage(t)
    PROVE  \E m : /\ Sound(m)'
                  /\ m["total_allocations"] = n["total_allocations"] + 0
                  /\ m["total_deallocations"] = n["total_deallocations"] + 0
<1>1. size[t] \in Int /\ size[t] \in Int /\ 0 \in Int
  BY ArgumentsAreIntegers
<1>2. /\ size' \in [Threads -> Int] /\ pc[t] = "counted" /\ pc'[t] = "used"
      /\ \A u \in Threads \ {t} : pc'[u] = pc[u] /\ size'[u] = size[u]
      /\ blocks' = blocks /\ kept' = kept /\ size' = size
  BY ArgumentsAreIntegers DEF AddUsage, Goes, TypeInv, PeakInv, PeakTypes, history
<1>3. /\ 0 - 0 = 0 + (Begins(pc'[t]) - Begins(pc[t]))
      /\ size[t] = 0 + (Holding(pc'[t], size'[t]) - Holding(pc[t], size[t]))
      /\ 0 - 0
            = size[t] + (Leading(pc'[t], size'[t]) - Leading(pc[t], size[t]))
  BY <1>1, <1>2 DEF Begins, Holding, Leading
<1>4. FetchAdd("current_usage", size[t]) /\ "current_usage" \in Fields \ {"peak_usage"}
  BY DEF AddUsage, Fields
<1> QED
  BY <1>1, <1>2, <1>3, <1>4, BlocksAside, AdditionBalances

LEMMA AddBytesFreedCounts ==
    ASSUME TypeInv, NEW n, Sound(n), NEW t \in Threads, AddBytesFreed(t)
    PROVE  \E m : /\ Sound(m)'
                  /\ m["total_allocations"] = n["total_allocations"] + 0
                  /\ m["total_deallocations"] = n["total_deallocations"] + 0
<1>1. size[t] \in Int /\ size[t] \in Int /\ 0 \in Int
  BY ArgumentsAreIntegers
<1>2. /\ size' \in [Threads -> Int] /\ pc[t] = "deallocated" /\ pc'[t] = "freed"
      /\ \A u \in Threads \ {t} : pc'[u] = pc[u] /\ size'[u] = size[u]
      /\ blocks' = blocks /\ kept' = kept /\ size' = size
  BY ArgumentsAreIntegers DEF AddBytesFreed, Goes, TypeInv, PeakInv, PeakTypes, history
<1>3. /\ 0 - 0 = 0 + (Begins(pc'[t]) - Begins(pc[t]))
      /\ 0 = 0 + (Holding(pc'[t], size'[t]) - Holding(pc[t], size[t]))
      /\ 0 - size[t]
            = 0 + (Leading(pc'[t], size'[t]) - Leading(pc[t], size[t]))
  BY <1>1, <1>2 DEF Begins, Holding, Leading
<1>4. FetchAdd("total_bytes_freed", size[t]) /\ "total_bytes_freed" \in Fields \ {"peak_usage"}
  BY DEF AddBytesFreed, Fields
<1> QED
  BY <1>1, <1>2, <1>3, <1>4, BlocksAside, AdditionBalances

LEMMA SubtractUsageCounts ==
    ASSUME TypeInv, NEW n, Sound(n), NEW t \in Threads, SubtractUsage(t)
    PROVE  \E m : /\ Sound(m)'
                  /\ m["total_allocations"] = n["total_allocations"] + 0
                  /\ m["total_deallocations"] = n["total_deallocations"] + 0
<1>1. size[t] \in Int /\ -size[t] \in Int /\ 0 \in Int
  BY ArgumentsAreIntegers
<1>2. /\ size' \in [Threads -> Int] /\ pc[t] = "freed" /\ pc'[t] = "idle"
      /\ \A u \in Threads \ {t} : pc'[u] = pc[u] /\ size'[u] = size[u]
      /\ blocks' = blocks /\ kept' = kept /\ size'[t] = 0
  BY ArgumentsAreIntegers DEF SubtractUsage, Goes, TypeInv, PeakInv, PeakTypes, history
<1>3. /\ 0 - 0 = 0 + (Begins(pc'[t]) - Begins(pc[t]))
      /\ -size[t] = 0 + (Holding(pc'[t], size'[t]) - Holding(pc[t], size[t]))
      /\ 0 - 0
            = -size[t] + (Leading(pc'[t], size'[t]) - Leading(pc[t], size[t]))
  BY <1>1, <1>2 DEF Begins, Holding, Leading
<1>4. FetchAdd("current_usage", -size[t]) /\ "current_usage" \in Fields \ {"peak_usage"}
  BY DEF SubtractUsage, Fields
<1> QED
  BY <1>1, <1>2, <1>3, <1>4, BlocksAside, AdditionBalances

LEMMA ObserveFailureCounts ==
    ASSUME TypeInv, NEW n, Sound(n), NEW t \in Threads, ObserveFailure(t)
    PROVE  \E m : /\ Sound(m)'
                  /\ m["total_allocations"] = n["total_allocations"] + 0
                  /\ m["total_deallocations"] = n["total_deallocations"] + 0
<1>1. size[t] \in Int /\ 1 \in Int /\ 0 \in Int
  BY ArgumentsAreIntegers
<1>2. /\ size' \in [Threads -> Int] /\ pc[t] = "idle" /\ pc'[t] = "idle"
      /\ \A u \in Threads \ {t} : pc'[u] = pc[u] /\ size'[u] = size[u]
      /\ blocks' = blocks /\ kept' = kept /\ size' = size
  BY ArgumentsAreIntegers DEF ObserveFailure, history
<1>3. /\ 0 - 0 = 0 + (Begins(pc'[t]) - Begins(pc[t]))
      /\ 0 = 0 + (Holding(pc'[t], size'[t]) - Holding(pc[t], size[t]))
      /\ 0 - 0 = 0 + (Leading(pc'[t], size'[t]) - Leading(pc[t], size[t]))
  BY <1>1, <1>2 DEF Begins, Holding, Leading
<1>4. FetchAdd("allocation_failures", 1) /\ "allocation_failures" \in Fields \ {"peak_usage"}
  BY DEF ObserveFailure, Fields
<1> QED
  BY <1>1, <1>2, <1>3, <1>4, BlocksAside, AdditionBalances

LEMMA BeginDeallocateCounts ==
    ASSUME TypeInv, NEW n, Sound(n), NEW t \in Threads, NEW s \in Sizes, BeginDeallocate(t, s)
    PROVE  \E m : /\ Sound(m)'
                  /\ m["total_allocations"] = n["total_allocations"] + 0
                  /\ m["total_deallocations"] = n["total_deallocations"] + 1
<1>1. s \in Int /\ -s \in Int /\ -1 \in Int /\ 1 \in Int /\ 0 \in Int
  BY ArgumentsAreIntegers
<1>2. /\ size' \in [Threads -> Int] /\ pc[t] = "idle" /\ pc'[t] = "deallocated"
      /\ \A u \in Threads \ {t} : pc'[u] = pc[u] /\ size'[u] = size[u]
      /\ kept' = kept /\ size'[t] = s
  BY ArgumentsAreIntegers
  DEF BeginDeallocate, Goes, TypeInv, PeakInv, PeakTypes, history
<1>3. /\ Total(Sizes, blocks') = Total(Sizes, blocks) + (-1)
      /\ Total(Sizes, Weighed(blocks')) = Total(Sizes, Weighed(blocks)) + (-s)
  <2> DEFINE b == blocks
             c == blocks'
  <2>1. /\ b \in [Sizes -> Nat] /\ c \in [Sizes -> Nat]
        /\ c[s] = b[s] + (-1) /\ \A r \in Sizes \ {s} : c[r] = b[r]
    BY DEF BeginDeallocate, TypeInv, RestTypes
  <2> HIDE DEF b, c
  <2>2. -1 \in {1, -1} /\ -1 # 1
    OBVIOUS
  <2>3. /\ Total(Sizes, c) = Total(Sizes, b) + (-1)
        /\ Total(Sizes, Weighed(c)) = Total(Sizes, Weighed(b)) + (IF -1 = 1 THEN s ELSE -s)
    BY <2>1, <2>2, BlockMoves
  <2> QED
    BY <2>2, <2>3 DEF b, c
<1>4. /\ 0 - 1 = (-1) + (Begins(pc'[t]) - Begins(pc[t]))
      /\ 0 = (-s) + (Holding(pc'[t], size'[t]) - Holding(pc[t], size[t]))
      /\ 0 - 0 = 0 + (Leading(pc'[t], size'[t]) - Leading(pc[t], size[t]))
  BY <1>1, <1>2 DEF Begins, Holding, Leading
<1>5. FetchAdd("total_deallocations", 1) /\ "total_deallocations" \in Fields \ {"peak_usage"}
  BY DEF BeginDeallocate, Fields
<1> QED
  BY <1>1, <1>2, <1>3, <1>4, <1>5, AdditionBalances

\* The steps that do not touch the five counters.
LEMMA IdealStays ==
    ASSUME NEW n, Ideal(n), \A f \in Fields \ {"peak_usage"} : counters'[f] = counters[f]
    PROVE  Ideal(n)'
  BY DEF Ideal

LEMMA LoadPeakCounts ==
    ASSUME TypeInv, NEW n, Sound(n), NEW t \in Threads, LoadPeak(t)
    PROVE  Sound(n)'
<1>1. size[t] \in Int /\ 0 \in Int
  BY ArgumentsAreIntegers
<1>2. /\ size' \in [Threads -> Int] /\ pc[t] = "used" /\ pc'[t] = "raising"
      /\ \A u \in Threads \ {t} : pc'[u] = pc[u] /\ size'[u] = size[u]
      /\ blocks' = blocks /\ kept' = kept /\ size' = size
  BY ArgumentsAreIntegers DEF LoadPeak, Goes, TypeInv, PeakInv, PeakTypes, history
<1>3. n \in [Fields -> Int] /\ \A f \in Fields : n[f] - n[f] = 0
  BY DEF Sound, Ideal
<1>4. /\ (n["total_allocations"] - n["total_allocations"])
            - (n["total_deallocations"] - n["total_deallocations"])
            = 0 + (Begins(pc'[t]) - Begins(pc[t]))
      /\ n["current_usage"] - n["current_usage"]
            = 0 + (Holding(pc'[t], size'[t]) - Holding(pc[t], size[t]))
      /\ (n["total_bytes_allocated"] - n["total_bytes_allocated"])
            - (n["total_bytes_freed"] - n["total_bytes_freed"])
            = (n["current_usage"] - n["current_usage"])
              + (Leading(pc'[t], size'[t]) - Leading(pc[t], size[t]))
  BY <1>1, <1>2, <1>3 DEF Begins, Holding, Leading, Fields
<1>5. Balanced(n, blocks', kept', pc', size')
  BY <1>1, <1>2, <1>3, <1>4, BlocksAside, StepBalances DEF Sound
<1>6. Ideal(n)'
  BY IdealStays DEF Sound, LoadPeak
<1> QED
  BY <1>5, <1>6 DEF Sound

LEMMA ReturnCounts ==
    ASSUME TypeInv, NEW n, Sound(n), NEW t \in Threads, Return(t), kept' = kept,
           \A f \in Fields \ {"peak_usage"} : counters'[f] = counters[f]
    PROVE  Sound(n)'
<1> DEFINE s == size[t]
<1>1. s \in Int /\ s \in Sizes /\ 1 \in Int
  BY ArgumentsAreIntegers DEF TypeInv, RestTypes, Return, Goes
<1>2. /\ size' \in [Threads -> Int] /\ pc[t] = "raising" /\ pc'[t] = "idle"
      /\ \A u \in Threads \ {t} : pc'[u] = pc[u] /\ size'[u] = size[u]
      /\ size'[t] = 0
  BY ArgumentsAreIntegers DEF Return, Goes, TypeInv, PeakInv, PeakTypes
<1>3. /\ Total(Sizes, blocks') = Total(Sizes, blocks) + 1
      /\ Total(Sizes, Weighed(blocks')) = Total(Sizes, Weighed(blocks)) + s
  <2> DEFINE b == blocks
             c == blocks'
  <2>1. /\ b \in [Sizes -> Nat] /\ c \in [Sizes -> Nat]
        /\ c[s] = b[s] + 1 /\ \A r \in Sizes \ {s} : c[r] = b[r]
    BY <1>1 DEF Return, TypeInv, RestTypes
  <2> HIDE DEF b, c, s
  <2>2. 1 \in {1, -1}
    OBVIOUS
  <2>3. /\ Total(Sizes, c) = Total(Sizes, b) + 1
        /\ Total(Sizes, Weighed(c)) = Total(Sizes, Weighed(b)) + (IF 1 = 1 THEN s ELSE -s)
    BY <1>1, <2>1, <2>2, BlockMoves
  <2> QED
    BY <2>3 DEF b, c
<1>4. n \in [Fields -> Int] /\ \A f \in Fields : n[f] - n[f] = 0
  BY DEF Sound, Ideal
<1>5. /\ (n["total_allocations"] - n["total_allocations"])
            - (n["total_deallocations"] - n["total_deallocations"])
            = 1 + (Begins(pc'[t]) - Begins(pc[t]))
      /\ n["current_usage"] - n["current_usage"]
            = s + (Holding(pc'[t], size'[t]) - Holding(pc[t], size[t]))
      /\ (n["total_bytes_allocated"] - n["total_bytes_allocated"])
            - (n["total_bytes_freed"] - n["total_bytes_freed"])
            = (n["current_usage"] - n["current_usage"])
              + (Leading(pc'[t], size'[t]) - Leading(pc[t], size[t]))
  BY <1>1, <1>2, <1>4 DEF Begins, Holding, Leading, Fields
<1>6. Balanced(n, blocks', kept', pc', size')
  BY <1>1, <1>2, <1>3, <1>4, <1>5, StepBalances DEF Sound
<1>7. Ideal(n)'
  BY IdealStays DEF Sound
<1> QED
  BY <1>6, <1>7 DEF Sound

LEMMA UpdatePeakCounts ==
    ASSUME TypeInv, NEW n, Sound(n), NEW t \in Threads, UpdatePeak(t)
    PROVE  Sound(n)'
<1>1. /\ \A f \in Fields \ {"peak_usage"} : counters'[f] = counters[f]
      /\ kept' = kept
  BY DEF UpdatePeak, RaisePeak, RetryPeak, LeavePeak, TypeInv, PeakInv, PeakTypes, history
<1>2. CASE Return(t)
  BY <1>1, <1>2, ReturnCounts
<1>3. CASE RetryPeak(t)
  <2>1. Ideal(n)'
    BY <1>1, IdealStays DEF Sound
  <2>2. Balanced(n, blocks, kept, pc, size)'
    BY <1>1, <1>3 DEF Sound, RetryPeak, Balanced, Begun, Holds, Ahead
  <2> QED
    BY <2>1, <2>2 DEF Sound
<1> QED
  BY <1>2, <1>3 DEF UpdatePeak, RaisePeak, LeavePeak

\* Idle threads account for nothing.
LEMMA IdleTotals ==
    ASSUME NEW p, NEW z, \A t \in Threads : p[t] = "idle"
    PROVE  /\ Total(Threads, Begun(p)) = 0
           /\ Total(Threads, Holds(p, z)) = 0
           /\ Total(Threads, Ahead(p, z)) = 0
<1>1. \A t \in Threads : Begun(p)[t] = 0 /\ Holds(p, z)[t] = 0 /\ Ahead(p, z)[t] = 0
  BY DEF Begun, Holds, Ahead, Begins, Holding, Leading
<1> QED
  BY <1>1, TotalOfZeroes, ThreadsAssumption

\* When every hook is idle and what is in use is forgotten, zeroes are right.
LEMMA ZeroBalanced ==
    ASSUME NEW b \in [Sizes -> Nat], NEW p, NEW z, \A t \in Threads : p[t] = "idle"
    PROVE  /\ Zero \in [Fields -> Int] /\ \A f \in Fields : Zero[f] = Zero[f] % WordSize
           /\ Balanced(Zero, b, b, p, z)
<1>1. Zero \in [Fields -> Int] /\ \A f \in Fields : Zero[f] = 0 /\ 0 = 0 % WordSize
  BY WordAssumption DEF Zero
<1>2. /\ Total(Threads, Begun(p)) = 0 /\ Total(Threads, Holds(p, z)) = 0
      /\ Total(Threads, Ahead(p, z)) = 0
  BY IdleTotals
<1>3. Total(Sizes, b) \in Int /\ Total(Sizes, Weighed(b)) \in Int
  BY TotalsOfBlocks
<1>4. /\ Zero["total_allocations"] = 0 /\ Zero["total_deallocations"] = 0
      /\ Zero["current_usage"] = 0
      /\ Zero["total_bytes_allocated"] = 0 /\ Zero["total_bytes_freed"] = 0
  BY <1>1 DEF Fields
<1> QED
  BY <1>1, <1>2, <1>3, <1>4 DEF Balanced

Live(b, p) == Total(Sizes, b) + Total(Threads, Begun(p))

LEMMA LiveType ==
    ASSUME NEW b \in [Sizes -> Nat], NEW p
    PROVE  /\ Live(b, p) \in Int
           /\ Total(Sizes, b) \in Int /\ Total(Threads, Begun(p)) \in Int
<1>1. \A t \in Threads : Begun(p)[t] \in Int
  BY DEF Begun, Begins
<1>2. Total(Threads, Begun(p)) \in Int /\ Total(Sizes, b) \in Int
  BY <1>1, ThreadsAssumption, TotalType, TotalsOfBlocks
<1> QED
  BY <1>2 DEF Live

\* A step of a hook adds to the allocations exactly when one is made, never takes back a
\* deallocation, and forgets nothing.
HookStep ==
    \/ \E t \in Threads, s \in Sizes : BeginAllocate(t, s) \/ BeginDeallocate(t, s)
    \/ \E t \in Threads :
          \/ AddBytesAllocated(t) \/ AddUsage(t) \/ LoadPeak(t) \/ UpdatePeak(t)
          \/ AddBytesFreed(t) \/ SubtractUsage(t) \/ ObserveFailure(t)

LEMMA HookStepCounts ==
    ASSUME TypeInv, NEW n, Sound(n), HookStep
    PROVE  \E m : /\ Sound(m)'
                  /\ m["total_allocations"] = n["total_allocations"] + (made' - made)
                  /\ \E k \in {0, 1} : m["total_deallocations"] = n["total_deallocations"] + k
<1>0. made \in Int /\ n["total_allocations"] \in Int /\ n["total_deallocations"] \in Int
  BY DEF TypeInv, RestTypes, Sound, Ideal, Fields
<1>1. ASSUME NEW t \in Threads, NEW s \in Sizes, BeginAllocate(t, s)
      PROVE  \E m : /\ Sound(m)'
                    /\ m["total_allocations"] = n["total_allocations"] + (made' - made)
                    /\ m["total_deallocations"] = n["total_deallocations"] + 0
  <2>1. made' - made = 1
    BY <1>0, <1>1 DEF BeginAllocate
  <2> QED
    BY <1>1, <2>1, BeginAllocateCounts
<1>2. ASSUME NEW t \in Threads, NEW s \in Sizes, BeginDeallocate(t, s)
      PROVE  \E m : /\ Sound(m)'
                    /\ m["total_allocations"] = n["total_allocations"] + (made' - made)
                    /\ m["total_deallocations"] = n["total_deallocations"] + 1
  <2>1. made' - made = 0
    BY <1>0, <1>2 DEF BeginDeallocate, history
  <2> QED
    BY <1>2, <2>1, BeginDeallocateCounts
<1>3. ASSUME NEW t \in Threads,
             \/ AddBytesAllocated(t) \/ AddUsage(t) \/ AddBytesFreed(t)
             \/ SubtractUsage(t) \/ ObserveFailure(t)
      PROVE  \E m : /\ Sound(m)'
                    /\ m["total_allocations"] = n["total_allocations"] + (made' - made)
                    /\ m["total_deallocations"] = n["total_deallocations"] + 0
  <2>1. made' - made = 0
    BY <1>0, <1>3
    DEF AddBytesAllocated, AddUsage, AddBytesFreed, SubtractUsage, ObserveFailure, history
  <2> QED
    BY <1>3, <2>1, AddBytesAllocatedCounts, AddUsageCounts, AddBytesFreedCounts,
       SubtractUsageCounts, ObserveFailureCounts
<1>4. ASSUME NEW t \in Threads, LoadPeak(t) \/ UpdatePeak(t)
      PROVE  /\ Sound(n)'
             /\ n["total_allocations"] = n["total_allocations"] + (made' - made)
             /\ n["total_deallocations"] = n["total_deallocations"] + 0
  <2>1. made' - made = 0
    BY <1>0, <1>4 DEF LoadPeak, UpdatePeak, history
  <2> QED
    BY <1>0, <1>4, <2>1, LoadPeakCounts, UpdatePeakCounts
<1> QED
  BY <1>1, <1>2, <1>3, <1>4 DEF HookStep

LEMMA SoundStays ==
    ASSUME NEW n, Sound(n), UNCHANGED <<counters, pc, size, blocks, kept>>
    PROVE  Sound(n)'
  BY DEF Sound, Ideal, Balanced, Begun, Holds, Ahead

\* reset() finds every hook idle.
LEMMA ResetCounts ==
    ASSUME TypeInv, Reset PROVE Sound(Zero)'
<1>1. blocks' \in [Sizes -> Nat] /\ \A t \in Threads : pc'[t] = "idle"
  BY DEF Reset, HooksIdle, TypeInv, RestTypes
<1>2. counters' = Zero /\ kept' = blocks'
  BY DEF Reset, Cleared
<1>3. Ideal(Zero)' /\ Balanced(Zero, blocks', kept', pc', size')
  BY <1>1, <1>2, ZeroBalanced DEF Ideal
<1> QED
  BY <1>3 DEF Sound

\* The ideal numbers exist in every reachable state.
CountsInv == TypeInv /\ \E n : Sound(n)

LEMMA CountsInvHolds ==
    /\ Init => CountsInv
    /\ CountsInv /\ [Next]_vars => CountsInv'
<1>1. ASSUME Init PROVE CountsInv
  <2>1. blocks \in [Sizes -> Nat] /\ \A t \in Threads : pc[t] = "idle"
    BY <1>1 DEF Init
  <2>2. counters = Zero /\ kept = blocks
    BY <1>1 DEF Init
  <2>3. Ideal(Zero) /\ Balanced(Zero, blocks, kept, pc, size)
    BY <2>1, <2>2, ZeroBalanced DEF Ideal
  <2> QED
    BY <1>1, <2>3, TypeInvHolds DEF CountsInv, Sound
<1>2. ASSUME CountsInv, [Next]_vars PROVE CountsInv'
  <2>1. TypeInv'
    BY <1>2, TypeInvHolds DEF CountsInv
  <2>2. PICK n : Sound(n)
    BY <1>2 DEF CountsInv
  <2>3. \E m : Sound(m)'
    <3>1. CASE HookStep
      BY <1>2, <2>2, <3>1, HookStepCounts DEF CountsInv
    <3>2. CASE UNCHANGED <<counters, pc, size, blocks, kept>>
      BY <2>2, <3>2, SoundStays
    <3>3. CASE Reset
      BY <1>2, <3>3, ResetCounts DEF CountsInv
    <3>4. CASE OpenWatch \/ LoadEntry \/ Delta \/ LoadNow \/ CloseWatch
      BY <3>2, <3>4
      DEF OpenWatch, LoadEntry, Delta, LoadNow, CloseWatch, UnchangedByWatch, history
    <3> QED
      BY <1>2, <3>1, <3>2, <3>3, <3>4 DEF Next, HookStep, vars
  <2> QED
    BY <2>1, <2>3 DEF CountsInv
<1> QED
  BY <1>1, <1>2

LEMMA SoundAddsUp == CountsInv => CountersAddUp
<1> SUFFICES ASSUME TypeInv, NEW n, Sound(n), HooksIdle PROVE CountersAddUp
  BY DEF CountsInv, CountersAddUp
<1> DEFINE na == n["total_allocations"]
           nd == n["total_deallocations"]
           nu == n["current_usage"]
           nb == n["total_bytes_allocated"]
           nf == n["total_bytes_freed"]
<1>1. /\ Total(Threads, Begun(pc)) = 0 /\ Total(Threads, Holds(pc, size)) = 0
      /\ Total(Threads, Ahead(pc, size)) = 0
  BY IdleTotals DEF HooksIdle
<1>2. /\ Count(blocks) = Total(Sizes, blocks) /\ Count(kept) = Total(Sizes, kept)
      /\ BytesIn(blocks) = Total(Sizes, Weighed(blocks))
      /\ BytesIn(kept) = Total(Sizes, Weighed(kept))
      /\ Total(Sizes, blocks) \in Int /\ Total(Sizes, kept) \in Int
      /\ Total(Sizes, Weighed(blocks)) \in Int /\ Total(Sizes, Weighed(kept)) \in Int
  BY CountIsTotal, BytesInIsTotal, TotalsOfBlocks DEF TypeInv, RestTypes
<1>3. na \in Int /\ nd \in Int /\ nu \in Int /\ nb \in Int /\ nf \in Int
  BY DEF Sound, Ideal, Fields
<1>4. /\ na - nd = Count(blocks) - Count(kept)
      /\ nu = BytesIn(blocks) - BytesIn(kept)
      /\ nb - nf = nu
  <2>1. /\ na - nd = Count(blocks) - Count(kept) + 0
        /\ nu = BytesIn(blocks) - BytesIn(kept) + 0
        /\ nb - nf = nu + 0
    BY <1>1, <1>2 DEF Sound, Balanced
  <2> QED
    BY <1>2, <1>3, <2>1
<1>5. /\ counters["total_allocations"] = na % WordSize
      /\ counters["total_deallocations"] = nd % WordSize
      /\ counters["current_usage"] = nu % WordSize
      /\ counters["total_bytes_allocated"] = nb % WordSize
      /\ counters["total_bytes_freed"] = nf % WordSize
  BY DEF Sound, Ideal, Fields
<1> HIDE DEF na, nd, nu, nb, nf
<1>6. Minus(counters["total_allocations"], counters["total_deallocations"]) = Minus(na, nd)
  BY <1>3, <1>5, WrapMinus
<1>7. Minus(counters["total_bytes_allocated"], counters["total_bytes_freed"]) = Minus(nb, nf)
  BY <1>3, <1>5, WrapMinus
<1> QED
  BY <1>4, <1>5, <1>6, <1>7 DEF CountersAddUp, Minus

\* Whatever the hooks of all threads interleave, at any moment when none is running the
\* totals, the byte totals and the usage agree with the blocks in use, modulo the word:
\* each counter is the remainder of a number that does not wrap, and each thread inside a
\* hook accounts for the difference it has made so far.
THEOREM TotalsAddUp == Spec => []CountersAddUp
  BY CountsInvHolds, SoundAddsUp, PTL DEF Spec

-----------------------------------------------------------------------------
(* What a quiet watch knows.                                                *)

\* The prefix a snapshot has loaded, of the blocks found at its beginning: base is the
\* number of allocations that reset() forgot, negated.
Loaded(q, base, at, forgotten) ==
    /\ Len(q) >= 1 => q[1] = (base + at.made) % WordSize
    /\ Len(q) >= 2 => q[2] = (base + at.made - at.held + forgotten) % WordSize

\* From a state with so many blocks and allocations to a later one, no more blocks came
\* into use than allocations were made.
Grows(held, num, later, more) == later - held <= more - num /\ num <= more

QuietBounds ==
    /\ 0 <= watch.before.held /\ watch.before.held <= watch.before.made
    /\ Grows(watch.before.held, watch.before.made, Live(blocks, pc), made)
    /\ watch.step = "entering" => HooksIdle /\ watch.before = InUse
    /\ watch.step = "leaving" => HooksIdle /\ watch.after = InUse
    /\ watch.step \in {"leaving", "done"} =>
          /\ 0 <= watch.after.held /\ watch.after.made <= made
          /\ Grows(watch.before.held, watch.before.made, watch.after.held, watch.after.made)

Quiet == watch.step # "none" /\ watch.quiet

LoadedBoth(n) ==
    /\ Loaded(watch.entry, n["total_allocations"] - made, watch.before, Total(Sizes, kept))
    /\ Loaded(watch.now, n["total_allocations"] - made, watch.after, Total(Sizes, kept))

WatchInv ==
    /\ TypeInv
    /\ made <= MaxAllocations /\ Live(blocks, pc) <= made
    /\ Quiet => QuietBounds
    /\ \E n : Sound(n) /\ (Quiet => LoadedBoth(n))

\* How a step of a hook changes what is alive: by an allocation at most.
LEMMA LiveGrows ==
    ASSUME TypeInv, TypeInv', NEW n, NEW m, Sound(n), Sound(m)', kept' = kept,
           NEW k \in {0, 1}, m["total_deallocations"] = n["total_deallocations"] + k,
           m["total_allocations"] = n["total_allocations"] + (made' - made)
    PROVE  Live(blocks', pc') - Live(blocks, pc) <= made' - made
<1> DEFINE na == n["total_allocations"]
           nd == n["total_deallocations"]
           ma == m["total_allocations"]
           md == m["total_deallocations"]
           x == Live(blocks, pc)
           y == Live(blocks', pc')
           c == Total(Sizes, kept)
           d == made' - made
<1>1. /\ blocks \in [Sizes -> Nat] /\ blocks' \in [Sizes -> Nat]
      /\ kept \in [Sizes -> Nat] /\ made \in Int /\ made' \in Int
  BY DEF TypeInv, RestTypes
<1>2. x \in Int /\ y \in Int /\ c \in Int /\ d \in Int
  BY <1>1, LiveType
<1>3. na \in Int /\ nd \in Int /\ ma \in Int /\ md \in Int
  BY DEF Sound, Ideal, Fields
<1>4. na - nd = x - c
  <2> DEFINE b == Total(Sizes, blocks)
             g == Total(Threads, Begun(pc))
  <2>1. na - nd = b - c + g /\ x = b + g
    BY DEF Sound, Balanced, Live
  <2>2. b \in Int /\ g \in Int
    BY <1>1, LiveType
  <2> HIDE DEF b, g, c, x, na, nd
  <2> QED
    BY <1>2, <1>3, <2>1, <2>2
<1>5. ma - md = y - c
  <2> DEFINE b == Total(Sizes, blocks')
             g == Total(Threads, Begun(pc'))
  <2>1. ma - md = b - c + g /\ y = b + g
    BY DEF Sound, Balanced, Live
  <2>2. b \in Int /\ g \in Int
    BY <1>1, LiveType
  <2> HIDE DEF b, g, c, y, ma, md
  <2> QED
    BY <1>2, <1>3, <2>1, <2>2
<1>6. md = nd + k /\ ma = na + d
  OBVIOUS
<1> HIDE DEF na, nd, ma, md, x, y, c, d
<1>7. y - x = d - k
  BY <1>1, <1>2, <1>3, <1>4, <1>5, <1>6
<1>8. y - x <= d
  BY <1>1, <1>2, <1>3, <1>7
<1> QED
  BY <1>8 DEF x, y, d

LEMMA HookDisturbs ==
    ASSUME TypeInv, HookStep
    PROVE  /\ Disturb /\ kept' = kept
           /\ made' = made \/ (made' = made + 1 /\ made < MaxAllocations)
<1>1. ASSUME NEW t \in Threads, NEW s \in Sizes, BeginAllocate(t, s)
      PROVE  made < MaxAllocations
  <2>1. counters["allocation_failures"] \in Nat /\ made \in Nat /\ MaxAllocations \in Nat
    BY WordsAreNaturals, BoundAssumption
    DEF TypeInv, PeakInv, PeakTypes, RestTypes, Fields
  <2>2. made + counters["allocation_failures"] < MaxAllocations
    BY <1>1 DEF BeginAllocate, MayAllocate
  <2> QED
    BY <2>1, <2>2
<1>2. ASSUME NEW t \in Threads, NEW s \in Sizes, BeginAllocate(t, s) \/ BeginDeallocate(t, s)
      PROVE  /\ Disturb /\ kept' = kept
             /\ made' = made \/ (made' = made + 1 /\ made < MaxAllocations)
  BY <1>1, <1>2 DEF BeginAllocate, BeginDeallocate, history
<1>3. ASSUME NEW t \in Threads,
             \/ AddBytesAllocated(t) \/ AddUsage(t) \/ LoadPeak(t) \/ UpdatePeak(t)
             \/ AddBytesFreed(t) \/ SubtractUsage(t) \/ ObserveFailure(t)
      PROVE  Disturb /\ kept' = kept /\ made' = made
  BY <1>3 DEF AddBytesAllocated, AddUsage, LoadPeak, UpdatePeak, AddBytesFreed,
              SubtractUsage, ObserveFailure, history
<1> QED
  BY <1>2, <1>3 DEF HookStep

LEMMA WatchReads ==
    ASSUME TypeInv
    PROVE  /\ watch.entry \in Seq(Words) /\ watch.now \in Seq(Words)
           /\ watch.before.held \in Int /\ watch.before.made \in Int
           /\ watch.after.held \in Int /\ watch.after.made \in Int
           /\ Live(blocks, pc) \in Int /\ made \in Int /\ Total(Sizes, kept) \in Int
<1>1. watch \in WatchType /\ blocks \in [Sizes -> Nat] /\ kept \in [Sizes -> Nat]
  BY DEF TypeInv, WatchStages, RestTypes
<1>2. Live(blocks, pc) \in Int /\ Total(Sizes, kept) \in Int
  BY <1>1, LiveType, TotalsOfBlocks
<1>3. /\ watch.entry \in Seq(Words) /\ watch.now \in Seq(Words)
      /\ watch.before \in [held : Int, made : Int] /\ watch.after \in [held : Int, made : Int]
  BY <1>1 DEF WatchType
<1> QED
  BY <1>2, <1>3 DEF TypeInv, RestTypes

\* A hook runs beside the watch, between its snapshots if the watch stays quiet.
LEMMA HookStepWatches ==
    ASSUME WatchInv, TypeInv', HookStep PROVE WatchInv'
<1>1. TypeInv /\ made <= MaxAllocations /\ Live(blocks, pc) <= made
  BY DEF WatchInv
<1>2. PICK n : Sound(n) /\ (Quiet => LoadedBoth(n))
  BY DEF WatchInv
<1>3. PICK m : /\ Sound(m)'
               /\ m["total_allocations"] = n["total_allocations"] + (made' - made)
               /\ \E k \in {0, 1} : m["total_deallocations"] = n["total_deallocations"] + k
  BY <1>1, <1>2, HookStepCounts
<1>4. /\ Disturb /\ kept' = kept
      /\ made' = made \/ (made' = made + 1 /\ made < MaxAllocations)
  BY <1>1, HookDisturbs
<1>5. PICK k \in {0, 1} : m["total_deallocations"] = n["total_deallocations"] + k
  BY <1>3
<1> DEFINE x == Live(blocks, pc)
           y == Live(blocks', pc')
<1>6. y - x <= made' - made
  BY <1>1, <1>2, <1>3, <1>4, <1>5, LiveGrows
<1>7. /\ x \in Int /\ y \in Int /\ made \in Int /\ made' \in Int /\ MaxAllocations \in Int
      /\ watch.before.held \in Int /\ watch.before.made \in Int
      /\ watch.after.held \in Int /\ watch.after.made \in Int
  <2>1. blocks' \in [Sizes -> Nat]
    BY DEF TypeInv, RestTypes
  <2>2. y \in Int
    BY <2>1, LiveType
  <2>3. made' \in Int
    BY DEF TypeInv, RestTypes
  <2> QED
    BY <1>1, <2>2, <2>3, WatchReads, BoundAssumption
<1>8. /\ watch'.step = watch.step /\ watch'.entry = watch.entry
      /\ watch'.now = watch.now /\ watch'.before = watch.before
      /\ watch'.after = watch.after
      /\ watch'.quiet <=> watch.quiet /\ ~ InSnapshot
  BY <1>1, <1>4, DisturbKeeps DEF TypeInv
<1>14. PICK d \in {0, 1} : made' = made + d
  BY <1>4, <1>7
<1>15. y - x <= d
  <2>1. made' - made = d
    BY <1>7, <1>14
  <2> QED
    BY <1>6, <2>1
<1> HIDE DEF x, y
<1>9. made' <= MaxAllocations /\ y <= made'
  <2>1. x <= made
    BY <1>1 DEF x
  <2>2. made' <= MaxAllocations
    BY <1>1, <1>4, <1>7
  <2>3. y <= made + d
    BY <1>7, <1>15, <2>1
  <2> QED
    BY <1>14, <2>2, <2>3
<1>10. Quiet' => Quiet /\ ~ InSnapshot
  BY <1>8 DEF Quiet
<1>11. Quiet' => QuietBounds'
  <2> SUFFICES ASSUME Quiet' PROVE QuietBounds'
    OBVIOUS
  <2>1. QuietBounds /\ ~ InSnapshot
    BY <1>10 DEF WatchInv
  <2>2. watch.step \notin {"entering", "leaving"} /\ watch'.step \notin {"entering", "leaving"}
    BY <1>8, <2>1 DEF InSnapshot
  <2>3. Grows(watch.before.held, watch.before.made, y, made')
    <3>1. x - watch.before.held <= made - watch.before.made /\ watch.before.made <= made
      BY <2>1 DEF QuietBounds, Grows, x
    <3> DEFINE h == watch.before.held
               e == watch.before.made
    <3>2. h \in Int /\ e \in Int /\ x - h <= made - e /\ e <= made
      BY <1>7, <3>1
    <3> HIDE DEF h, e
    <3>3. y - h <= (made + d) - e
      BY <1>7, <1>15, <3>2
    <3>4. e <= made + d
      BY <1>7, <1>14, <3>2
    <3> QED
      BY <1>14, <3>3, <3>4 DEF Grows, h, e
  <2>4. watch.step \in {"leaving", "done"} => watch.after.made <= made'
    <3>1. watch.step \in {"leaving", "done"} => watch.after.made <= made
      BY <2>1 DEF QuietBounds
    <3> QED
      BY <1>4, <1>7, <3>1
  <2> QED
    BY <1>8, <2>1, <2>2, <2>3, <2>4 DEF QuietBounds, y
<1>12. Quiet' => LoadedBoth(m)'
  <2> SUFFICES ASSUME Quiet' PROVE LoadedBoth(m)'
    OBVIOUS
  <2>1. LoadedBoth(n)
    BY <1>2, <1>10
  <2>2. n["total_allocations"] \in Int
    BY <1>2 DEF Sound, Ideal, Fields
  <2>3. m["total_allocations"] - made' = n["total_allocations"] - made
    BY <1>3, <1>7, <2>2
  <2> QED
    BY <1>4, <1>8, <2>1, <2>3 DEF LoadedBoth
<1>13. made' <= MaxAllocations /\ Live(blocks, pc)' <= made'
  BY <1>9 DEF y
<1> QED
  BY <1>3, <1>11, <1>12, <1>13 DEF WatchInv

\* A snapshot that no hook overlaps loads what was in use.
LEMMA InUseNow ==
    ASSUME TypeInv, HooksIdle
    PROVE  InUse.held = Live(blocks, pc) /\ InUse.made = made /\ InUse.held \in Nat
<1>1. Total(Threads, Begun(pc)) = 0
  BY IdleTotals DEF HooksIdle
<1>2. Count(blocks) = Total(Sizes, blocks) /\ Count(blocks) \in Nat
  BY CountIsTotal DEF TypeInv, RestTypes
<1>3. Count(blocks) = Total(Sizes, blocks) + 0
  BY <1>2
<1> QED
  BY <1>1, <1>2, <1>3 DEF InUse, Live

LEMMA LoadsRight ==
    ASSUME TypeInv, NEW n, Sound(n), HooksIdle, NEW q \in Seq(Words), Len(q) < 2,
           Loaded(q, n["total_allocations"] - made, InUse, Total(Sizes, kept))
    PROVE  Loaded(Append(q, counters[NextField(q)]),
                  n["total_allocations"] - made, InUse, Total(Sizes, kept))
<1> DEFINE c == counters[NextField(q)]
           na == n["total_allocations"]
           nd == n["total_deallocations"]
           b == Total(Sizes, blocks)
           f == Total(Sizes, kept)
           l == Len(q)
           longer == Append(q, c)
<1>1. l \in Nat /\ l < 2
  OBVIOUS
<1>2. l = 0 \/ l = 1
  <2> HIDE DEF l
  <2> QED
    BY <1>1
<1>3. na \in Int /\ nd \in Int /\ b \in Int /\ f \in Int /\ made \in Int
  BY TotalsOfBlocks DEF Sound, Ideal, Fields, TypeInv, RestTypes
<1>4. na - nd = b - f + 0
  <2>1. Total(Threads, Begun(pc)) = 0
    BY IdleTotals DEF HooksIdle
  <2> QED
    BY <2>1 DEF Sound, Balanced
<1>5. InUse.held = b /\ InUse.made = made
  BY CountIsTotal DEF InUse, TypeInv, RestTypes
<1>6. na - made + InUse.made = na /\ na - made + InUse.made - InUse.held + f = nd
  <2> HIDE DEF na, nd, b, f
  <2>1. nd = na - (b - f)
    BY <1>3, <1>4
  <2> QED
    BY <1>3, <1>5, <2>1
<1>7. counters["total_allocations"] = na % WordSize /\ counters["total_deallocations"] = nd % WordSize
  BY DEF Sound, Ideal, Fields
<1>8. NextField(q) = Watched[l + 1]
  BY DEF NextField
<1>9. CASE l = 0
  <2>1. c = na % WordSize
    BY <1>7, <1>8, <1>9 DEF Watched
  <2>2. Len(longer) = 1 /\ longer[1] = c
    BY <1>9
  <2> HIDE DEF longer, c
  <2> QED
    BY <1>6, <2>1, <2>2 DEF Loaded, longer, c
<1>10. CASE l = 1
  <2>1. c = nd % WordSize
    BY <1>7, <1>8, <1>10 DEF Watched
  <2>2. Len(longer) = 2 /\ longer[1] = q[1] /\ longer[2] = c
    <3>1. c \in Words
      BY NextIsWatched DEF TypeInv, PeakInv, PeakTypes
    <3>2. Len(q) = 1
      BY <1>10
    <3> DEFINE r == Append(q, c)
    <3>3. r = Append(q, c)
      OBVIOUS
    <3> HIDE DEF c, r, l
    <3>4. Len(r) = 2 /\ r[1] = q[1] /\ r[2] = c
      BY <3>1, <3>2, <3>3, OneMoreRead
    <3> QED
      BY <3>4 DEF r
  <2>3. q[1] = (na - made + InUse.made) % WordSize
    BY <1>10 DEF Loaded
  <2> HIDE DEF longer, c
  <2> QED
    BY <1>6, <2>1, <2>2, <2>3 DEF Loaded, longer, c
<1> QED
  BY <1>2, <1>9, <1>10

LEMMA NothingLoaded ==
    ASSUME NEW base, NEW at, NEW forgotten
    PROVE  Loaded(<<>>, base, at, forgotten)
  BY DEF Loaded

\* A step of the watch itself.
LEMMA WatchStepWatches ==
    ASSUME WatchInv, TypeInv', OpenWatch \/ LoadEntry \/ Delta \/ LoadNow \/ CloseWatch
    PROVE  WatchInv'
<1>1. TypeInv /\ made <= MaxAllocations /\ Live(blocks, pc) <= made /\ (Quiet => QuietBounds)
  BY DEF WatchInv
<1>2. PICK n : Sound(n) /\ (Quiet => LoadedBoth(n))
  BY DEF WatchInv
<1>3. UNCHANGED <<counters, pc, size, blocks, kept, made>>
  BY DEF OpenWatch, LoadEntry, Delta, LoadNow, CloseWatch, UnchangedByWatch, history
<1>4. Sound(n)' /\ made' <= MaxAllocations /\ Live(blocks, pc)' <= made'
      /\ Live(blocks', pc') = Live(blocks, pc) /\ (HooksIdle' <=> HooksIdle)
  BY <1>1, <1>2, <1>3, SoundStays DEF Live, HooksIdle
<1>5. InUse' = InUse
  BY <1>3 DEF InUse
<1>6. watch \in WatchType
  BY <1>1 DEF TypeInv, WatchStages
<1> SUFFICES ASSUME Quiet' PROVE QuietBounds' /\ LoadedBoth(n)'
  BY <1>4 DEF WatchInv
<1> DEFINE base == n["total_allocations"] - made
           f == Total(Sizes, kept)
           x == Live(blocks, pc)
<1>7. /\ n["total_allocations"] - made' = base /\ Total(Sizes, kept') = f
  BY <1>3
<1>8. x \in Int /\ made \in Int /\ watch.before.held \in Int /\ watch.before.made \in Int
  BY <1>1, WatchReads
<1>9. CASE OpenWatch
  <2>1. watch' = [NoWatch EXCEPT !.step = "entering", !.quiet = HooksIdle, !.before = InUse]
    BY <1>9 DEF OpenWatch
  <2>2. /\ watch'.step = "entering" /\ watch'.entry = <<>> /\ watch'.now = <<>>
        /\ watch'.before = InUse /\ watch'.quiet = HooksIdle
    BY <2>1 DEF NoWatch
  <2>3. HooksIdle
    BY <2>2 DEF Quiet
  <2>4. InUse.held = x /\ InUse.made = made /\ InUse.held \in Nat
    BY <1>1, <2>3, InUseNow
  <2>5. Grows(InUse.held, InUse.made, x, made) /\ 0 <= InUse.held /\ InUse.held <= InUse.made
    <3>1. x - x <= made - made /\ x <= made /\ made <= made
      BY <1>1, <1>8
    <3> HIDE DEF x
    <3> QED
      BY <2>4, <3>1 DEF Grows
  <2>6. QuietBounds'
    BY <1>3, <1>4, <1>5, <2>2, <2>3, <2>5 DEF QuietBounds
  <2>7. LoadedBoth(n)'
    BY <2>2, NothingLoaded DEF LoadedBoth
  <2> QED
    BY <2>6, <2>7
<1>10. CASE LoadEntry
  <2>1. watch.step = "entering" /\ Len(watch.entry) < 2 /\ watch.now = <<>> /\ watch.entry \in Seq(Words)
    BY <1>1, <1>6, <1>10 DEF LoadEntry, TypeInv, WatchStages, WatchType
  <2>2. /\ watch'.entry = Append(watch.entry, counters[NextField(watch.entry)])
        /\ watch'.step \in {"entering", "open"} /\ watch'.now = watch.now
        /\ watch'.before = watch.before /\ watch'.after = watch.after
        /\ watch'.quiet = watch.quiet
    BY <1>6, <1>10 DEF LoadEntry, WatchType
  <2>3. Quiet
    BY <2>1, <2>2 DEF Quiet
  <2>4. QuietBounds /\ LoadedBoth(n)
    BY <1>1, <1>2, <2>3
  <2>5. HooksIdle /\ watch.before = InUse
    BY <2>1, <2>4 DEF QuietBounds
  <2>6. Loaded(watch.entry, base, InUse, f)
    BY <2>4, <2>5 DEF LoadedBoth
  <2>7. Loaded(watch'.entry, base, InUse, f)
    BY <1>1, <1>2, <2>1, <2>2, <2>5, <2>6, LoadsRight
  <2>8. LoadedBoth(n)'
    BY <1>7, <2>1, <2>2, <2>5, <2>7, NothingLoaded DEF LoadedBoth
  <2>9. QuietBounds'
    BY <1>3, <1>4, <1>5, <2>2, <2>4, <2>5 DEF QuietBounds
  <2> QED
    BY <2>8, <2>9
<1>11. CASE Delta
  <2>1. watch.step = "open" /\ watch.now = <<>>
    BY <1>1, <1>11 DEF Delta, TypeInv, WatchStages
  <2>2. /\ watch'.entry = watch.entry /\ watch'.now = watch.now
        /\ watch'.step = "leaving" /\ watch'.before = watch.before /\ watch'.after = InUse
        /\ watch'.quiet = (watch.quiet /\ HooksIdle)
    BY <1>6, <1>11 DEF Delta, WatchType
  <2>3. Quiet /\ HooksIdle
    BY <2>1, <2>2 DEF Quiet
  <2>4. QuietBounds /\ LoadedBoth(n)
    BY <1>1, <1>2, <2>3
  <2>5. InUse.held = x /\ InUse.made = made /\ InUse.held \in Nat
    BY <1>1, <2>3, InUseNow
  <2>6. LoadedBoth(n)'
    BY <1>7, <2>1, <2>2, <2>4, NothingLoaded DEF LoadedBoth
  <2>7. 0 <= InUse.held /\ InUse.made <= made
    BY <1>8, <2>5
  <2>8. QuietBounds'
    BY <1>3, <1>4, <1>5, <2>2, <2>3, <2>4, <2>5, <2>7 DEF QuietBounds
  <2> QED
    BY <2>6, <2>8
<1>12. CASE LoadNow
  <2>1. watch.step = "leaving" /\ Len(watch.now) < 2 /\ watch.now \in Seq(Words)
    BY <1>1, <1>6, <1>12 DEF LoadNow, TypeInv, WatchStages, WatchType
  <2>2. /\ watch'.now = Append(watch.now, counters[NextField(watch.now)])
        /\ watch'.step \in {"leaving", "done"} /\ watch'.entry = watch.entry
        /\ watch'.before = watch.before /\ watch'.after = watch.after
        /\ watch'.quiet = watch.quiet
    BY <1>6, <1>12 DEF LoadNow, WatchType
  <2>3. Quiet
    BY <2>1, <2>2 DEF Quiet
  <2>4. QuietBounds /\ LoadedBoth(n)
    BY <1>1, <1>2, <2>3
  <2>5. HooksIdle /\ watch.after = InUse
    BY <2>1, <2>4 DEF QuietBounds
  <2>6. Loaded(watch.now, base, InUse, f)
    BY <2>4, <2>5 DEF LoadedBoth
  <2>7. Loaded(watch'.now, base, InUse, f)
    BY <1>1, <1>2, <2>1, <2>2, <2>5, <2>6, LoadsRight
  <2>8. LoadedBoth(n)'
    BY <1>7, <2>2, <2>4, <2>5, <2>7 DEF LoadedBoth
  <2>9. QuietBounds'
    BY <1>3, <1>4, <1>5, <2>1, <2>2, <2>4, <2>5 DEF QuietBounds
  <2> QED
    BY <2>8, <2>9
<1>13. CASE CloseWatch
  BY <1>13 DEF CloseWatch, Quiet, NoWatch
<1> QED
  BY <1>9, <1>10, <1>11, <1>12, <1>13

LEMMA WatchInvHolds ==
    /\ Init => WatchInv
    /\ WatchInv /\ [Next]_vars => WatchInv'
<1>1. ASSUME Init PROVE WatchInv
  <2>1. TypeInv /\ \E n : Sound(n)
    BY <1>1, CountsInvHolds DEF CountsInv
  <2>2. ~ Quiet
    BY <1>1 DEF Init, NoWatch, Quiet
  <2>3. Live(blocks, pc) = 0
    <3>1. \A s \in Sizes : blocks[s] = 0
      BY <1>1 DEF Init
    <3>2. Total(Sizes, blocks) = 0
      BY <3>1, FiniteSizes, TotalOfZeroes
    <3>3. Total(Threads, Begun(pc)) = 0
      BY <1>1, IdleTotals DEF Init
    <3> QED
      BY <3>2, <3>3 DEF Live
  <2>4. made = 0 /\ MaxAllocations \in Nat
    BY <1>1, BoundAssumption DEF Init
  <2> QED
    BY <2>1, <2>2, <2>3, <2>4 DEF WatchInv
<1>2. ASSUME WatchInv, [Next]_vars PROVE WatchInv'
  <2>1. TypeInv /\ made <= MaxAllocations /\ Live(blocks, pc) <= made
    BY <1>2 DEF WatchInv
  <2>2. TypeInv'
    BY <1>2, <2>1, TypeInvHolds
  <2>3. CASE HookStep
    BY <1>2, <2>2, <2>3, HookStepWatches
  <2>4. CASE OpenWatch \/ LoadEntry \/ Delta \/ LoadNow \/ CloseWatch
    BY <1>2, <2>2, <2>4, WatchStepWatches
  <2>5. CASE Reset
    <3>1. Sound(Zero)'
      BY <2>1, <2>5, ResetCounts
    <3>2. ~ Quiet'
      BY <2>1, <2>5 DEF Reset, Quiet, TypeInv, WatchStages, WatchType
    <3>3. made' = made /\ Live(blocks', pc') = Live(blocks, pc)
      BY <2>5 DEF Reset
    <3> QED
      BY <2>1, <2>2, <3>1, <3>2, <3>3 DEF WatchInv
  <2>6. CASE UNCHANGED vars
    <3>1. PICK n : Sound(n) /\ (Quiet => LoadedBoth(n))
      BY <1>2 DEF WatchInv
    <3>2. UNCHANGED <<counters, pc, size, blocks, kept, watch, made>>
      BY <2>6 DEF vars
    <3>3. Sound(n)'
      BY <3>1, <3>2, SoundStays
    <3>4. (Quiet' <=> Quiet) /\ (LoadedBoth(n)' <=> LoadedBoth(n))
          /\ (QuietBounds' <=> QuietBounds) /\ Live(blocks, pc)' = Live(blocks, pc)
      BY <3>2 DEF Quiet, LoadedBoth, QuietBounds, InUse, HooksIdle
    <3> QED
      BY <1>2, <2>1, <2>2, <3>1, <3>2, <3>3, <3>4 DEF WatchInv
  <2> QED
    BY <1>2, <2>3, <2>4, <2>5, <2>6 DEF Next, HookStep
<1> QED
  BY <1>1, <1>2

LEMMA SmallMinus ==
    ASSUME NEW d \in Int, 0 <= d, d < WordSize, NEW a \in Int, NEW b \in Int, b - a = d
    PROVE  Minus(b % WordSize, a % WordSize) = d
<1>1. Minus(b % WordSize, a % WordSize) = Minus(b, a)
  BY WrapMinus
<1>2. d % WordSize = d
  BY WordAssumption, SmallRemainder
<1> QED
  BY <1>1, <1>2 DEF Minus

LEMMA WatchedFields ==
    /\ Difference("total_allocations") = Minus(watch.now[1], watch.entry[1])
    /\ Difference("total_deallocations") = Minus(watch.now[2], watch.entry[2])
<1>1. DOMAIN Watched = {1, 2}
  BY DEF Watched
<1>2. (CHOOSE i \in DOMAIN Watched : Watched[i] = "total_allocations") = 1
  BY <1>1 DEF Watched
<1>3. (CHOOSE i \in DOMAIN Watched : Watched[i] = "total_deallocations") = 2
  BY <1>1 DEF Watched
<1> QED
  BY <1>2, <1>3 DEF Difference

LEMMA WatchTells ==
    ASSUME MaxAllocations < WordSize, WatchInv PROVE QuietWatchIsExact
<1> SUFFICES ASSUME watch.step = "done", watch.quiet
    PROVE /\ Difference("total_allocations") = watch.after.made - watch.before.made
          /\ HasLeak <=> watch.after.held > watch.before.held
  BY DEF QuietWatchIsExact
<1>1. TypeInv /\ QuietBounds /\ made <= MaxAllocations
  BY DEF WatchInv, Quiet
<1>2. PICK n : Sound(n) /\ LoadedBoth(n)
  BY DEF WatchInv, Quiet
<1>3. Len(watch.entry) = 2 /\ Len(watch.now) = 2
  BY <1>1 DEF TypeInv, WatchStages
<1> DEFINE base == n["total_allocations"] - made
           f == Total(Sizes, kept)
           am == watch.after.made
           ah == watch.after.held
           bm == watch.before.made
           bh == watch.before.held
<1>4. base \in Int /\ f \in Int /\ am \in Int /\ ah \in Int /\ bm \in Int /\ bh \in Int
      /\ made \in Int /\ MaxAllocations \in Int /\ WordSize \in Int
  <2>1. n["total_allocations"] \in Int
    BY <1>2 DEF Sound, Ideal, Fields
  <2> QED
    BY <1>1, <2>1, WatchReads, BoundAssumption, WordAssumption
<1>5. /\ watch.entry[1] = (base + bm) % WordSize
      /\ watch.entry[2] = (base + bm - bh + f) % WordSize
      /\ watch.now[1] = (base + am) % WordSize
      /\ watch.now[2] = (base + am - ah + f) % WordSize
  BY <1>2, <1>3 DEF LoadedBoth, Loaded
<1>6. 0 <= bh /\ bh <= bm /\ 0 <= ah /\ am <= made /\ ah - bh <= am - bm /\ bm <= am
  BY <1>1 DEF QuietBounds, Grows
<1> HIDE DEF base, f, am, ah, bm, bh
<1> DEFINE given == am - bm
           taken == (am - bm) - (ah - bh)
<1>7. given \in Int /\ 0 <= given /\ given < WordSize
  BY <1>1, <1>4, <1>6
<1>8. taken \in Int /\ 0 <= taken /\ taken < WordSize
  <2>1. taken <= am
    BY <1>4, <1>6
  <2>2. am < WordSize
    BY <1>1, <1>4, <1>6
  <2> QED
    BY <1>4, <1>6, <2>1, <2>2
<1>9. Minus(watch.now[1], watch.entry[1]) = given
  <2> DEFINE a == base + bm
             b == base + am
  <2>1. a \in Int /\ b \in Int /\ b - a = given
    BY <1>4
  <2>2. watch.entry[1] = a % WordSize /\ watch.now[1] = b % WordSize
    BY <1>5
  <2> HIDE DEF a, b, given
  <2> QED
    BY <1>7, <2>1, <2>2, SmallMinus
<1>10. Minus(watch.now[2], watch.entry[2]) = taken
  <2> DEFINE a == base + bm - bh + f
             b == base + am - ah + f
  <2>1. a \in Int /\ b \in Int /\ b - a = taken
    BY <1>4
  <2>2. watch.entry[2] = a % WordSize /\ watch.now[2] = b % WordSize
    BY <1>5
  <2> HIDE DEF a, b, taken
  <2> QED
    BY <1>8, <2>1, <2>2, SmallMinus
<1>11. given > taken <=> ah > bh
  BY <1>4
<1> QED
  BY <1>9, <1>10, <1>11, WatchedFields DEF HasLeak, am, ah, bm, bh

\* A watch that no hook overlaps at its two ends tells exactly how many allocations were
\* made between them, and reports a leak if and only if more blocks are in use at the
\* second, whichever threads allocated and freed in between (observer.hpp:143-180), for a
\* program that makes fewer allocations than a counter can tell apart.
THEOREM WatchIsExact ==
    ASSUME MaxAllocations < WordSize
    PROVE  Spec => []QuietWatchIsExact
<1>1. WatchInv => QuietWatchIsExact
  BY WatchTells
<1> QED
  BY WatchInvHolds, <1>1, PTL DEF Spec
=============================================================================
