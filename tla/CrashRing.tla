----------------------------- MODULE CrashRing -----------------------------
(***************************************************************************)
(* The crash-visible ring, include/qiven/diag/ring.hpp.                    *)
(*                                                                         *)
(* Writers publish fixed-size records into Capacity slots without locking; *)
(* inspectors copy the slots while the writers run.  A step of this module *)
(* is one access to shared memory, with the thread-local work that follows *)
(* it; the plain payload of a slot is written and copied in two steps, so  *)
(* that a torn record is a reachable state unless the protocol forbids it. *)
(*                                                                         *)
(* A thread that takes no further step stands for one that is suspended or *)
(* killed (ring.hpp:65-68), so nothing is assumed of the schedule.         *)
(***************************************************************************)
EXTENDS Integers, Sequences, FiniteSets, SequencesExt

CONSTANTS
    Writers,            \* threads that call write()
    Inspectors,         \* threads that call capture_newest()
    Events,             \* the diagnostic events that are written
    NoEvent,            \* the zero-initialised payload
    Capacity,           \* number of slots
    WordSize,           \* 2^w for a sequence word of w bits (ring.hpp: w = 64)
    MaxRingSequence,    \* ring.hpp:29
    SnapshotBound,      \* length of snapshot::entries (ring.hpp: 64)
    Windows,            \* the values of max_entries inspectors ask for
    MaxWrites           \* bound: number of calls of write()

ASSUME CapacityAssumption == Capacity \in Nat \ {0}
ASSUME WordAssumption ==
    /\ WordSize \in Nat
    /\ MaxRingSequence \in Nat
    /\ 2 * MaxRingSequence + 1 < WordSize
ASSUME WindowAssumption == SnapshotBound \in Nat \ {0} /\ Windows \subseteq Nat
ASSUME EventAssumption == NoEvent \notin Events
ASSUME BoundAssumption == MaxWrites \in Nat

VARIABLES
    lastReserved,   \* last_reserved_sequence_
    dropped,        \* dropped_records_
    sequences,      \* sequences_[slot]: 2r committed, 2r+1 being written, 0 never used
    access,         \* access_states_[slot]: 0 free, 1 a writer's, 2 an inspector's
    records,        \* records_[slot]: the plain payload
    wpc,            \* where each writer is in write()
    expected,       \* its expected_reservation
    argument,       \* its evt
    ipc,            \* where each inspector is in capture_newest()
    slot,           \* its i
    commitWord,     \* its commit_sequence
    copied,         \* its copy
    snap,           \* its snap, with the window it was asked for
    started,        \* history: number of calls of write()
    ledger,         \* history: the event committed under each reservation
    newest,         \* history: the newest reservation committed in each slot
    base            \* history: what newest was when an inspector began

ringVars == <<lastReserved, dropped, sequences, access, records>>
writerVars == <<wpc, expected, argument, started, ledger, newest>>
inspectorVars == <<ipc, slot, commitWord, copied, snap, base>>
vars == <<ringVars, writerVars, inspectorVars>>

Slots == 0 .. Capacity - 1
Reservations == 1 .. MaxRingSequence
SlotOf(r) == (r - 1) % Capacity

\* The committed form of a reservation: r << 1 in a word of the hardware's width.
Committed(r) == (2 * r) % WordSize
InProgress(word) == word % 2 = 1
ReservationOf(word) == word \div 2

\* A payload whose two halves were both written for event e.
Complete(r, e) == [sequence |-> Committed(r), header |-> e, message |-> e]
Payloads == [sequence : 0 .. WordSize - 1,
             header   : Events \cup {NoEvent},
             message  : Events \cup {NoEvent}]
Blank == [sequence |-> 0, header |-> NoEvent, message |-> NoEvent]

EmptySnapshot(window) ==
    [status |-> "empty", window |-> window, highest |-> 0, dropped |-> 0,
     busy |-> 0, malformed |-> 0, empty |-> 0, after |-> 0, entries |-> <<>>]

-----------------------------------------------------------------------------
(* write(): one attempt at each claim, contention drops the record.        *)

Reservation(w) == expected[w] + 1
Target(w) == SlotOf(Reservation(w))

WriterGoes(w, from, to) == wpc[w] = from /\ wpc' = [wpc EXCEPT ![w] = to]

\* The call: its argument, and the relaxed load of last_reserved_sequence_.
BeginWrite(w, e) ==
    /\ started < MaxWrites
    /\ WriterGoes(w, "idle", "reserve")
    /\ started' = started + 1
    /\ expected' = [expected EXCEPT ![w] = lastReserved]
    /\ argument' = [argument EXCEPT ![w] = e]
    /\ UNCHANGED <<ringVars, ledger, newest, inspectorVars>>

\* Mutant: the saturation check is lost.
MayReserve_NoLimit(w) == expected[w] = lastReserved
MayReserve(w) == expected[w] < MaxRingSequence /\ expected[w] = lastReserved

Reserve(w) ==
    /\ IF MayReserve(w)
       THEN WriterGoes(w, "reserve", "claim") /\ lastReserved' = Reservation(w)
       ELSE WriterGoes(w, "reserve", "drop") /\ UNCHANGED lastReserved
    /\ UNCHANGED <<dropped, sequences, access, records, expected, argument, started,
                   ledger, newest, inspectorVars>>

\* Mutant: a busy slot is waited for instead of dropping the record.
WhenBusy_Spin == "claim"
WhenBusy == "drop"

ClaimSlot(w) ==
    LET i == Target(w) IN
    /\ IF access[i] = 0
       THEN WriterGoes(w, "claim", "check") /\ access' = [access EXCEPT ![i] = 1]
       ELSE WriterGoes(w, "claim", WhenBusy) /\ UNCHANGED access
    /\ UNCHANGED <<lastReserved, dropped, sequences, records, expected, argument,
                   started, ledger, newest, inspectorVars>>

\* Mutant: a delayed writer is not told that its slot has moved on.
Overtaken_Never(word, r) == InProgress(word)
Overtaken(word, r) == InProgress(word) \/ (word # 0 /\ ReservationOf(word) >= r)

CheckSequence(w) ==
    /\ IF Overtaken(sequences[Target(w)], Reservation(w))
       THEN WriterGoes(w, "check", "giveup")
       ELSE WriterGoes(w, "check", "mark")
    /\ UNCHANGED <<ringVars, expected, argument, started, ledger, newest, inspectorVars>>

\* Mutants: the give-up path returns without counting the drop; it tries again.
AfterGiveUp_Silent == "idle"
AfterGiveUp_Retry == "reserve"
AfterGiveUp == "drop"

GiveUp(w) ==
    /\ WriterGoes(w, "giveup", AfterGiveUp)
    /\ access' = [access EXCEPT ![Target(w)] = 0]
    /\ UNCHANGED <<lastReserved, dropped, sequences, records, expected, argument,
                   started, ledger, newest, inspectorVars>>

\* The call returns and its locals go out of scope.
Returns(w, from) ==
    /\ WriterGoes(w, from, "idle")
    /\ expected' = [expected EXCEPT ![w] = 0]
    /\ argument' = [argument EXCEPT ![w] = NoEvent]

CountDrop(w) ==
    /\ Returns(w, "drop")
    /\ dropped' = dropped + 1
    /\ UNCHANGED <<lastReserved, sequences, access, records, started, ledger, newest,
                   inspectorVars>>

MarkInProgress(w) ==
    /\ WriterGoes(w, "mark", "header")
    /\ sequences' = [sequences EXCEPT ![Target(w)] = Committed(Reservation(w)) + 1]
    /\ UNCHANGED <<lastReserved, dropped, access, records, expected, argument,
                   started, ledger, newest, inspectorVars>>

\* rec.sequence and the scalar fields, rec.length among them.
StoreHeader(w) ==
    /\ WriterGoes(w, "header", "message")
    /\ records' = [records EXCEPT ![Target(w)].sequence = Committed(Reservation(w)),
                                  ![Target(w)].header = argument[w]]
    /\ UNCHANGED <<lastReserved, dropped, sequences, access, expected, argument,
                   started, ledger, newest, inspectorVars>>

\* The copied text, its padding and its terminator.
StoreMessage(w) ==
    /\ WriterGoes(w, "message", "commit")
    /\ records' = [records EXCEPT ![Target(w)].message = argument[w]]
    /\ UNCHANGED <<lastReserved, dropped, sequences, access, expected, argument,
                   started, ledger, newest, inspectorVars>>

CommitSequence(w) ==
    /\ WriterGoes(w, "commit", "release")
    /\ sequences' = [sequences EXCEPT ![Target(w)] = Committed(Reservation(w))]
    /\ ledger' = [ledger EXCEPT ![Reservation(w)] = argument[w]]
    /\ newest' = [newest EXCEPT ![Target(w)] = Reservation(w)]
    /\ UNCHANGED <<lastReserved, dropped, access, records, expected, argument, started,
                   inspectorVars>>

ReleaseSlot(w) ==
    /\ Returns(w, "release")
    /\ access' = [access EXCEPT ![Target(w)] = 0]
    /\ UNCHANGED <<lastReserved, dropped, sequences, records, started, ledger, newest,
                   inspectorVars>>

\* What a writer does inside write().
Advance(w) ==
    \/ Reserve(w) \/ ClaimSlot(w) \/ CheckSequence(w) \/ GiveUp(w) \/ CountDrop(w)
    \/ MarkInProgress(w) \/ StoreHeader(w) \/ StoreMessage(w)
    \/ CommitSequence(w) \/ ReleaseSlot(w)

-----------------------------------------------------------------------------
(* capture_newest(): one pass over the slots, one claim attempt at each.   *)

InspectorGoes(p, from, to) == ipc[p] = from /\ ipc' = [ipc EXCEPT ![p] = to]

\* The status capture_newest returns for the counters of a finished pass.
\* Mutants: busy slots are forgotten; a pass that copied nothing is empty.
StatusOf_IgnoreBusy(s) ==
    IF s.malformed + s.after # 0 THEN "partial"
    ELSE IF s.entries = <<>> THEN "empty" ELSE "valid"
StatusOf_NothingCopied(s) ==
    IF s.entries = <<>> THEN "empty"
    ELSE IF s.busy + s.malformed + s.after # 0 THEN "partial" ELSE "valid"
StatusOf(s) ==
    IF s.busy + s.malformed + s.after # 0 THEN "partial"
    ELSE IF s.entries = <<>> THEN "empty" ELSE "valid"

\* The loop's increment: on to slot i + 1, or out with the final status.
ToNextSlot(p, s) ==
    IF slot[p] + 1 < Capacity
    THEN /\ ipc' = [ipc EXCEPT ![p] = "claim"]
         /\ slot' = [slot EXCEPT ![p] = @ + 1]
         /\ snap' = [snap EXCEPT ![p] = s]
    ELSE /\ ipc' = [ipc EXCEPT ![p] = "idle"]
         /\ slot' = [slot EXCEPT ![p] = 0]
         /\ snap' = [snap EXCEPT ![p] = [s EXCEPT !.status = StatusOf(s)]]

\* The call: max_entries is clamped, a window of 0 returns at once.
BeginCapture(p, m) ==
    LET window == IF m > SnapshotBound THEN SnapshotBound ELSE m IN
    /\ ipc[p] = "idle"
    /\ ipc' = [ipc EXCEPT ![p] = IF window = 0 THEN "idle" ELSE "dropped"]
    /\ snap' = [snap EXCEPT ![p] =
           [EmptySnapshot(window) EXCEPT !.highest = IF window = 0 THEN 0 ELSE lastReserved]]
    /\ slot' = [slot EXCEPT ![p] = 0]
    /\ base' = [base EXCEPT ![p] = newest]
    /\ UNCHANGED <<ringVars, writerVars, commitWord, copied>>

LoadDropped(p) ==
    /\ InspectorGoes(p, "dropped", IF snap[p].highest = 0 THEN "idle" ELSE "claim")
    /\ snap' = [snap EXCEPT ![p].dropped = dropped,
                            ![p].status = IF snap[p].highest = 0 THEN "empty" ELSE "valid"]
    /\ UNCHANGED <<ringVars, writerVars, slot, commitWord, copied, base>>

\* Mutant: an inspector copies beside the inspector or writer that owns the slot.
MayInspect_Shared(i) == TRUE
MayInspect(i) == access[i] = 0

InspectSlot(p) ==
    /\ ipc[p] = "claim"
    /\ MayInspect(slot[p])
    /\ access' = [access EXCEPT ![slot[p]] = 2]
    /\ ipc' = [ipc EXCEPT ![p] = "load"]
    /\ UNCHANGED <<lastReserved, dropped, sequences, records, writerVars,
                   slot, commitWord, copied, snap, base>>

\* Mutant: the inspector waits for a busy slot.
SkipBusySlot_Wait(p) == ipc[p] = "claim" /\ ~ MayInspect(slot[p]) /\ UNCHANGED vars
SkipBusySlot(p) ==
    /\ ipc[p] = "claim"
    /\ ~ MayInspect(slot[p])
    /\ ToNextSlot(p, [snap[p] EXCEPT !.busy = @ + 1])
    /\ UNCHANGED <<ringVars, writerVars, commitWord, copied, base>>

LoadSequence(p) ==
    LET word == sequences[slot[p]] IN
    /\ InspectorGoes(p, "load", IF word = 0 THEN "judge" ELSE "header")
    /\ commitWord' = [commitWord EXCEPT ![p] = word]
    /\ UNCHANGED <<ringVars, writerVars, slot, copied, snap, base>>

CopyHeader(p) ==
    LET rec == records[slot[p]] IN
    /\ InspectorGoes(p, "header", "message")
    /\ copied' = [copied EXCEPT ![p] = [rec EXCEPT !.message = NoEvent]]
    /\ UNCHANGED <<ringVars, writerVars, slot, commitWord, snap, base>>

CopyMessage(p) ==
    /\ InspectorGoes(p, "message", "judge")
    /\ copied' = [copied EXCEPT ![p].message = records[slot[p]].message]
    /\ UNCHANGED <<ringVars, writerVars, slot, commitWord, snap, base>>

\* `valid`, for the slot an inspector holds.  The length a writer stores is
\* always below max_message_bytes, so the length test always passes.
IsValid(p) ==
    LET word == commitWord[p] r == ReservationOf(word) IN
    /\ ~ InProgress(word) /\ r # 0 /\ r <= snap[p].highest
    /\ SlotOf(r) = slot[p]
    /\ copied[p].sequence = word

\* Insertion by bubbling up from the end while strictly newer: an entry keeps
\* its place if it, or one behind it, is not older than the record.
\* Mutants: bubbling stops at once; a full window keeps its old records.
InsertNewestFirst_Append(entries, rec) == Append(entries, rec)
InsertNewestFirst(entries, rec) ==
    LET Keeps(k) == \E j \in k .. Len(entries) : entries[j].sequence >= rec.sequence
    IN  [k \in 1 .. Len(entries) + 1 |->
            IF Keeps(k) THEN entries[k]
            ELSE IF k = 1 \/ Keeps(k - 1) THEN rec ELSE entries[k - 1]]

AddToWindow_KeepOld(entries, rec, window) ==
    IF Len(entries) < window THEN InsertNewestFirst(entries, rec) ELSE entries
AddToWindow(entries, rec, window) ==
    IF Len(entries) < window THEN InsertNewestFirst(entries, rec)
    ELSE IF rec.sequence > Last(entries).sequence
    THEN InsertNewestFirst(Front(entries), rec)
    ELSE entries

\* The receipt after the slot has been judged.
Judged(p) ==
    LET s == snap[p] word == commitWord[p] IN
    IF word = 0 THEN [s EXCEPT !.empty = @ + 1]
    ELSE IF IsValid(p) THEN [s EXCEPT !.entries = AddToWindow(@, copied[p], s.window)]
    ELSE IF InProgress(word) \/ ReservationOf(word) = 0
    THEN [s EXCEPT !.malformed = @ + 1]
    ELSE IF ReservationOf(word) > s.highest THEN [s EXCEPT !.after = @ + 1]
    ELSE s

\* The slot is judged from local copies, which end with the iteration, and then
\* released.
JudgeSlot(p) ==
    /\ ipc[p] = "judge"
    /\ ToNextSlot(p, Judged(p))
    /\ access' = [access EXCEPT ![slot[p]] = 0]
    /\ commitWord' = [commitWord EXCEPT ![p] = 0]
    /\ copied' = [copied EXCEPT ![p] = Blank]
    /\ UNCHANGED <<lastReserved, dropped, sequences, records, writerVars, base>>

\* What an inspector does inside capture_newest().
Inspect(p) ==
    \/ LoadDropped(p) \/ InspectSlot(p) \/ SkipBusySlot(p) \/ LoadSequence(p)
    \/ CopyHeader(p) \/ CopyMessage(p) \/ JudgeSlot(p)

-----------------------------------------------------------------------------
Init ==
    /\ lastReserved = 0 /\ dropped = 0
    /\ sequences = [i \in Slots |-> 0]
    /\ access = [i \in Slots |-> 0]
    /\ records = [i \in Slots |-> Blank]
    /\ wpc = [w \in Writers |-> "idle"]
    /\ expected = [w \in Writers |-> 0]
    /\ argument = [w \in Writers |-> NoEvent]
    /\ ipc = [p \in Inspectors |-> "idle"]
    /\ slot = [p \in Inspectors |-> 0]
    /\ commitWord = [p \in Inspectors |-> 0]
    /\ copied = [p \in Inspectors |-> Blank]
    /\ snap = [p \in Inspectors |-> EmptySnapshot(0)]
    /\ started = 0
    /\ ledger = [r \in Reservations |-> NoEvent]
    /\ newest = [i \in Slots |-> 0]
    /\ base = [p \in Inspectors |-> [i \in Slots |-> 0]]

Next ==
    \/ \E w \in Writers : Advance(w) \/ \E e \in Events : BeginWrite(w, e)
    \/ \E p \in Inspectors : Inspect(p) \/ \E m \in Windows : BeginCapture(p, m)

Spec == Init /\ [][Next]_vars

-----------------------------------------------------------------------------
WriterStages == {"idle", "reserve", "claim", "check", "giveup", "drop", "mark",
                 "header", "message", "commit", "release"}
InspectorStages == {"idle", "dropped", "claim", "load", "header", "message", "judge"}
Words == 0 .. WordSize - 1
SequenceNumbers == 0 .. MaxRingSequence
Snapshots ==
    [status : {"valid", "partial", "empty"}, window : 0 .. SnapshotBound,
     highest : Nat, dropped : Nat, busy : Nat, malformed : Nat, empty : Nat, after : Nat,
     entries : Seq(Payloads)]

RingType ==
    /\ lastReserved \in SequenceNumbers
    /\ dropped \in Nat
    /\ sequences \in [Slots -> Words]
    /\ access \in [Slots -> {0, 1, 2}]
    /\ records \in [Slots -> Payloads]

WriterType ==
    /\ wpc \in [Writers -> WriterStages]
    /\ expected \in [Writers -> SequenceNumbers]
    /\ argument \in [Writers -> Events \cup {NoEvent}]
    /\ started \in Nat
    /\ ledger \in [Reservations -> Events \cup {NoEvent}]
    /\ newest \in [Slots -> SequenceNumbers]

InspectorType ==
    /\ ipc \in [Inspectors -> InspectorStages]
    /\ slot \in [Inspectors -> Slots]
    /\ commitWord \in [Inspectors -> Words]
    /\ copied \in [Inspectors -> Payloads]
    /\ base \in [Inspectors -> [Slots -> SequenceNumbers]]
    /\ snap \in [Inspectors -> Snapshots]
    /\ \A p \in Inspectors : Len(snap[p].entries) <= snap[p].window

\* Types, and the bound of the entries array: a window never outgrows what was
\* asked for, nor the 64 entries the snapshot has room for (ring.hpp:151).
TypeOK == RingType /\ WriterType /\ InspectorType

\* A record presented in a window is one that some write() committed, whole:
\* its sequence names the reservation and both halves carry that write's event
\* ("never present torn as complete", ring.hpp:126).
NeverTorn ==
    \A p \in Inspectors : \A k \in 1 .. Len(snap[p].entries) :
        \E r \in Reservations :
            ledger[r] # NoEvent /\ snap[p].entries[k] = Complete(r, ledger[r])

\* The window is ordered newest first and shows no record twice (ring.hpp:144).
NewestFirst ==
    \A p \in Inspectors : \A j, k \in 1 .. Len(snap[p].entries) :
        j < k => snap[p].entries[j].sequence > snap[p].entries[k].sequence

\* A finished capture, and whether its window accounts for reservation r of slot
\* i: shown, superseded in its slot, or pushed out of a full window by newer ones.
Finished(p) == ipc[p] = "idle" /\ snap[p].window > 0
Accounted(s, i, r) ==
    \/ \E k \in 1 .. Len(s.entries) :
          LET shown == ReservationOf(s.entries[k].sequence)
          IN  SlotOf(shown) = i /\ shown >= r
    \/ /\ Len(s.entries) = s.window
       /\ \A k \in 1 .. Len(s.entries) : s.entries[k].sequence > Committed(r)

\* The status is honest, however many writers ran during the capture.  "valid":
\* no record was missed, everything committed before the capture began is accounted
\* for (ring.hpp:130).  "empty": nothing had been committed then, and never that the
\* pass merely failed to claim the slots (ring.hpp:132).
StatusIsHonest ==
    \A p \in Inspectors : Finished(p) =>
        /\ snap[p].status = "valid" =>
              \A i \in Slots : base[p][i] # 0 => Accounted(snap[p], i, base[p][i])
        /\ snap[p].status = "empty" => \A i \in Slots : base[p][i] = 0

\* Every call of write() ends as exactly one committed or one counted drop; the
\* rest are still running (ring.hpp:77,89,97).
CommittedCount == Cardinality({r \in Reservations : ledger[r] # NoEvent})
InFlight == Cardinality({w \in Writers : wpc[w] \notin {"idle", "release"}})
EveryWriteCounted == started = CommittedCount + dropped + InFlight

\* A slot never goes back: whatever delayed writers do, its sequence word grows
\* except for the drop of the in-progress bit at the commit (ring.hpp:93-99).
SlotNeverRegresses ==
    [][\A i \in Slots : ReservationOf(sequences'[i]) >= ReservationOf(sequences[i])]_vars

\* Nobody waits: a thread inside write() or capture_newest() can always take its next
\* step, wherever the other threads have stopped and whatever they own (ring.hpp:65-68,
\* 178-179).
NobodyWaits ==
    /\ \A w \in Writers : wpc[w] # "idle" => ENABLED <<Advance(w)>>_vars
    /\ \A p \in Inspectors : ipc[p] # "idle" => ENABLED <<Inspect(p)>>_vars

\* How many steps of its own a thread has left at most before its call returns.
WriterStepsLeft ==
    [idle |-> 0, reserve |-> 9, claim |-> 8, check |-> 7, giveup |-> 2, drop |-> 1,
     mark |-> 5, header |-> 4, message |-> 3, commit |-> 2, release |-> 1]
StepsAtSlot == [claim |-> 5, load |-> 4, header |-> 3, message |-> 2, judge |-> 1]
InspectorStepsLeft(pc, i) ==
    IF pc = "idle" THEN 0
    ELSE IF pc = "dropped" THEN 5 * Capacity + 1
    ELSE 5 * (Capacity - 1 - i) + StepsAtSlot[pc]

\* One bounded attempt, no retry (ring.hpp:65-68, 178-179): inside a call a step of a
\* thread brings its return nearer, and no step of another thread puts it off.  With
\* NobodyWaits: every call returns within a number of the caller's own steps that
\* depends on Capacity alone.
EachStepIsProgress ==
    [][/\ \A w \in Writers : wpc[w] # "idle" =>
             wpc'[w] = wpc[w] \/ WriterStepsLeft[wpc'[w]] < WriterStepsLeft[wpc[w]]
       /\ \A p \in Inspectors : ipc[p] # "idle" =>
             \/ ipc'[p] = ipc[p] /\ slot'[p] = slot[p]
             \/ InspectorStepsLeft(ipc'[p], slot'[p]) < InspectorStepsLeft(ipc[p], slot[p])
      ]_vars

-----------------------------------------------------------------------------
(* Why no record is torn: the inductive invariant of the protocol.          *)

OwningStages == {"check", "giveup", "mark", "header", "message", "commit", "release"}
WritingStages == {"header", "message", "commit"}
HoldsReservation(w) == wpc[w] = "claim" \/ wpc[w] \in OwningStages
WriterOwns(w) == wpc[w] \in OwningStages
Writing(w) == wpc[w] \in WritingStages
InspectorOwns(p) == ipc[p] \in {"load", "header", "message", "judge"}

\* Each reservation belongs to one write and is committed at most once.
ReservationsUnique ==
    /\ \A w \in Writers : HoldsReservation(w) =>
          /\ Reservation(w) <= lastReserved
          /\ wpc[w] # "release" => ledger[Reservation(w)] = NoEvent
    /\ \A v, w \in Writers :
          HoldsReservation(v) /\ HoldsReservation(w) /\ v # w => expected[v] # expected[w]
    /\ \A r \in Reservations : ledger[r] # NoEvent => r <= lastReserved

\* The access word names the kind of the one owner of the slot.
OneOwner ==
    /\ \A w \in Writers : WriterOwns(w) => access[Target(w)] = 1
    /\ \A p \in Inspectors : InspectorOwns(p) => access[slot[p]] = 2
    /\ \A v, w \in Writers :
          WriterOwns(v) /\ WriterOwns(w) /\ v # w => Target(v) # Target(w)
    /\ \A p, q \in Inspectors :
          InspectorOwns(p) /\ InspectorOwns(q) /\ p # q => slot[p] # slot[q]

\* A slot nobody is writing holds its newest committed record, whole.
SettledSlots ==
    \A i \in Slots : (\A w \in Writers : Writing(w) => Target(w) # i) =>
        /\ sequences[i] = 2 * newest[i]
        /\ newest[i] # 0 => /\ ledger[newest[i]] # NoEvent
                           /\ records[i] = Complete(newest[i], ledger[newest[i]])

\* What a writer has put into its slot so far, and that it supersedes the last.
WritersProgress ==
    \A w \in Writers :
        /\ wpc[w] # "idle" => argument[w] \in Events
        /\ Writing(w) \/ wpc[w] = "mark" => newest[Target(w)] < Reservation(w)
        /\ Writing(w) => sequences[Target(w)] = Committed(Reservation(w)) + 1
        /\ wpc[w] \in {"message", "commit"} =>
              /\ records[Target(w)].sequence = Committed(Reservation(w))
              /\ records[Target(w)].header = argument[w]
        /\ wpc[w] = "commit" => records[Target(w)].message = argument[w]

\* What an inspector has copied of the slot it owns is what the slot holds.
InspectorsProgress ==
    \A p \in Inspectors :
        /\ ipc[p] # "idle" => snap[p].window > 0
        /\ ipc[p] \in {"header", "message", "judge"} => commitWord[p] = sequences[slot[p]]
        /\ ipc[p] \in {"header", "message"} => commitWord[p] # 0
        /\ ipc[p] = "message" =>
              /\ copied[p].sequence = records[slot[p]].sequence
              /\ copied[p].header = records[slot[p]].header
        /\ ipc[p] = "judge" /\ commitWord[p] # 0 => copied[p] = records[slot[p]]

\* The protocol of ring.hpp:81-122 and 182-252: while a slot is owned only its
\* owner touches it, so a committed sequence word vouches for the whole payload.
ProtocolInv ==
    /\ ReservationsUnique /\ OneOwner /\ SettledSlots
    /\ WritersProgress /\ InspectorsProgress /\ NeverTorn

-----------------------------------------------------------------------------
(* The ring implements the board: a record appears when its sequence word is *)
(* committed, and a slot is looked at when it is judged or found busy.       *)

BoardNow ==
    [i \in Slots |-> IF newest[i] = 0 THEN Blank
                     ELSE Complete(newest[i], ledger[newest[i]])]
PassNow ==
    [p \in Inspectors |-> LET s == snap[p] IN
        [status |-> IF ipc[p] = "idle" THEN s.status ELSE "running",
         todo   |-> IF ipc[p] = "idle" /\ s.highest # 0 THEN {} ELSE slot[p] .. Capacity - 1,
         window |-> s.window, limit |-> 2 * s.highest, found |-> Range(s.entries),
         missed |-> s.busy + s.malformed + s.after]]

Board == INSTANCE RingBoard WITH
    WindowBound <- SnapshotBound, Nothing <- Blank, board <- BoardNow, pass <- PassNow

\* Whatever the interleaving of writers and inspectors, records appear, replace
\* each other and are looked at atomically, and each pass keeps the newest it
\* saw: the promise of ring.hpp:7-15, with the protocol that keeps it hidden.
ImplementsBoard == Board!Spec
=============================================================================
