--------------------------- MODULE CrashRingProofs ---------------------------
(***************************************************************************)
(* Theorems about the crash ring, for every number of threads, slots and   *)
(* calls, every word size and every window bound: what the ring keeps,     *)
(* what a capture returns (its window is ordered newest first and shows no *)
(* record twice, its status counts what the window lacks), and that the    *)
(* ring with its captures implements the board.                            *)
(***************************************************************************)
EXTENDS CrashRing, ArithmeticProofs

-----------------------------------------------------------------------------
(* The arithmetic of the sequence word.                                     *)

\* The saturation check keeps the shift of a reservation inside the word.
LEMMA CommittedFits ==
    ASSUME NEW r \in 0 .. MaxRingSequence
    PROVE  Committed(r) = 2 * r
<1> DEFINE x == 2 * r
<1>1. x \in Nat /\ x < WordSize
  BY WordAssumption
<1>2. \A y, m \in Nat : y < m => y % m = y
  OBVIOUS
<1>3. x % WordSize = x
  BY <1>1, <1>2, WordAssumption
<1> QED
  BY <1>3 DEF Committed

\* The word tells its reservation and its in-progress bit.
LEMMA WordParts ==
    ASSUME NEW r \in Nat
    PROVE  /\ ReservationOf(2 * r) = r /\ ~ InProgress(2 * r)
           /\ ReservationOf(2 * r + 1) = r /\ InProgress(2 * r + 1)
  BY DEF ReservationOf, InProgress

LEMMA SlotOfInSlots ==
    ASSUME NEW r \in Nat \ {0}
    PROVE  SlotOf(r) \in Slots
<1>1. \A y \in Nat, m \in Nat \ {0} : y % m \in 0 .. m - 1
  OBVIOUS
<1> QED
  BY <1>1, CapacityAssumption DEF SlotOf, Slots

-----------------------------------------------------------------------------
(* The window of a snapshot.                                                *)

LEMMA Insertion ==
    ASSUME NEW entries \in Seq(Payloads), NEW rec \in Payloads
    PROVE  LET new == InsertNewestFirst(entries, rec) IN
           /\ new \in Seq(Payloads)
           /\ Len(new) = Len(entries) + 1
           /\ \A k \in 1 .. Len(new) :
                 new[k] = rec \/ \E j \in 1 .. Len(entries) : new[k] = entries[j]
<1> DEFINE Keeps(k) == \E j \in k .. Len(entries) : entries[j].sequence >= rec.sequence
           new == InsertNewestFirst(entries, rec)
<1>1. new = [k \in 1 .. Len(entries) + 1 |->
                IF Keeps(k) THEN entries[k]
                ELSE IF k = 1 \/ Keeps(k - 1) THEN rec ELSE entries[k - 1]]
  BY DEF InsertNewestFirst
<1>2. ~ Keeps(Len(entries) + 1)
  OBVIOUS
<1> HIDE DEF Keeps, new
<1>3. \A k \in 1 .. Len(entries) + 1 :
         new[k] = rec \/ \E j \in 1 .. Len(entries) : new[k] = entries[j]
  BY <1>1, <1>2
<1>4. \A k \in 1 .. Len(entries) + 1 : new[k] \in Payloads
  BY <1>3
<1>5. new \in Seq(Payloads) /\ Len(new) = Len(entries) + 1
  BY <1>1, <1>4, IsASeq, SMT
<1> QED
  BY <1>3, <1>5 DEF new

LEMMA Window ==
    ASSUME NEW entries \in Seq(Payloads), NEW rec \in Payloads, NEW window \in Nat \ {0},
           Len(entries) <= window
    PROVE  LET new == AddToWindow(entries, rec, window) IN
           /\ new \in Seq(Payloads)
           /\ Len(new) <= window
           /\ \A k \in 1 .. Len(new) :
                 new[k] = rec \/ \E j \in 1 .. Len(entries) : new[k] = entries[j]
<1> DEFINE Mixed(new) == \A k \in 1 .. Len(new) :
               new[k] = rec \/ \E j \in 1 .. Len(entries) : new[k] = entries[j]
<1>1. CASE Len(entries) < window
  <2> DEFINE new == InsertNewestFirst(entries, rec)
  <2>1. new \in Seq(Payloads) /\ Len(new) = Len(entries) + 1 /\ Mixed(new)
    BY Insertion
  <2>2. AddToWindow(entries, rec, window) = new
    BY <1>1 DEF AddToWindow
  <2> HIDE DEF new
  <2>3. Len(new) <= window
    BY <1>1, <2>1
  <2> QED
    BY <2>1, <2>2, <2>3
<1>2. CASE Len(entries) = window
  <2> DEFINE front == Front(entries)
             new == InsertNewestFirst(front, rec)
  <2>1. /\ front \in Seq(Payloads) /\ Len(front) = Len(entries) - 1
        /\ \A k \in 1 .. Len(front) : front[k] = entries[k]
    BY <1>2, SubSeqProperties DEF Front
  <2>2. AddToWindow(entries, rec, window) \in {entries, new}
    BY <1>2 DEF AddToWindow
  <2>3. /\ new \in Seq(Payloads) /\ Len(new) = Len(front) + 1
        /\ \A k \in 1 .. Len(new) :
              new[k] = rec \/ \E j \in 1 .. Len(front) : new[k] = front[j]
    BY <2>1, Insertion
  <2> HIDE DEF front, new
  <2>4. Len(new) <= window /\ Mixed(new)
    BY <1>2, <2>1, <2>3
  <2>5. Mixed(entries)
    OBVIOUS
  <2> QED
    BY <1>2, <2>2, <2>3, <2>4, <2>5
<1> QED
  BY <1>1, <1>2

-----------------------------------------------------------------------------
(* Types.                                                                   *)

\* What a writer that holds a reservation may rely on.
LEMMA HeldReservation ==
    ASSUME TypeOK, ReservationsUnique, NEW w \in Writers, HoldsReservation(w)
    PROVE  /\ Reservation(w) \in Reservations
           /\ Committed(Reservation(w)) = 2 * Reservation(w)
           /\ Target(w) \in Slots
<1>1. /\ expected[w] \in Nat /\ lastReserved \in Nat
      /\ Reservation(w) <= lastReserved /\ lastReserved <= MaxRingSequence
  BY WordAssumption DEF TypeOK, RingType, WriterType, ReservationsUnique, SequenceNumbers
<1>2. Reservation(w) \in Reservations /\ Reservation(w) \in Nat \ {0}
  BY <1>1, WordAssumption DEF Reservation, Reservations
<1>3. Committed(Reservation(w)) = 2 * Reservation(w)
  BY <1>2, CommittedFits, WordAssumption DEF Reservations
<1> QED
  BY <1>2, <1>3, SlotOfInSlots DEF Target

\* A fresh receipt.
LEMMA FreshReceipt ==
    ASSUME NEW window \in 0 .. SnapshotBound, NEW n \in Nat
    PROVE  LET s == [EmptySnapshot(window) EXCEPT !.highest = n] IN
           s \in Snapshots /\ EmptySnapshot(window) \in Snapshots /\ Len(s.entries) = 0
<1>1. <<>> \in Seq(Payloads) /\ Len(<<>>) = 0
  BY EmptySeq
<1>2. EmptySnapshot(window) \in Snapshots
  BY <1>1 DEF EmptySnapshot, Snapshots
<1>3. [EmptySnapshot(window) EXCEPT !.highest = n] \in Snapshots
  BY <1>2 DEF Snapshots
<1>4. [EmptySnapshot(window) EXCEPT !.highest = n].entries = <<>>
  BY DEF EmptySnapshot
<1> QED
  BY <1>1, <1>2, <1>3, <1>4

LEMMA InitType == Init => TypeOK
<1> SUFFICES ASSUME Init PROVE TypeOK
  OBVIOUS
<1>1. /\ 0 \in Slots /\ 0 \in Words /\ 0 \in SequenceNumbers
      /\ lastReserved \in SequenceNumbers
  BY CapacityAssumption, WordAssumption DEF Init, Slots, Words, SequenceNumbers
<1>2. Blank \in Payloads
  BY WordAssumption DEF Blank, Payloads
<1>3. EmptySnapshot(0) \in Snapshots /\ Len(EmptySnapshot(0).entries) <= EmptySnapshot(0).window
  BY FreshReceipt, WindowAssumption, EmptySeq DEF EmptySnapshot
<1>4. RingType
  BY <1>1, <1>2 DEF Init, RingType
<1>5. WriterType
  BY <1>1 DEF Init, WriterType, WriterStages
<1>6. InspectorType
  BY <1>1, <1>2, <1>3 DEF Init, InspectorType, InspectorStages
<1> QED
  BY <1>4, <1>5, <1>6 DEF TypeOK

LEMMA WriterTypeStep ==
    ASSUME TypeOK, ReservationsUnique, NEW w \in Writers,
           Advance(w) \/ \E e \in Events : BeginWrite(w, e)
    PROVE  TypeOK'
<1>0. RingType' /\ WriterType' /\ UNCHANGED inspectorVars => TypeOK'
  BY DEF TypeOK, InspectorType, inspectorVars
<1> SUFFICES RingType' /\ WriterType' /\ UNCHANGED inspectorVars
  BY <1>0
<1> USE WordAssumption DEF RingType, WriterType, WriterGoes, WriterStages, ringVars
<1>t. RingType /\ WriterType /\ 0 \in SequenceNumbers
  BY DEF TypeOK, SequenceNumbers
<1>1. ASSUME NEW e \in Events, BeginWrite(w, e)
      PROVE  RingType' /\ WriterType' /\ UNCHANGED inspectorVars
  BY <1>1, <1>t DEF BeginWrite
<1>2. CASE Reserve(w)
  BY <1>2, <1>t DEF Reserve, MayReserve, Reservation, SequenceNumbers
<1>3. CASE ClaimSlot(w)
  BY <1>3, <1>t DEF ClaimSlot, WhenBusy
<1>4. CASE CheckSequence(w)
  BY <1>4, <1>t DEF CheckSequence
<1>5. CASE GiveUp(w)
  BY <1>5, <1>t DEF GiveUp, AfterGiveUp
<1>6. CASE CountDrop(w)
  BY <1>6, <1>t DEF CountDrop, Returns
<1>7. CASE MarkInProgress(w)
  <2>1. HoldsReservation(w)
    BY <1>7, <1>t DEF MarkInProgress, HoldsReservation, OwningStages
  <2>2. Committed(Reservation(w)) + 1 \in Words
    BY <2>1, HeldReservation DEF Words, Reservations
  <2> QED
    BY <1>7, <1>t, <2>2 DEF MarkInProgress
<1>8. CASE StoreHeader(w)
  <2>1. HoldsReservation(w)
    BY <1>8, <1>t DEF StoreHeader, HoldsReservation, OwningStages
  <2>2. Committed(Reservation(w)) \in Words
    BY <2>1, HeldReservation DEF Words, Reservations
  <2> QED
    BY ZenonT(40), <1>8, <1>t, <2>2 DEF StoreHeader, Payloads, Words
<1>9. CASE StoreMessage(w)
  BY <1>9, <1>t DEF StoreMessage, Payloads
<1>10. CASE CommitSequence(w)
  <2>1. HoldsReservation(w)
    BY <1>10, <1>t DEF CommitSequence, HoldsReservation, OwningStages
  <2>2. Committed(Reservation(w)) \in Words /\ Reservation(w) \in SequenceNumbers
    BY <2>1, HeldReservation DEF Words, Reservations, SequenceNumbers
  <2> QED
    BY <1>10, <1>t, <2>2 DEF CommitSequence
<1>11. CASE ReleaseSlot(w)
  BY <1>11, <1>t DEF ReleaseSlot, Returns
<1> QED
  BY <1>1, <1>2, <1>3, <1>4, <1>5, <1>6, <1>7, <1>8, <1>9, <1>10, <1>11 DEF Advance

\* A receipt keeps its type when a field is changed within its range.
LEMMA Receipt ==
    ASSUME NEW s \in Snapshots
    PROVE  /\ [s EXCEPT !.busy = @ + 1] \in Snapshots
           /\ [s EXCEPT !.empty = @ + 1] \in Snapshots
           /\ [s EXCEPT !.malformed = @ + 1] \in Snapshots
           /\ [s EXCEPT !.after = @ + 1] \in Snapshots
           /\ \A n \in Nat, v \in {"valid", "partial", "empty"} :
                 [s EXCEPT !.dropped = n, !.status = v] \in Snapshots
           /\ \A es \in Seq(Payloads) : [s EXCEPT !.entries = es] \in Snapshots
<1>1. [s EXCEPT !.busy = @ + 1] \in Snapshots
  BY SMTT(20) DEF Snapshots
<1>2. [s EXCEPT !.empty = @ + 1] \in Snapshots
  BY SMTT(20) DEF Snapshots
<1>3. [s EXCEPT !.malformed = @ + 1] \in Snapshots
  BY SMTT(20) DEF Snapshots
<1>4. [s EXCEPT !.after = @ + 1] \in Snapshots
  BY SMTT(20) DEF Snapshots
<1>5. ASSUME NEW n \in Nat, NEW v \in {"valid", "partial", "empty"}
      PROVE  [s EXCEPT !.dropped = n, !.status = v] \in Snapshots
  BY DEF Snapshots
<1>6. ASSUME NEW es \in Seq(Payloads)
      PROVE  [s EXCEPT !.entries = es] \in Snapshots
  BY DEF Snapshots
<1> QED
  BY <1>1, <1>2, <1>3, <1>4, <1>5, <1>6

LEMMA ReceiptWindow ==
    ASSUME NEW s \in Snapshots
    PROVE  s.window \in Nat /\ s.entries \in Seq(Payloads) /\ s.highest \in Nat
  BY WindowAssumption DEF Snapshots

LEMMA NextSlotType ==
    ASSUME TypeOK, NEW p \in Inspectors,
           NEW s \in Snapshots, Len(s.entries) <= s.window, ToNextSlot(p, s)
    PROVE  /\ ipc' \in [Inspectors -> InspectorStages]
           /\ slot' \in [Inspectors -> Slots]
           /\ snap' \in [Inspectors -> Snapshots]
           /\ \A q \in Inspectors : Len(snap'[q].entries) <= snap'[q].window
<1> DEFINE t == [s EXCEPT !.status = StatusOf(s)]
<1>1. t \in Snapshots /\ t.entries = s.entries /\ t.window = s.window
  BY DEF Snapshots, StatusOf
<1>2. snap' = [snap EXCEPT ![p] = s] \/ snap' = [snap EXCEPT ![p] = t]
  BY DEF ToNextSlot
<1>3. ipc' \in [Inspectors -> InspectorStages] /\ slot' \in [Inspectors -> Slots]
  <2>1. 0 \in Slots /\ (slot[p] + 1 < Capacity => slot[p] + 1 \in Slots)
    BY CapacityAssumption DEF TypeOK, InspectorType, Slots
  <2> QED
    BY <2>1 DEF ToNextSlot, TypeOK, InspectorType, InspectorStages
<1> HIDE DEF t
<1> QED
  BY <1>1, <1>2, <1>3 DEF TypeOK, InspectorType

LEMMA JudgedType ==
    ASSUME TypeOK, InspectorsProgress, NEW p \in Inspectors, ipc[p] = "judge"
    PROVE  Judged(p) \in Snapshots /\ Len(Judged(p).entries) <= Judged(p).window
<1> DEFINE s == snap[p]
           new == AddToWindow(s.entries, copied[p], s.window)
<1>1. s \in Snapshots /\ s.window \in Nat \ {0} /\ Len(s.entries) <= s.window
  <2>1. s \in Snapshots /\ Len(s.entries) <= s.window /\ s.window > 0
    BY DEF TypeOK, InspectorType, InspectorsProgress
  <2> QED
    BY <2>1, ReceiptWindow
<1>2. copied[p] \in Payloads /\ s.entries \in Seq(Payloads)
  BY <1>1 DEF TypeOK, InspectorType, Snapshots
<1>3. new \in Seq(Payloads) /\ Len(new) <= s.window
  BY <1>1, <1>2, Window
<1>4. Judged(p) \in {[s EXCEPT !.empty = @ + 1], [s EXCEPT !.entries = new],
                     [s EXCEPT !.malformed = @ + 1], [s EXCEPT !.after = @ + 1], s}
  BY DEF Judged
<1> HIDE DEF new, s
<1>5. Judged(p) \in Snapshots
  BY <1>1, <1>3, <1>4, Receipt
<1>6. Judged(p).window = s.window /\ Judged(p).entries \in {s.entries, new}
  BY <1>1, <1>4 DEF Snapshots
<1> QED
  BY <1>1, <1>3, <1>5, <1>6

LEMMA InspectorTypeStep ==
    ASSUME TypeOK, InspectorsProgress, NEW p \in Inspectors,
           Inspect(p) \/ \E m \in Windows : BeginCapture(p, m)
    PROVE  TypeOK'
<1>0. RingType' /\ UNCHANGED writerVars /\ InspectorType' => TypeOK'
  BY DEF TypeOK, WriterType, writerVars
<1> SUFFICES RingType' /\ UNCHANGED writerVars /\ InspectorType'
  BY <1>0
<1> USE DEF RingType, InspectorType, InspectorGoes, InspectorStages, ringVars
<1>t. RingType /\ InspectorType
  BY DEF TypeOK
<1>1. ASSUME NEW m \in Windows, BeginCapture(p, m)
      PROVE  RingType' /\ UNCHANGED writerVars /\ InspectorType'
  <2> DEFINE window == IF m > SnapshotBound THEN SnapshotBound ELSE m
             s == [EmptySnapshot(window) EXCEPT
                      !.highest = IF window = 0 THEN 0 ELSE lastReserved]
  <2>1. window \in 0 .. SnapshotBound
    BY WindowAssumption
  <2>2. s \in Snapshots /\ Len(s.entries) <= s.window
    <3>1. (IF window = 0 THEN 0 ELSE lastReserved) \in Nat
      BY <1>t, WordAssumption DEF SequenceNumbers
    <3> HIDE DEF window
    <3>2. s \in Snapshots /\ Len(s.entries) = 0
      BY <2>1, <3>1, FreshReceipt
    <3> HIDE DEF s
    <3> QED
      BY <3>2, ReceiptWindow
  <2>3. /\ ipc' = [ipc EXCEPT ![p] = IF window = 0 THEN "idle" ELSE "dropped"]
        /\ snap' = [snap EXCEPT ![p] = s]
        /\ slot' = [slot EXCEPT ![p] = 0]
        /\ base' = [base EXCEPT ![p] = newest]
        /\ UNCHANGED <<ringVars, writerVars, commitWord, copied>>
    BY <1>1 DEF BeginCapture
  <2> HIDE DEF window, s
  <2> QED
    BY <1>t, <2>2, <2>3, CapacityAssumption DEF Slots, writerVars, WriterType, TypeOK
<1>2. CASE LoadDropped(p)
  <2> DEFINE s == [snap[p] EXCEPT !.dropped = dropped,
                      !.status = IF snap[p].highest = 0 THEN "empty" ELSE "valid"]
  <2>1. snap[p] \in Snapshots /\ Len(snap[p].entries) <= snap[p].window
    BY <1>t
  <2>3. s \in Snapshots /\ s.entries = snap[p].entries /\ s.window = snap[p].window
    BY <1>t, <2>1, Receipt DEF Snapshots
  <2>2. /\ snap' = [snap EXCEPT ![p] = s]
        /\ ipc' = [ipc EXCEPT ![p] = "idle"] \/ ipc' = [ipc EXCEPT ![p] = "claim"]
        /\ UNCHANGED <<ringVars, writerVars, slot, commitWord, copied, base>>
    BY <1>2 DEF LoadDropped
  <2> HIDE DEF s
  <2> QED
    BY <1>t, <2>1, <2>2, <2>3
<1>3. CASE InspectSlot(p)
  BY <1>t, <1>3 DEF InspectSlot
<1>4. CASE SkipBusySlot(p)
  <2> DEFINE s == [snap[p] EXCEPT !.busy = @ + 1]
  <2>1. snap[p] \in Snapshots /\ Len(snap[p].entries) <= snap[p].window
    BY <1>t
  <2>4. s \in Snapshots /\ Len(s.entries) <= s.window
    BY <2>1, Receipt DEF Snapshots
  <2>2. ToNextSlot(p, s) /\ UNCHANGED <<ringVars, writerVars, commitWord, copied, base>>
    BY <1>4 DEF SkipBusySlot
  <2> HIDE DEF s
  <2>3. /\ ipc' \in [Inspectors -> InspectorStages]
        /\ slot' \in [Inspectors -> Slots]
        /\ snap' \in [Inspectors -> Snapshots]
        /\ \A q \in Inspectors : Len(snap'[q].entries) <= snap'[q].window
    BY <2>2, <2>4, NextSlotType
  <2> QED
    BY <1>t, <2>2, <2>3
<1>5. CASE LoadSequence(p)
  BY <1>t, <1>5 DEF LoadSequence
<1>6. CASE CopyHeader(p)
  <2> DEFINE c == [records[slot[p]] EXCEPT !.message = NoEvent]
  <2>0. records[slot[p]] \in Payloads
    BY <1>t
  <2>1. c \in Payloads
    BY <2>0 DEF Payloads
  <2>2. copied' = [copied EXCEPT ![p] = c]
    BY <1>6 DEF CopyHeader
  <2> HIDE DEF c
  <2> QED
    BY ZenonT(40), <1>t, <1>6, <2>1, <2>2 DEF CopyHeader
<1>7. CASE CopyMessage(p)
  BY <1>t, <1>7 DEF CopyMessage, Payloads
<1>8. CASE JudgeSlot(p)
  <2>1. ToNextSlot(p, Judged(p)) /\ ipc[p] = "judge"
    BY <1>8 DEF JudgeSlot
  <2>2. /\ ipc' \in [Inspectors -> InspectorStages]
        /\ slot' \in [Inspectors -> Slots]
        /\ snap' \in [Inspectors -> Snapshots]
        /\ \A q \in Inspectors : Len(snap'[q].entries) <= snap'[q].window
    BY <2>1, JudgedType, NextSlotType
  <2>3. /\ access' = [access EXCEPT ![slot[p]] = 0]
        /\ commitWord' = [commitWord EXCEPT ![p] = 0]
        /\ copied' = [copied EXCEPT ![p] = Blank]
        /\ UNCHANGED <<lastReserved, dropped, sequences, records, writerVars, base>>
    BY <1>8 DEF JudgeSlot
  <2> QED
    BY <1>t, <2>2, <2>3, WordAssumption DEF Blank, Payloads, Words
<1> QED
  BY <1>1, <1>2, <1>3, <1>4, <1>5, <1>6, <1>7, <1>8 DEF Inspect

-----------------------------------------------------------------------------
(* What the two kinds of threads leave alone.                               *)

InspectorStep(p) == Inspect(p) \/ \E m \in Windows : BeginCapture(p, m)
WriterStep(w) == Advance(w) \/ \E e \in Events : BeginWrite(w, e)

\* Inspectors write nothing shared but access words.
LEMMA InspectorFrame ==
    ASSUME NEW p \in Inspectors, InspectorStep(p)
    PROVE  UNCHANGED <<writerVars, lastReserved, dropped, sequences, records>>
  BY DEF InspectorStep, Inspect, BeginCapture, LoadDropped, InspectSlot, SkipBusySlot,
         LoadSequence, CopyHeader, CopyMessage, JudgeSlot, ringVars

\* Writers touch nothing of an inspector's.
LEMMA WriterFrame ==
    ASSUME NEW w \in Writers, WriterStep(w)
    PROVE  UNCHANGED inspectorVars
  BY DEF WriterStep, Advance, BeginWrite, Reserve, ClaimSlot, CheckSequence, GiveUp,
         CountDrop, Returns, MarkInProgress, StoreHeader, StoreMessage, CommitSequence,
         ReleaseSlot

LEMMA NextIsStep ==
    ASSUME Next
    PROVE  \/ \E w \in Writers : WriterStep(w)
           \/ \E p \in Inspectors : InspectorStep(p)
  BY DEF Next, WriterStep, InspectorStep

\* A slot is fixed by the reservation, so it stays while the reservation does.
LEMMA SameTarget ==
    ASSUME NEW w, expected'[w] = expected[w]
    PROVE  Target(w)' = Target(w) /\ Reservation(w)' = Reservation(w)
  BY DEF Target, Reservation

-----------------------------------------------------------------------------
(* Reservations.                                                            *)

LEMMA ReservationsStep ==
    ASSUME TypeOK, ReservationsUnique, NEW w \in Writers, WriterStep(w)
    PROVE  ReservationsUnique'
<1> USE DEF ReservationsUnique, HoldsReservation, OwningStages, Reservation, WriterGoes
<1>t. /\ wpc \in [Writers -> WriterStages]
      /\ expected \in [Writers -> SequenceNumbers]
      /\ lastReserved \in SequenceNumbers
      /\ ledger \in [Reservations -> Events \cup {NoEvent}]
  BY DEF TypeOK, RingType, WriterType
<1>n. SequenceNumbers \subseteq Nat /\ Reservations \subseteq Nat
  BY WordAssumption DEF SequenceNumbers, Reservations
<1>e. lastReserved \in Nat /\ \A v \in Writers : expected[v] \in Nat
  BY <1>t, <1>n
<1>1. ASSUME NEW e \in Events, BeginWrite(w, e) PROVE ReservationsUnique'
  BY <1>1, <1>t DEF BeginWrite, ringVars
<1>2. CASE Reserve(w)
  <2>1. CASE MayReserve(w)
    <3>1. /\ lastReserved' = Reservation(w) /\ lastReserved = expected[w]
          /\ wpc' = [wpc EXCEPT ![w] = "claim"] /\ Reservation(w) \in Reservations
          /\ UNCHANGED <<expected, ledger>>
      BY <1>2, <2>1, <1>t, <1>n, WordAssumption DEF Reserve, MayReserve, Reservations, SequenceNumbers
    <3>2. \A v \in Writers : v # w /\ HoldsReservation(v) => expected[v] + 1 <= expected[w]
      BY <3>1
    <3>3. ledger[Reservation(w)] = NoEvent
      BY <3>1, <1>t, <1>n
    <3>4. \A v \in Writers : HoldsReservation(v)' => v = w \/ HoldsReservation(v)
      BY <3>1, <1>t
    <3>5. \A v \in Writers : HoldsReservation(v)' =>
              /\ Reservation(v)' <= lastReserved'
              /\ wpc'[v] # "release" => ledger'[Reservation(v)'] = NoEvent
      <4>1. \A v \in Writers : HoldsReservation(v) =>
                /\ Reservation(v) <= lastReserved
                /\ wpc[v] # "release" => ledger[Reservation(v)] = NoEvent
        OBVIOUS
      <4>2. Reservation(w)' = lastReserved' /\ lastReserved' > lastReserved
        BY <3>1, <1>e
      <4>3. \A v \in Writers : v # w => wpc'[v] = wpc[v] /\ Reservation(v)' = Reservation(v)
        BY <3>1, <1>t
      <4>4. ledger'[Reservation(w)'] = NoEvent
        BY <3>1, <3>3
      <4>5. \A v \in Writers : Reservation(v) \in Nat
        BY <1>e
      <4> HIDE DEF HoldsReservation, Reservation
      <4> QED
        BY <3>4, <4>1, <4>2, <4>3, <4>4, <4>5, <3>1, <1>e
    <3>7. \A v, u \in Writers :
              HoldsReservation(v)' /\ HoldsReservation(u)' /\ v # u => expected'[v] # expected'[u]
      <4>1. \A v \in Writers : v # w /\ HoldsReservation(v) => expected[v] # expected[w]
        BY <3>2, <1>e
      <4> QED
        BY <3>1, <3>4, <4>1
    <3>6. \A r \in Reservations : ledger'[r] # NoEvent => r <= lastReserved'
      BY <3>1, <1>t, <1>n
    <3> QED
      BY <3>5, <3>6, <3>7
  <2>2. CASE ~ MayReserve(w)
    BY <1>2, <2>2, <1>t DEF Reserve
  <2> QED
    BY <2>1, <2>2
<1>3. CASE ClaimSlot(w)
  BY <1>3, <1>t DEF ClaimSlot, WhenBusy
<1>4. CASE CheckSequence(w)
  BY <1>4, <1>t DEF CheckSequence, ringVars
<1>5. CASE GiveUp(w)
  BY <1>5, <1>t DEF GiveUp, AfterGiveUp
<1>6. CASE CountDrop(w)
  BY <1>6, <1>t DEF CountDrop, Returns
<1>7. CASE MarkInProgress(w)
  BY <1>7, <1>t DEF MarkInProgress
<1>8. CASE StoreHeader(w)
  BY <1>8, <1>t DEF StoreHeader
<1>9. CASE StoreMessage(w)
  BY <1>9, <1>t DEF StoreMessage
<1>10. CASE CommitSequence(w)
  <2>1. /\ wpc[w] = "commit" /\ wpc' = [wpc EXCEPT ![w] = "release"]
        /\ ledger' = [ledger EXCEPT ![Reservation(w)] = argument[w]]
        /\ UNCHANGED <<expected, lastReserved>>
    BY <1>10 DEF CommitSequence
  <2>2. \A v \in Writers : HoldsReservation(v)' => HoldsReservation(v)
    BY <2>1, <1>t
  <2>3. \A v \in Writers : v # w /\ HoldsReservation(v) => Reservation(v) # Reservation(w)
    <3>1. \A v \in Writers : v # w /\ HoldsReservation(v) => expected[v] # expected[w]
      BY <2>1
    <3>2. \A v \in Writers : expected[v] \in Nat
      BY <1>t, <1>n
    <3> HIDE DEF HoldsReservation
    <3> QED
      BY <3>1, <3>2
  <2>4. \A r \in Reservations : r # Reservation(w) => ledger'[r] = ledger[r]
    BY <2>1, <1>t
  <2>5. \A v \in Writers : HoldsReservation(v) => Reservation(v) \in Reservations
    BY <1>t, <1>n, WordAssumption DEF Reservations, SequenceNumbers
  <2>6. Reservation(w) <= lastReserved
    BY <2>1
  <2>7. \A v \in Writers : HoldsReservation(v)' =>
            /\ Reservation(v)' <= lastReserved'
            /\ wpc'[v] # "release" => ledger'[Reservation(v)'] = NoEvent
    BY <2>1, <2>2, <2>3, <2>4, <2>5, <1>t
  <2>8. \A r \in Reservations : ledger'[r] # NoEvent => r <= lastReserved'
    BY <2>1, <2>4, <2>6
  <2> QED
    BY <2>1, <2>2, <2>7, <2>8
<1>11. CASE ReleaseSlot(w)
  BY <1>11, <1>t DEF ReleaseSlot, Returns
<1> QED
  BY <1>1, <1>2, <1>3, <1>4, <1>5, <1>6, <1>7, <1>8, <1>9, <1>10, <1>11
     DEF WriterStep, Advance

-----------------------------------------------------------------------------
(* Ownership of slots.                                                      *)

LEMMA OwnerWriterStep ==
    ASSUME TypeOK, ReservationsUnique, OneOwner, NEW w \in Writers, WriterStep(w)
    PROVE  OneOwner'
<1> USE DEF OneOwner, WriterOwns, InspectorOwns, OwningStages, WriterGoes
<1>t. /\ wpc \in [Writers -> WriterStages]
      /\ expected \in [Writers -> SequenceNumbers]
      /\ access \in [Slots -> {0, 1, 2}]
  BY DEF TypeOK, RingType, WriterType
<1>f. UNCHANGED <<ipc, slot>>
  BY WriterFrame DEF inspectorVars
<1>s. /\ \A v \in Writers : expected'[v] = expected[v] => Target(v)' = Target(v)
      /\ \A q \in Inspectors : slot[q] \in Slots
  BY SameTarget DEF TypeOK, InspectorType
<1>1. ASSUME NEW e \in Events, BeginWrite(w, e) PROVE OneOwner'
  BY <1>1, <1>t, <1>f, <1>s DEF BeginWrite, ringVars
<1>2. CASE Reserve(w)
  BY <1>2, <1>t, <1>f, <1>s DEF Reserve
<1>3. CASE ClaimSlot(w)
  <2>1. CASE access[Target(w)] = 0
    <3>1. /\ wpc' = [wpc EXCEPT ![w] = "check"] /\ expected' = expected
          /\ access' = [access EXCEPT ![Target(w)] = 1]
      BY <1>3, <2>1 DEF ClaimSlot
    <3>2. \A v \in Writers : WriterOwns(v) => Target(v) # Target(w)
      BY <2>1
    <3>3. \A q \in Inspectors : InspectorOwns(q) => slot[q] # Target(w)
      BY <2>1
    <3>4. \A v \in Writers : WriterOwns(v)' => v = w \/ WriterOwns(v)
      BY <3>1, <1>t
    <3>5. \A v \in Writers : WriterOwns(v)' => Target(v) \in Slots
      <4>1. \A v \in Writers : WriterOwns(v)' => HoldsReservation(v)
        BY <3>1, <3>4, <1>3 DEF ClaimSlot, HoldsReservation
      <4> QED
        BY <4>1, HeldReservation
    <3>6. /\ \A v \in Writers : WriterOwns(v)' => access'[Target(v)] = 1
          /\ \A q \in Inspectors : InspectorOwns(q) => access'[slot[q]] = 2
      BY <3>1, <3>3, <3>4, <3>5, <1>t, <1>s
    <3> QED
      BY <3>1, <3>2, <3>4, <3>6, <1>t, <1>f, <1>s, <3>2, <3>3, <3>4, <3>5, <1>t, <1>f, <1>s
  <2>2. CASE access[Target(w)] # 0
    BY <1>3, <2>2, <1>t, <1>f, <1>s DEF ClaimSlot, WhenBusy
  <2> QED
    BY <2>1, <2>2
<1>4. CASE CheckSequence(w)
  BY <1>4, <1>t, <1>f, <1>s DEF CheckSequence, ringVars
<1>5. CASE GiveUp(w)
  BY <1>5, <1>t, <1>f, <1>s DEF GiveUp, AfterGiveUp
<1>6. CASE CountDrop(w)
  BY <1>6, <1>t, <1>f, <1>s DEF CountDrop, Returns
<1>7. CASE MarkInProgress(w)
  BY <1>7, <1>t, <1>f, <1>s DEF MarkInProgress
<1>8. CASE StoreHeader(w)
  BY <1>8, <1>t, <1>f, <1>s DEF StoreHeader
<1>9. CASE StoreMessage(w)
  BY <1>9, <1>t, <1>f, <1>s DEF StoreMessage
<1>10. CASE CommitSequence(w)
  BY <1>10, <1>t, <1>f, <1>s DEF CommitSequence
<1>11. CASE ReleaseSlot(w)
  BY <1>11, <1>t, <1>f, <1>s DEF ReleaseSlot, Returns
<1> QED
  BY <1>1, <1>2, <1>3, <1>4, <1>5, <1>6, <1>7, <1>8, <1>9, <1>10, <1>11
     DEF WriterStep, Advance

\* Moving on changes only the inspector's own place and receipt, and leaves it
\* without a slot.
LEMMA NextSlotFrame ==
    ASSUME TypeOK, NEW p \in Inspectors, NEW s, ToNextSlot(p, s)
    PROVE  \E v \in {"claim", "idle"} : \E i, t :
              /\ ipc' = [ipc EXCEPT ![p] = v]
              /\ slot' = [slot EXCEPT ![p] = i]
              /\ snap' = [snap EXCEPT ![p] = t]
              /\ t = s \/ t = [s EXCEPT !.status = StatusOf(s)]
  BY DEF ToNextSlot

LEMMA OwnerInspectorStep ==
    ASSUME TypeOK, OneOwner, NEW p \in Inspectors, InspectorStep(p)
    PROVE  OneOwner'
<1> USE DEF OneOwner, InspectorOwns, InspectorGoes
<1>t. /\ ipc \in [Inspectors -> InspectorStages]
      /\ slot \in [Inspectors -> Slots]
      /\ access \in [Slots -> {0, 1, 2}]
  BY DEF TypeOK, RingType, InspectorType
<1>f. \A w \in Writers : Target(w)' = Target(w) /\ WriterOwns(w)' = WriterOwns(w)
  BY InspectorFrame, SameTarget DEF writerVars, WriterOwns
<1>1. ASSUME NEW m \in Windows, BeginCapture(p, m) PROVE OneOwner'
  <2>1. /\ ipc[p] = "idle" /\ access' = access
        /\ ipc' = [ipc EXCEPT ![p] = "idle"] \/ ipc' = [ipc EXCEPT ![p] = "dropped"]
        /\ slot' = [slot EXCEPT ![p] = 0]
    BY <1>1 DEF BeginCapture, ringVars
  <2> QED
    BY <2>1, <1>t, <1>f
<1>2. CASE LoadDropped(p)
  BY <1>2, <1>t, <1>f DEF LoadDropped, ringVars
<1>3. CASE InspectSlot(p)
  <2>1. /\ ipc' = [ipc EXCEPT ![p] = "load"] /\ slot' = slot
        /\ access[slot[p]] = 0 /\ access' = [access EXCEPT ![slot[p]] = 2]
    BY <1>3 DEF InspectSlot, MayInspect
  <2>2. \A q \in Inspectors : InspectorOwns(q)' => q = p \/ InspectorOwns(q)
    BY <2>1, <1>t
  <2>3. \A w \in Writers : WriterOwns(w) => Target(w) # slot[p] /\ access'[Target(w)] = 1
    BY <2>1, <1>t
  <2>4. \A q \in Inspectors : InspectorOwns(q) => slot[q] # slot[p]
    BY <2>1, <1>t
  <2> QED
    BY <2>1, <2>2, <2>3, <2>4, <1>t, <1>f
<1>4. CASE SkipBusySlot(p)
  BY <1>4, <1>t, <1>f, NextSlotFrame DEF SkipBusySlot, ringVars
<1>5. CASE LoadSequence(p)
  BY <1>5, <1>t, <1>f DEF LoadSequence, ringVars
<1>6. CASE CopyHeader(p)
  BY <1>6, <1>t, <1>f DEF CopyHeader, ringVars
<1>7. CASE CopyMessage(p)
  BY <1>7, <1>t, <1>f DEF CopyMessage, ringVars
<1>8. CASE JudgeSlot(p)
  <2>0. /\ ipc[p] = "judge" /\ access' = [access EXCEPT ![slot[p]] = 0]
        /\ ToNextSlot(p, Judged(p))
    BY <1>8 DEF JudgeSlot
  <2>1. \E v \in {"claim", "idle"} : \E i :
              /\ ipc' = [ipc EXCEPT ![p] = v]
              /\ slot' = [slot EXCEPT ![p] = i]
    BY <2>0, NextSlotFrame
  <2>2. \A w \in Writers : WriterOwns(w) => Target(w) # slot[p] /\ access'[Target(w)] = 1
    BY <2>0, <1>t
  <2>3. \A q \in Inspectors : InspectorOwns(q)' =>
            q # p /\ InspectorOwns(q) /\ slot'[q] = slot[q]
    BY <2>1, <1>t
  <2>4. \A q \in Inspectors : InspectorOwns(q)' => access'[slot'[q]] = 2
    BY <2>0, <2>3, <1>t
  <2> QED
    BY <2>2, <2>3, <2>4, <1>f
<1> QED
  BY <1>1, <1>2, <1>3, <1>4, <1>5, <1>6, <1>7, <1>8 DEF InspectorStep, Inspect

-----------------------------------------------------------------------------
(* The contents of slots.                                                   *)

\* Two owners never share a slot.
LEMMA OwnersApart ==
    ASSUME TypeOK, ReservationsUnique, OneOwner, NEW w \in Writers, WriterOwns(w)
    PROVE  /\ Target(w) \in Slots
           /\ \A v \in Writers : v # w /\ WriterOwns(v) => Target(v) # Target(w)
           /\ \A q \in Inspectors : InspectorOwns(q) => slot[q] # Target(w)
  BY HeldReservation DEF OneOwner, HoldsReservation, WriterOwns

LEMMA SettledStep ==
    ASSUME TypeOK, ReservationsUnique, OneOwner, SettledSlots, WritersProgress,
           NEW w \in Writers, WriterStep(w)
    PROVE  SettledSlots'
<1> USE DEF WriterGoes, Writing, WritingStages
<1>t. /\ wpc \in [Writers -> WriterStages]
      /\ expected \in [Writers -> SequenceNumbers]
  BY DEF TypeOK, WriterType
<1>r. /\ sequences \in [Slots -> Words] /\ newest \in [Slots -> SequenceNumbers]
      /\ records \in [Slots -> Payloads]
      /\ ledger \in [Reservations -> Events \cup {NoEvent}]
  BY DEF TypeOK, RingType, WriterType
<1>s. \A v \in Writers : expected'[v] = expected[v] => Target(v)' = Target(v)
  BY SameTarget
\* A step that writes nothing and begins or ends no writing.
<1>q. ASSUME UNCHANGED <<sequences, records, newest, ledger>>,
             \A v \in Writers : Writing(v) => Writing(v)' /\ expected'[v] = expected[v]
      PROVE  SettledSlots'
  BY <1>q, <1>s DEF SettledSlots
<1>1. ASSUME NEW e \in Events, BeginWrite(w, e) PROVE SettledSlots'
  BY <1>1, <1>q, <1>t DEF BeginWrite, ringVars
<1>2. CASE Reserve(w)
  BY <1>2, <1>q, <1>t DEF Reserve
<1>3. CASE ClaimSlot(w)
  BY <1>3, <1>q, <1>t DEF ClaimSlot
<1>4. CASE CheckSequence(w)
  BY <1>4, <1>q, <1>t DEF CheckSequence, ringVars
<1>5. CASE GiveUp(w)
  BY <1>5, <1>q, <1>t DEF GiveUp
<1>6. CASE CountDrop(w)
  BY <1>6, <1>q, <1>t DEF CountDrop, Returns
<1>11. CASE ReleaseSlot(w)
  BY <1>11, <1>q, <1>t DEF ReleaseSlot, Returns
\* A step inside the writer's own slot.
<1>o. ASSUME Writing(w)', UNCHANGED <<expected, newest, ledger>>,
             \A v \in Writers : Writing(v) => Writing(v)',
             \A i \in Slots : i # Target(w) =>
                 sequences'[i] = sequences[i] /\ records'[i] = records[i]
      PROVE  SettledSlots'
  BY <1>o, <1>s DEF SettledSlots
<1>7. CASE MarkInProgress(w)
  BY <1>7, <1>o, <1>t, <1>r DEF MarkInProgress
<1>8. CASE StoreHeader(w)
  BY <1>8, <1>o, <1>t, <1>r DEF StoreHeader
<1>9. CASE StoreMessage(w)
  BY <1>9, <1>o, <1>t, <1>r DEF StoreMessage
<1>10. CASE CommitSequence(w)
  <2> DEFINE i == Target(w)
             r == Reservation(w)
  <2>1. /\ wpc[w] = "commit" /\ wpc' = [wpc EXCEPT ![w] = "release"]
        /\ sequences' = [sequences EXCEPT ![i] = Committed(r)]
        /\ ledger' = [ledger EXCEPT ![r] = argument[w]]
        /\ newest' = [newest EXCEPT ![i] = r]
        /\ UNCHANGED <<records, expected>>
    BY <1>10 DEF CommitSequence
  <2>2. WriterOwns(w) /\ HoldsReservation(w)
    BY <2>1 DEF WriterOwns, HoldsReservation, OwningStages
  <2>3. i \in Slots /\ r \in Reservations /\ Committed(r) = 2 * r /\ ledger[r] = NoEvent
    BY <2>1, <2>2, HeldReservation DEF ReservationsUnique
  <2>4. argument[w] # NoEvent /\ records[i] = Complete(r, argument[w])
    <3>1. /\ argument[w] \in Events /\ records[i].sequence = Committed(r)
          /\ records[i].header = argument[w] /\ records[i].message = argument[w]
      BY <2>1 DEF WritersProgress
    <3>2. records[i] \in Payloads
      BY <2>3, <1>r
    <3> QED
      BY <3>1, <3>2, EventAssumption DEF Payloads, Complete
  <2>5. \A v \in Writers : Target(v)' = Target(v)
    BY <2>1, <1>s
  <2> HIDE DEF i, r
  <2>6. /\ sequences'[i] = 2 * newest'[i]
        /\ ledger'[newest'[i]] # NoEvent
        /\ records'[i] = Complete(newest'[i], ledger'[newest'[i]])
    BY <2>1, <2>3, <2>4, <1>r
  <2>7. ASSUME NEW j \in Slots, j # i, \A v \in Writers : Writing(v)' => Target(v)' # j
        PROVE  /\ sequences'[j] = 2 * newest'[j]
               /\ newest'[j] # 0 => /\ ledger'[newest'[j]] # NoEvent
                                    /\ records'[j] = Complete(newest'[j], ledger'[newest'[j]])
    <3>1. \A v \in Writers : Writing(v) => Target(v) # j
      <4>1. \A v \in Writers : Writing(v) => v = w \/ Writing(v)'
        BY <2>1, <1>t
      <4> QED
        BY <4>1, <2>5, <2>7 DEF i
    <3>2. /\ sequences[j] = 2 * newest[j]
          /\ newest[j] # 0 => /\ ledger[newest[j]] # NoEvent
                              /\ records[j] = Complete(newest[j], ledger[newest[j]])
      BY <3>1 DEF SettledSlots
    <3>3. sequences'[j] = sequences[j] /\ newest'[j] = newest[j] /\ records'[j] = records[j]
      BY <2>1, <2>7, <1>r
    <3>4. newest[j] # 0 => ledger'[newest[j]] = ledger[newest[j]]
      BY <2>1, <2>3, <3>2, <1>r
    <3> QED
      BY <3>2, <3>3, <3>4
  <2> QED
    BY <2>6, <2>7 DEF SettledSlots
<1> QED
  BY <1>1, <1>2, <1>3, <1>4, <1>5, <1>6, <1>7, <1>8, <1>9, <1>10, <1>11
     DEF WriterStep, Advance

\* A writer that may go on is newer than what its slot holds.
LEMMA NotOvertaken ==
    ASSUME TypeOK, ReservationsUnique, OneOwner, SettledSlots, NEW w \in Writers,
           wpc[w] = "check", ~ Overtaken(sequences[Target(w)], Reservation(w))
    PROVE  newest[Target(w)] < Reservation(w)
<1> DEFINE i == Target(w)
<1>1. WriterOwns(w) /\ HoldsReservation(w)
  BY DEF WriterOwns, HoldsReservation, OwningStages
<1>2. i \in Slots /\ Reservation(w) \in Reservations
  BY <1>1, HeldReservation
<1>3. \A v \in Writers : Writing(v) => Target(v) # i
  <2>1. \A v \in Writers : Writing(v) => v # w /\ WriterOwns(v)
    BY DEF Writing, WritingStages, WriterOwns, OwningStages
  <2> QED
    BY <2>1, <1>1, OwnersApart
<1>4. sequences[i] = 2 * newest[i]
  BY <1>2, <1>3 DEF SettledSlots
<1>5. newest[i] \in Nat /\ Reservation(w) \in Nat \ {0}
  BY <1>2, WordAssumption DEF TypeOK, WriterType, SequenceNumbers, Reservations
<1>6. ReservationOf(sequences[i]) = newest[i]
  BY <1>4, <1>5, WordParts
<1> HIDE DEF i
<1> QED
  BY <1>4, <1>5, <1>6 DEF Overtaken, i

LEMMA WritersProgressStep ==
    ASSUME TypeOK, ReservationsUnique, OneOwner, SettledSlots, WritersProgress,
           NEW w \in Writers, WriterStep(w)
    PROVE  WritersProgress'
<1> USE DEF WriterGoes, Writing, WritingStages
<1>t. /\ wpc \in [Writers -> WriterStages]
      /\ expected \in [Writers -> SequenceNumbers]
      /\ argument \in [Writers -> Events \cup {NoEvent}]
  BY DEF TypeOK, WriterType
<1>r. /\ sequences \in [Slots -> Words] /\ newest \in [Slots -> SequenceNumbers]
      /\ records \in [Slots -> Payloads]
  BY DEF TypeOK, RingType, WriterType
<1>s. \A v \in Writers : expected'[v] = expected[v] =>
         Target(v)' = Target(v) /\ Reservation(v)' = Reservation(v)
  BY SameTarget
<1>a. \A v \in Writers : (Writing(v) \/ wpc[v] = "mark") => WriterOwns(v)
  BY DEF WriterOwns, OwningStages
\* A step that writes nothing to the slots and lets nobody begin to write.
<1>q. ASSUME UNCHANGED <<sequences, records, newest>>,
             wpc'[w] \in {"idle", "reserve", "claim", "check", "giveup", "drop"},
             wpc'[w] # "idle" => argument'[w] \in Events,
             \A v \in Writers : v # w => /\ wpc'[v] = wpc[v] /\ expected'[v] = expected[v]
                                        /\ argument'[v] = argument[v]
      PROVE  WritersProgress'
  BY <1>q, <1>s DEF WritersProgress
<1>g. wpc[w] # "idle" => argument[w] \in Events
  BY DEF WritersProgress
<1>1. ASSUME NEW e \in Events, BeginWrite(w, e) PROVE WritersProgress'
  BY <1>1, <1>q, <1>t DEF BeginWrite, ringVars
<1>2. CASE Reserve(w)
  BY <1>2, <1>q, <1>t, <1>g DEF Reserve
<1>3. CASE ClaimSlot(w)
  BY <1>3, <1>q, <1>t, <1>g DEF ClaimSlot, WhenBusy
<1>4. CASE CheckSequence(w)
  <2>1. CASE Overtaken(sequences[Target(w)], Reservation(w))
    BY <1>4, <2>1, <1>q, <1>t, <1>g DEF CheckSequence, ringVars
  <2>2. CASE ~ Overtaken(sequences[Target(w)], Reservation(w))
    <3>1. /\ wpc[w] = "check" /\ wpc' = [wpc EXCEPT ![w] = "mark"]
          /\ UNCHANGED <<sequences, records, newest, expected, argument>>
      BY <1>4, <2>2 DEF CheckSequence, ringVars
    <3>2. newest[Target(w)] < Reservation(w)
      BY <2>2, <3>1, NotOvertaken
    <3> QED
      BY <3>1, <3>2, <1>s, <1>t DEF WritersProgress
  <2> QED
    BY <2>1, <2>2
<1>5. CASE GiveUp(w)
  BY <1>5, <1>q, <1>t, <1>g DEF GiveUp, AfterGiveUp
<1>6. CASE CountDrop(w)
  BY <1>6, <1>q, <1>t DEF CountDrop, Returns
<1>11. CASE ReleaseSlot(w)
  BY <1>11, <1>q, <1>t DEF ReleaseSlot, Returns
\* A step inside the writer's own slot leaves the other writers' slots alone.
<1>o. ASSUME WriterOwns(w), UNCHANGED <<expected, argument>>,
             \A v \in Writers : v # w => wpc'[v] = wpc[v],
             \A i \in Slots : i # Target(w) =>
                 /\ sequences'[i] = sequences[i] /\ records'[i] = records[i]
                 /\ newest'[i] = newest[i]
      PROVE  \A v \in Writers \ {w} :
                /\ wpc'[v] # "idle" => argument'[v] \in Events
                /\ Writing(v)' \/ wpc'[v] = "mark" => newest'[Target(v)'] < Reservation(v)'
                /\ Writing(v)' => sequences'[Target(v)'] = (Committed(Reservation(v)) + 1)'
                /\ wpc'[v] \in {"message", "commit"} =>
                      /\ records'[Target(v)'].sequence = Committed(Reservation(v))'
                      /\ records'[Target(v)'].header = argument'[v]
                /\ wpc'[v] = "commit" => records'[Target(v)'].message = argument'[v]
  <2> SUFFICES ASSUME NEW v \in Writers, v # w, wpc[v] # "idle"
               PROVE  /\ argument'[v] \in Events
                      /\ Writing(v)' \/ wpc'[v] = "mark" =>
                            newest'[Target(v)'] < Reservation(v)'
                      /\ Writing(v)' =>
                            sequences'[Target(v)'] = (Committed(Reservation(v)) + 1)'
                      /\ wpc'[v] \in {"message", "commit"} =>
                            /\ records'[Target(v)'].sequence = Committed(Reservation(v))'
                            /\ records'[Target(v)'].header = argument'[v]
                      /\ wpc'[v] = "commit" => records'[Target(v)'].message = argument'[v]
    BY <1>o
  <2>1. /\ wpc'[v] = wpc[v] /\ argument'[v] = argument[v]
        /\ Target(v)' = Target(v) /\ Reservation(v)' = Reservation(v)
        /\ Committed(Reservation(v))' = Committed(Reservation(v))
    BY <1>o, <1>s DEF Committed
  <2>2. CASE Writing(v) \/ wpc[v] = "mark"
    <3>1. Target(v) \in Slots /\ Target(v) # Target(w)
      BY <2>2, <1>a, <1>o, OwnersApart
    <3> QED
      BY <2>1, <3>1, <1>o DEF WritersProgress
  <2>3. CASE ~ (Writing(v) \/ wpc[v] = "mark")
    BY <2>1, <2>3 DEF WritersProgress
  <2> QED
    BY <2>2, <2>3
<1>w. ASSUME wpc[w] \in OwningStages
      PROVE  /\ WriterOwns(w) /\ Target(w) \in Slots /\ argument[w] \in Events
  BY <1>w, HeldReservation, <1>g DEF WriterOwns, HoldsReservation, OwningStages
<1>7. CASE MarkInProgress(w)
  <2>1. /\ wpc[w] = "mark" /\ wpc' = [wpc EXCEPT ![w] = "header"]
        /\ sequences' = [sequences EXCEPT ![Target(w)] = Committed(Reservation(w)) + 1]
        /\ UNCHANGED <<records, newest, expected, argument>>
    BY <1>7 DEF MarkInProgress
  <2>2. WriterOwns(w) /\ Target(w) \in Slots /\ newest[Target(w)] < Reservation(w)
    BY <2>1, <1>w DEF WritersProgress, OwningStages
  <2> QED
    BY <2>1, <2>2, <1>g, <1>o, <1>s, <1>t, <1>r DEF WritersProgress
<1>8. CASE StoreHeader(w)
  <2>1. /\ wpc[w] = "header" /\ wpc' = [wpc EXCEPT ![w] = "message"]
        /\ UNCHANGED <<sequences, newest, expected, argument>>
        /\ \A i \in Slots : i # Target(w) => records'[i] = records[i]
    BY <1>8, <1>r DEF StoreHeader
  <2>2. WriterOwns(w) /\ Target(w) \in Slots
    BY <2>1, <1>w DEF OwningStages
  <2>3. /\ records'[Target(w)].sequence = Committed(Reservation(w))
        /\ records'[Target(w)].header = argument[w]
    BY <1>8, <2>2, <1>r DEF StoreHeader, Payloads
  <2> QED
    BY <2>1, <2>2, <2>3, <1>g, <1>o, <1>s, <1>t DEF WritersProgress
<1>9. CASE StoreMessage(w)
  <2>1. /\ wpc[w] = "message" /\ wpc' = [wpc EXCEPT ![w] = "commit"]
        /\ UNCHANGED <<sequences, newest, expected, argument>>
        /\ \A i \in Slots : i # Target(w) => records'[i] = records[i]
    BY <1>9, <1>r DEF StoreMessage
  <2>2. WriterOwns(w) /\ Target(w) \in Slots
    BY <2>1, <1>w DEF OwningStages
  <2>3. /\ records'[Target(w)].sequence = records[Target(w)].sequence
        /\ records'[Target(w)].header = records[Target(w)].header
        /\ records'[Target(w)].message = argument[w]
    BY <1>9, <2>2, <1>r DEF StoreMessage, Payloads
  <2> QED
    BY <2>1, <2>2, <2>3, <1>g, <1>o, <1>s, <1>t DEF WritersProgress
<1>10. CASE CommitSequence(w)
  <2>1. /\ wpc[w] = "commit" /\ wpc' = [wpc EXCEPT ![w] = "release"]
        /\ sequences' = [sequences EXCEPT ![Target(w)] = Committed(Reservation(w))]
        /\ newest' = [newest EXCEPT ![Target(w)] = Reservation(w)]
        /\ UNCHANGED <<records, expected, argument>>
    BY <1>10 DEF CommitSequence
  <2>2. WriterOwns(w) /\ argument[w] \in Events
    BY <2>1, <1>w DEF OwningStages
  <2> QED
    BY <2>1, <2>2, <1>o, <1>s, <1>t, <1>r DEF WritersProgress
<1> QED
  BY <1>1, <1>2, <1>3, <1>4, <1>5, <1>6, <1>7, <1>8, <1>9, <1>10, <1>11
     DEF WriterStep, Advance

-----------------------------------------------------------------------------
(* Inspectors.                                                              *)

\* A writer changes a slot's word and payload only while it owns the slot.
LEMMA WritesOwnSlot ==
    ASSUME TypeOK, ReservationsUnique, NEW w \in Writers, WriterStep(w),
           NEW i \in Slots, sequences'[i] # sequences[i] \/ records'[i] # records[i]
    PROVE  WriterOwns(w) /\ i = Target(w)
<1> USE DEF WriterGoes, WriterOwns, OwningStages
<1>r. sequences \in [Slots -> Words] /\ records \in [Slots -> Payloads]
  BY DEF TypeOK, RingType
<1>1. \/ MarkInProgress(w) \/ StoreHeader(w) \/ StoreMessage(w) \/ CommitSequence(w)
      \/ UNCHANGED <<sequences, records>>
  BY DEF WriterStep, Advance, BeginWrite, Reserve, ClaimSlot, CheckSequence, GiveUp,
         CountDrop, ReleaseSlot, ringVars
<1>2. CASE MarkInProgress(w)
  BY <1>2, <1>r DEF MarkInProgress
<1>3. CASE StoreHeader(w)
  BY <1>3, <1>r DEF StoreHeader
<1>4. CASE StoreMessage(w)
  BY <1>4, <1>r DEF StoreMessage
<1>5. CASE CommitSequence(w)
  BY <1>5, <1>r DEF CommitSequence
<1> QED
  BY <1>1, <1>2, <1>3, <1>4, <1>5

LEMMA InspectorsProgressWriterStep ==
    ASSUME TypeOK, ReservationsUnique, OneOwner, InspectorsProgress,
           NEW w \in Writers, WriterStep(w)
    PROVE  InspectorsProgress'
<1>1. UNCHANGED <<ipc, slot, commitWord, copied, snap>>
  BY WriterFrame DEF inspectorVars
<1>2. ASSUME NEW q \in Inspectors, InspectorOwns(q)
      PROVE  sequences'[slot[q]] = sequences[slot[q]] /\ records'[slot[q]] = records[slot[q]]
  <2>1. slot[q] \in Slots
    BY DEF TypeOK, InspectorType
  <2> QED
    BY <1>2, <2>1, WritesOwnSlot, OwnersApart
<1> QED
  BY <1>1, <1>2 DEF InspectorsProgress, InspectorOwns

LEMMA InspectorsProgressStep ==
    ASSUME TypeOK, InspectorsProgress, NEW p \in Inspectors, InspectorStep(p)
    PROVE  InspectorsProgress'
<1> USE DEF InspectorsProgress, InspectorGoes
<1>t. /\ ipc \in [Inspectors -> InspectorStages]
      /\ slot \in [Inspectors -> Slots]
      /\ commitWord \in [Inspectors -> Words]
      /\ copied \in [Inspectors -> Payloads]
      /\ snap \in [Inspectors -> Snapshots]
      /\ records \in [Slots -> Payloads]
  BY DEF TypeOK, RingType, InspectorType
<1>f. UNCHANGED <<sequences, records>>
  BY InspectorFrame
<1>1. ASSUME NEW m \in Windows, BeginCapture(p, m) PROVE InspectorsProgress'
  <2> DEFINE window == IF m > SnapshotBound THEN SnapshotBound ELSE m
             s == [EmptySnapshot(window) EXCEPT
                      !.highest = IF window = 0 THEN 0 ELSE lastReserved]
  <2>1. /\ ipc' = [ipc EXCEPT ![p] = IF window = 0 THEN "idle" ELSE "dropped"]
        /\ snap' = [snap EXCEPT ![p] = s] /\ slot' = [slot EXCEPT ![p] = 0]
        /\ UNCHANGED <<commitWord, copied>>
    BY <1>1 DEF BeginCapture
  <2>2. window \in Nat /\ s.window = window
    BY WindowAssumption DEF EmptySnapshot
  <2> HIDE DEF window, s
  <2>3. ipc'[p] # "idle" => ipc'[p] = "dropped" /\ window > 0
    BY <2>1, <2>2, <1>t
  <2> QED
    BY <2>1, <2>2, <2>3, <1>f, <1>t
<1>2. CASE LoadDropped(p)
  <2> DEFINE s == [snap[p] EXCEPT !.dropped = dropped,
                      !.status = IF snap[p].highest = 0 THEN "empty" ELSE "valid"]
  <2>1. /\ ipc[p] = "dropped" /\ snap' = [snap EXCEPT ![p] = s]
        /\ ipc' = [ipc EXCEPT ![p] = "idle"] \/ ipc' = [ipc EXCEPT ![p] = "claim"]
        /\ UNCHANGED <<slot, commitWord, copied>>
    BY <1>2 DEF LoadDropped
  <2>2. snap[p] \in Snapshots /\ s.window = snap[p].window /\ snap[p].window > 0
    BY <1>t, <2>1 DEF Snapshots
  <2> HIDE DEF s
  <2> QED
    BY <2>1, <2>2, <1>f, <1>t
<1>3. CASE InspectSlot(p)
  BY <1>3, <1>f, <1>t DEF InspectSlot
<1>4. CASE SkipBusySlot(p)
  <2> DEFINE s == [snap[p] EXCEPT !.busy = @ + 1]
  <2>1. ipc[p] = "claim" /\ ToNextSlot(p, s) /\ UNCHANGED <<commitWord, copied>>
    BY <1>4 DEF SkipBusySlot
  <2>2. snap[p].window > 0 /\ \A t : t = s \/ t = [s EXCEPT !.status = StatusOf(s)] =>
                                          t.window = snap[p].window
    <3>1. snap[p] \in Snapshots /\ snap[p].window > 0
      BY <1>t, <2>1
    <3>2. s \in Snapshots /\ s.window = snap[p].window
      <4> DEFINE old == snap[p]
                 busy == old.busy + 1
      <4>1. old \in Snapshots /\ busy \in Nat /\ s = [old EXCEPT !.busy = busy]
        BY <3>1 DEF Snapshots
      <4> HIDE DEF old, busy, s
      <4>2. s \in Snapshots /\ s.window = old.window
        BY <4>1 DEF Snapshots
      <4> QED
        BY <4>2 DEF old
    <3> HIDE DEF s
    <3>3. [s EXCEPT !.status = StatusOf(s)].window = s.window
      BY <3>2 DEF Snapshots
    <3> QED
      BY <3>1, <3>2, <3>3
  <2> HIDE DEF s
  <2> QED
    BY <2>1, <2>2, <1>f, <1>t, NextSlotFrame
<1>5. CASE LoadSequence(p)
  BY <1>5, <1>f, <1>t DEF LoadSequence
<1>6. CASE CopyHeader(p)
  <2> DEFINE c == [records[slot[p]] EXCEPT !.message = NoEvent]
  <2>1. /\ c.sequence = records[slot[p]].sequence /\ c.header = records[slot[p]].header
    BY <1>t DEF Payloads
  <2>2. copied' = [copied EXCEPT ![p] = c]
    BY <1>6 DEF CopyHeader
  <2> HIDE DEF c
  <2> QED
    BY <1>6, <2>1, <2>2, <1>f, <1>t DEF CopyHeader
<1>7. CASE CopyMessage(p)
  <2> DEFINE c == [copied[p] EXCEPT !.message = records[slot[p]].message]
  <2>1. copied[p] \in Payloads /\ records[slot[p]] \in Payloads
    BY <1>t
  <2>2. /\ ipc[p] = "message" /\ copied' = [copied EXCEPT ![p] = c]
    BY <1>7 DEF CopyMessage
  <2>3. c = records[slot[p]]
    BY <2>1, <2>2 DEF Payloads
  <2> HIDE DEF c
  <2> QED
    BY <1>7, <2>2, <2>3, <1>f, <1>t DEF CopyMessage
<1>8. CASE JudgeSlot(p)
  <2>1. ipc[p] = "judge" /\ ToNextSlot(p, Judged(p))
    BY <1>8 DEF JudgeSlot
  <2>2. Judged(p).window > 0 /\ Judged(p) \in Snapshots
    <3>1. Judged(p) \in {[snap[p] EXCEPT !.empty = @ + 1], [snap[p] EXCEPT !.malformed = @ + 1],
                         [snap[p] EXCEPT !.after = @ + 1], snap[p],
                         [snap[p] EXCEPT !.entries =
                             AddToWindow(@, copied[p], snap[p].window)]}
      BY DEF Judged
    <3>2. snap[p] \in Snapshots /\ snap[p].window > 0
      BY <2>1, <1>t
    <3>3. Judged(p) \in Snapshots
      BY <2>1, JudgedType
    <3> QED
      BY <3>1, <3>2, <3>3 DEF Snapshots
  <2>3. \A t : t = Judged(p) \/ t = [Judged(p) EXCEPT !.status = StatusOf(Judged(p))] =>
                t.window = Judged(p).window
    BY <2>2 DEF Snapshots
  <2>4. /\ \A q \in Inspectors : q # p => commitWord'[q] = commitWord[q] /\ copied'[q] = copied[q]
    BY <1>8, <1>t DEF JudgeSlot
  <2> QED
    BY <2>1, <2>2, <2>3, <2>4, <1>f, <1>t, NextSlotFrame
<1> QED
  BY <1>1, <1>2, <1>3, <1>4, <1>5, <1>6, <1>7, <1>8 DEF InspectorStep, Inspect

-----------------------------------------------------------------------------
(* The window never holds a torn record.                                    *)

Genuine(rec) == \E r \in Reservations : ledger[r] # NoEvent /\ rec = Complete(r, ledger[r])

LEMMA NeverTornWriterStep ==
    ASSUME TypeOK, ReservationsUnique, NeverTorn, NEW w \in Writers, WriterStep(w)
    PROVE  NeverTorn'
<1>1. snap' = snap
  BY WriterFrame DEF inspectorVars
<1>2. ledger' = ledger \/ CommitSequence(w)
  BY DEF WriterStep, Advance, BeginWrite, Reserve, ClaimSlot, CheckSequence, GiveUp,
         CountDrop, MarkInProgress, StoreHeader, StoreMessage, ReleaseSlot
<1>3. ASSUME NEW r \in Reservations, ledger[r] # NoEvent
      PROVE  ledger'[r] = ledger[r]
  <2>1. CASE CommitSequence(w)
    <3>1. ledger' = [ledger EXCEPT ![Reservation(w)] = argument[w]] /\ wpc[w] = "commit"
      BY <2>1 DEF CommitSequence, WriterGoes
    <3>2. ledger[Reservation(w)] = NoEvent
      BY <3>1 DEF ReservationsUnique, HoldsReservation, OwningStages
    <3>3. ledger \in [Reservations -> Events \cup {NoEvent}]
      BY DEF TypeOK, WriterType
    <3> QED
      BY <1>3, <3>1, <3>2, <3>3
  <2> QED
    BY <1>2, <2>1
<1>4. ASSUME NEW rec, Genuine(rec) PROVE Genuine(rec)'
  <2>1. PICK r \in Reservations : ledger[r] # NoEvent /\ rec = Complete(r, ledger[r])
    BY <1>4 DEF Genuine
  <2> QED
    BY <2>1, <1>3 DEF Genuine, Complete, Committed
<1> QED
  BY <1>1, <1>4 DEF NeverTorn, Genuine

LEMMA NeverTornInspectorStep ==
    ASSUME TypeOK, ReservationsUnique, OneOwner, SettledSlots, InspectorsProgress, NeverTorn,
           NEW p \in Inspectors, InspectorStep(p)
    PROVE  NeverTorn'
<1>t. snap \in [Inspectors -> Snapshots]
  BY DEF TypeOK, InspectorType
<1>l. ledger' = ledger
  BY InspectorFrame DEF writerVars
<1> DEFINE Whole(s) == \A k \in 1 .. Len(s.entries) : Genuine(s.entries[k])
<1>0. /\ NeverTorn = \A q \in Inspectors : Whole(snap[q])
      /\ NeverTorn' = \A q \in Inspectors : Whole(snap'[q])
  BY <1>l DEF NeverTorn, Genuine, Complete, Committed
<1>1. ASSUME NEW s, Whole(s), snap' = [snap EXCEPT ![p] = s] PROVE NeverTorn'
  <2> HIDE DEF Whole
  <2> QED
    BY <1>0, <1>1, <1>t
<1>2. ASSUME NEW s, Whole(s), s \in Snapshots, ToNextSlot(p, s) PROVE NeverTorn'
  <2>1. Whole([s EXCEPT !.status = StatusOf(s)])
    BY <1>2 DEF Snapshots
  <2> HIDE DEF Whole
  <2> QED
    BY <1>1, <1>2, <2>1, NextSlotFrame
<1>3. CASE \E m \in Windows : BeginCapture(p, m)
  <2>1. PICK m \in Windows : BeginCapture(p, m)
    BY <1>3
  <2> DEFINE window == IF m > SnapshotBound THEN SnapshotBound ELSE m
             s == [EmptySnapshot(window) EXCEPT
                      !.highest = IF window = 0 THEN 0 ELSE lastReserved]
  <2>2. snap' = [snap EXCEPT ![p] = s]
    BY <2>1 DEF BeginCapture
  <2>3. s.entries = <<>>
    BY DEF EmptySnapshot
  <2> HIDE DEF s
  <2>4. Whole(s)
    BY <2>3, EmptySeq
  <2> QED
    BY <1>1, <2>2, <2>4
<1>4. CASE LoadDropped(p)
  <2> DEFINE s == [snap[p] EXCEPT !.dropped = dropped,
                      !.status = IF snap[p].highest = 0 THEN "empty" ELSE "valid"]
  <2>1. snap' = [snap EXCEPT ![p] = s]
    BY <1>4 DEF LoadDropped
  <2>2. s.entries = snap[p].entries
    BY <1>t DEF Snapshots
  <2> HIDE DEF s
  <2>3. Whole(s)
    BY <1>0, <2>2
  <2> QED
    BY <1>1, <2>1, <2>3
<1>5. CASE SkipBusySlot(p)
  <2> DEFINE s == [snap[p] EXCEPT !.busy = @ + 1]
  <2>1. ToNextSlot(p, s)
    BY <1>5 DEF SkipBusySlot
  <2>2. s.entries = snap[p].entries /\ s \in Snapshots
    <3>1. snap[p] \in Snapshots
      BY <1>t
    <3>2. s \in Snapshots
      BY <3>1, Receipt
    <3>3. s.entries = snap[p].entries
      BY <3>1 DEF Snapshots
    <3> QED
      BY <3>2, <3>3
  <2> HIDE DEF s
  <2>3. Whole(s)
    BY <1>0, <2>2
  <2> QED
    BY <1>2, <2>1, <2>2, <2>3
<1>6. CASE JudgeSlot(p)
  <2> DEFINE s == snap[p]
             new == AddToWindow(s.entries, copied[p], s.window)
  <2>1. ipc[p] = "judge" /\ ToNextSlot(p, Judged(p))
    BY <1>6 DEF JudgeSlot
  <2>2. Judged(p) \in Snapshots
    BY <2>1, JudgedType
  <2>3. \/ Judged(p).entries = s.entries
        \/ commitWord[p] # 0 /\ Judged(p).entries = new
    <3>1. \/ Judged(p) \in {[s EXCEPT !.empty = @ + 1], [s EXCEPT !.malformed = @ + 1],
                            [s EXCEPT !.after = @ + 1], s}
          \/ commitWord[p] # 0 /\ Judged(p) = [s EXCEPT !.entries = new]
      BY DEF Judged
    <3>2. s \in Snapshots
      BY <1>t
    <3> HIDE DEF s, new
    <3>3. /\ [s EXCEPT !.empty = @ + 1].entries = s.entries
          /\ [s EXCEPT !.malformed = @ + 1].entries = s.entries
          /\ [s EXCEPT !.after = @ + 1].entries = s.entries
          /\ [s EXCEPT !.entries = new].entries = new
      BY <3>2 DEF Snapshots
    <3> QED
      BY <3>1, <3>3
  <2>4. ASSUME commitWord[p] # 0 PROVE Genuine(copied[p])
    <3> DEFINE i == slot[p]
    <3>1. i \in Slots /\ InspectorOwns(p)
      BY <2>1 DEF TypeOK, InspectorType, InspectorOwns
    <3>2. \A w \in Writers : Writing(w) => Target(w) # i
      <4>1. \A w \in Writers : Writing(w) => WriterOwns(w)
        BY DEF Writing, WritingStages, WriterOwns, OwningStages
      <4> QED
        BY <3>1, <4>1, OwnersApart
    <3>3. commitWord[p] = sequences[i] /\ copied[p] = records[i]
      BY <2>1, <2>4 DEF InspectorsProgress
    <3>4. newest[i] # 0
      BY <2>4, <3>1, <3>2, <3>3 DEF SettledSlots
    <3>5. newest[i] \in Reservations
      BY <3>1, <3>4, WordAssumption DEF TypeOK, WriterType, SequenceNumbers, Reservations
    <3>6. ledger[newest[i]] # NoEvent /\ records[i] = Complete(newest[i], ledger[newest[i]])
      BY <3>1, <3>2, <3>4 DEF SettledSlots
    <3> QED
      BY <3>3, <3>5, <3>6 DEF Genuine
  <2>5. /\ s.entries \in Seq(Payloads) /\ copied[p] \in Payloads
        /\ s.window \in Nat \ {0} /\ Len(s.entries) <= s.window
    <3>1. s \in Snapshots /\ s.window > 0
      BY <2>1, <1>t DEF InspectorsProgress
    <3> QED
      BY <3>1, ReceiptWindow DEF TypeOK, InspectorType
  <2>6. \A k \in 1 .. Len(new) :
            new[k] = copied[p] \/ \E j \in 1 .. Len(s.entries) : new[k] = s.entries[j]
    BY <2>5, Window
  <2>7. Whole(s)
    BY <1>0
  <2> HIDE DEF s, new
  <2>8. Whole(Judged(p))
    BY <2>3, <2>4, <2>6, <2>7
  <2> QED
    BY <1>2, <2>1, <2>2, <2>8
<1>7. CASE snap' = snap
  BY <1>0, <1>7
<1> QED
  BY <1>3, <1>4, <1>5, <1>6, <1>7
     DEF InspectorStep, Inspect, InspectSlot, LoadSequence, CopyHeader, CopyMessage

-----------------------------------------------------------------------------
(* The inductive invariant.                                                 *)

Inv == TypeOK /\ ProtocolInv

LEMMA InitInv == Init => Inv
<1> SUFFICES ASSUME Init PROVE ProtocolInv
  BY InitType DEF Inv
<1>1. ReservationsUnique
  BY DEF Init, ReservationsUnique, HoldsReservation, OwningStages
<1>2. OneOwner
  BY DEF Init, OneOwner, WriterOwns, OwningStages, InspectorOwns
<1>3. SettledSlots
  BY DEF Init, SettledSlots
<1>4. WritersProgress
  BY DEF Init, WritersProgress, Writing, WritingStages
<1>5. InspectorsProgress
  BY DEF Init, InspectorsProgress
<1>6. NeverTorn
  BY EmptySeq DEF Init, NeverTorn, EmptySnapshot
<1> QED
  BY <1>1, <1>2, <1>3, <1>4, <1>5, <1>6 DEF ProtocolInv

LEMMA StepInv == Inv /\ [Next]_vars => Inv'
<1> SUFFICES ASSUME Inv, [Next]_vars PROVE Inv'
  OBVIOUS
<1> USE DEF Inv, ProtocolInv
<1>1. ASSUME NEW w \in Writers, WriterStep(w) PROVE Inv'
  <2>1. TypeOK'
    BY <1>1, WriterTypeStep DEF WriterStep
  <2>2. ReservationsUnique'
    BY <1>1, ReservationsStep
  <2>3. OneOwner'
    BY <1>1, OwnerWriterStep
  <2>4. SettledSlots'
    BY <1>1, SettledStep
  <2>5. WritersProgress'
    BY <1>1, WritersProgressStep
  <2>6. InspectorsProgress'
    BY <1>1, InspectorsProgressWriterStep
  <2>7. NeverTorn'
    BY <1>1, NeverTornWriterStep
  <2> QED
    BY <2>1, <2>2, <2>3, <2>4, <2>5, <2>6, <2>7
<1>2. ASSUME NEW p \in Inspectors, InspectorStep(p) PROVE Inv'
  <2>1. TypeOK'
    BY <1>2, InspectorTypeStep DEF InspectorStep
  <2>f. UNCHANGED <<writerVars, lastReserved, sequences, records>>
    BY <1>2, InspectorFrame
  <2>2. ReservationsUnique'
    BY <2>f DEF ReservationsUnique, HoldsReservation, Reservation, writerVars
  <2>3. OneOwner'
    BY <1>2, OwnerInspectorStep
  <2>4. SettledSlots'
    BY <2>f DEF SettledSlots, Writing, Target, Reservation, Complete, Committed, writerVars
  <2>5. WritersProgress'
    BY <2>f DEF WritersProgress, Writing, Target, Reservation, Committed, writerVars
  <2>6. InspectorsProgress'
    BY <1>2, InspectorsProgressStep
  <2>7. NeverTorn'
    BY <1>2, NeverTornInspectorStep
  <2> QED
    BY <2>1, <2>2, <2>3, <2>4, <2>5, <2>6, <2>7
<1>3. CASE UNCHANGED vars
  BY <1>3 DEF vars, ringVars, writerVars, inspectorVars, TypeOK, RingType, WriterType,
      InspectorType, ReservationsUnique, OneOwner, SettledSlots, WritersProgress,
      InspectorsProgress, NeverTorn, HoldsReservation, WriterOwns, Writing, InspectorOwns,
      Target, Reservation
<1> QED
  BY <1>1, <1>2, <1>3, NextIsStep

LEMMA InvHolds == Spec => []Inv
  BY InitInv, StepInv, PTL DEF Spec

\* Every variable keeps its type and no window outgrows what was asked for,
\* whatever threads call write() and capture_newest() (ring.hpp:65-260).
THEOREM TypeCorrect == Spec => []TypeOK
  BY InvHolds, PTL DEF Inv

\* The protocol's invariant: one owner per slot, one write per reservation, and
\* a committed word only over a whole payload (ring.hpp:81-122, 182-252).
THEOREM ProtocolCorrect == Spec => []ProtocolInv
  BY InvHolds, PTL DEF Inv

\* No snapshot ever presents a torn or foreign record (ring.hpp:126, 199-202).
THEOREM NoTornRecords == Spec => []NeverTorn
  BY InvHolds, PTL DEF Inv, ProtocolInv

-----------------------------------------------------------------------------
LEMMA StepNoRegress ==
    ASSUME Inv, [Next]_vars
    PROVE  \A i \in Slots : ReservationOf(sequences'[i]) >= ReservationOf(sequences[i])
<1> SUFFICES ASSUME NEW i \in Slots
             PROVE  ReservationOf(sequences'[i]) >= ReservationOf(sequences[i])
  OBVIOUS
<1> USE DEF Inv, ProtocolInv
<1>r. sequences \in [Slots -> Words] /\ newest \in [Slots -> SequenceNumbers]
  BY DEF TypeOK, RingType, WriterType
<1>1. CASE sequences'[i] = sequences[i]
  <2>1. sequences[i] \in Nat
    BY <1>r, WordAssumption DEF Words
  <2>2. \A n \in Nat : ReservationOf(n) >= ReservationOf(n)
    BY DEF ReservationOf
  <2> QED
    BY <1>1, <2>1, <2>2
<1>2. CASE sequences'[i] # sequences[i]
  <2>1. PICK w \in Writers : WriterStep(w)
    BY <1>2, NextIsStep, InspectorFrame DEF vars, ringVars
  <2>2. WriterOwns(w) /\ i = Target(w)
    BY <1>2, <2>1, WritesOwnSlot
  <2>3. MarkInProgress(w) \/ CommitSequence(w)
    BY <1>2, <2>1 DEF WriterStep, Advance, BeginWrite, Reserve, ClaimSlot, CheckSequence,
        GiveUp, CountDrop, StoreHeader, StoreMessage, ReleaseSlot, ringVars
  <2>4. /\ Reservation(w) \in Nat /\ Reservation(w) \in Reservations
        /\ Committed(Reservation(w)) = 2 * Reservation(w)
    BY <2>2, HeldReservation DEF WriterOwns, HoldsReservation, Reservations
  <2>5. CASE MarkInProgress(w)
    <3>1. /\ wpc[w] = "mark" /\ sequences'[i] = Committed(Reservation(w)) + 1
      BY <2>2, <2>5, <1>r DEF MarkInProgress, WriterGoes
    <3>2. newest[i] < Reservation(w) /\ newest[i] \in Nat
      BY <2>2, <3>1, <1>r DEF WritersProgress, SequenceNumbers
    <3>3. sequences[i] = 2 * newest[i]
      <4>1. \A v \in Writers : Writing(v) => v # w /\ WriterOwns(v)
        BY <3>1 DEF Writing, WritingStages, WriterOwns, OwningStages
      <4> QED
        BY <4>1, <2>2, OwnersApart DEF SettledSlots
    <3> QED
      BY <2>4, <3>1, <3>2, <3>3, WordParts
  <2>6. CASE CommitSequence(w)
    <3>1. /\ wpc[w] = "commit" /\ sequences'[i] = Committed(Reservation(w))
      BY <2>2, <2>6, <1>r DEF CommitSequence, WriterGoes
    <3>2. sequences[i] = Committed(Reservation(w)) + 1
      BY <2>2, <3>1 DEF WritersProgress, Writing, WritingStages
    <3> QED
      BY <2>4, <3>1, <3>2, WordParts
  <2> QED
    BY <2>3, <2>5, <2>6
<1> QED
  BY <1>1, <1>2

\* Delayed writers never roll a slot back to an older record (ring.hpp:93-99).
THEOREM SlotsOnlyAdvance == Spec => SlotNeverRegresses
<1>1. Inv /\ [Next]_vars =>
        [\A i \in Slots : ReservationOf(sequences'[i]) >= ReservationOf(sequences[i])]_vars
  BY StepNoRegress
<1> QED
  BY <1>1, InvHolds, PTL DEF Spec, SlotNeverRegresses

-----------------------------------------------------------------------------
(* Calls are bounded: each step of a thread inside one brings its return    *)
(* nearer, for every number of threads and slots.                           *)

\* The stages a writer passes, each with one that may come next.
Moves ==
    {<<"idle", "reserve">>, <<"reserve", "claim">>, <<"reserve", "drop">>,
     <<"claim", "check">>, <<"claim", "drop">>, <<"check", "giveup">>, <<"check", "mark">>,
     <<"giveup", "drop">>, <<"drop", "idle">>, <<"mark", "header">>,
     <<"header", "message">>, <<"message", "commit">>, <<"commit", "release">>,
     <<"release", "idle">>}

LEMMA MovesGetNearer ==
    ASSUME NEW from, NEW to, <<from, to>> \in Moves, from # "idle"
    PROVE  WriterStepsLeft[to] < WriterStepsLeft[from]
<1>1. /\ WriterStepsLeft["idle"] = 0 /\ WriterStepsLeft["reserve"] = 9
      /\ WriterStepsLeft["claim"] = 8 /\ WriterStepsLeft["check"] = 7
      /\ WriterStepsLeft["giveup"] = 2 /\ WriterStepsLeft["drop"] = 1
      /\ WriterStepsLeft["mark"] = 5 /\ WriterStepsLeft["header"] = 4
      /\ WriterStepsLeft["message"] = 3 /\ WriterStepsLeft["commit"] = 2
      /\ WriterStepsLeft["release"] = 1
  BY DEF WriterStepsLeft
<1> QED
  BY <1>1 DEF Moves

\* A writer's step moves it to a following stage, and moves nobody else.
LEMMA WriterMoves ==
    ASSUME NEW w \in Writers, WriterStep(w)
    PROVE  \E from, to : <<from, to>> \in Moves /\ WriterGoes(w, from, to)
<1> DEFINE Moved(from, to) == <<from, to>> \in Moves /\ WriterGoes(w, from, to)
<1>1. ASSUME NEW e \in Events, BeginWrite(w, e) PROVE Moved("idle", "reserve")
  BY <1>1 DEF BeginWrite, Moves
<1>2. CASE Reserve(w)
  <2>1. Moved("reserve", "claim") \/ Moved("reserve", "drop")
    BY <1>2 DEF Reserve, Moves
  <2> QED
    BY <2>1
<1>3. CASE ClaimSlot(w)
  <2>1. Moved("claim", "check") \/ Moved("claim", "drop")
    BY <1>3 DEF ClaimSlot, WhenBusy, Moves
  <2> QED
    BY <2>1
<1>4. CASE CheckSequence(w)
  <2>1. Moved("check", "giveup") \/ Moved("check", "mark")
    BY <1>4 DEF CheckSequence, Moves
  <2> QED
    BY <2>1
<1>5. GiveUp(w) => Moved("giveup", "drop")
  BY DEF GiveUp, AfterGiveUp, Moves
<1>6. CountDrop(w) => Moved("drop", "idle")
  BY DEF CountDrop, Returns, Moves
<1>7. MarkInProgress(w) => Moved("mark", "header")
  BY DEF MarkInProgress, Moves
<1>8. StoreHeader(w) => Moved("header", "message")
  BY DEF StoreHeader, Moves
<1>9. StoreMessage(w) => Moved("message", "commit")
  BY DEF StoreMessage, Moves
<1>10. CommitSequence(w) => Moved("commit", "release")
  BY DEF CommitSequence, Moves
<1>11. ReleaseSlot(w) => Moved("release", "idle")
  BY DEF ReleaseSlot, Returns, Moves
<1> HIDE DEF Moved
<1>12. \A from, to : Moved(from, to) =>
          \E f, t : <<f, t>> \in Moves /\ WriterGoes(w, f, t)
  BY DEF Moved
<1> QED
  BY <1>1, <1>2, <1>3, <1>4, <1>5, <1>6, <1>7, <1>8, <1>9, <1>10, <1>11, <1>12
     DEF WriterStep, Advance

Nearer(p) == InspectorStepsLeft(ipc'[p], slot'[p]) < InspectorStepsLeft(ipc[p], slot[p])

\* Moving on to the next slot, or out of the loop, from any stage at a slot.
LEMMA NextSlotIsNearer ==
    ASSUME TypeOK, NEW p \in Inspectors, NEW s, ToNextSlot(p, s),
           ipc[p] \in {"claim", "judge"}
    PROVE  Nearer(p)
<1>1. /\ slot[p] \in Nat /\ slot[p] < Capacity /\ Capacity \in Nat
      /\ ipc \in [Inspectors -> InspectorStages] /\ slot \in [Inspectors -> Slots]
  BY CapacityAssumption DEF TypeOK, InspectorType, Slots
<1>2. CASE slot[p] + 1 < Capacity
  <2>1. ipc'[p] = "claim" /\ slot'[p] = slot[p] + 1
    BY <1>1, <1>2 DEF ToNextSlot
  <2> QED
    BY <1>1, <2>1 DEF Nearer, InspectorStepsLeft, StepsAtSlot
<1>3. CASE ~ (slot[p] + 1 < Capacity)
  <2>1. ipc'[p] = "idle"
    BY <1>1, <1>3 DEF ToNextSlot
  <2> QED
    BY <1>1, <2>1 DEF Nearer, InspectorStepsLeft, StepsAtSlot
<1> QED
  BY <1>2, <1>3

\* A pass starts at the first slot.
StartsAtFirst == \A p \in Inspectors : ipc[p] \in {"idle", "dropped"} => slot[p] = 0

LEMMA InspectorNearer ==
    ASSUME TypeOK, StartsAtFirst, NEW p \in Inspectors, Inspect(p)
    PROVE  Nearer(p)
<1>1. /\ slot[p] \in Nat /\ slot[p] < Capacity /\ Capacity \in Nat
      /\ ipc \in [Inspectors -> InspectorStages] /\ slot \in [Inspectors -> Slots]
  BY CapacityAssumption DEF TypeOK, InspectorType, Slots
<1> USE DEF InspectorGoes, InspectorStepsLeft, StepsAtSlot
<1>2. CASE LoadDropped(p)
  <2>1. ipc[p] = "dropped" /\ slot[p] = 0 /\ slot'[p] = 0 /\ ipc'[p] \in {"idle", "claim"}
    BY <1>1, <1>2 DEF LoadDropped, StartsAtFirst
  <2> QED
    BY <1>1, <2>1 DEF Nearer
<1>3. CASE InspectSlot(p)
  <2>1. ipc[p] = "claim" /\ ipc'[p] = "load" /\ slot'[p] = slot[p]
    BY <1>1, <1>3 DEF InspectSlot
  <2> QED
    BY <1>1, <2>1 DEF Nearer
<1>4. CASE SkipBusySlot(p)
  BY <1>4, NextSlotIsNearer DEF SkipBusySlot
<1>5. CASE LoadSequence(p)
  <2>1. ipc[p] = "load" /\ ipc'[p] \in {"judge", "header"} /\ slot'[p] = slot[p]
    BY <1>1, <1>5 DEF LoadSequence
  <2> QED
    BY <1>1, <2>1 DEF Nearer
<1>6. CASE CopyHeader(p)
  <2>1. ipc[p] = "header" /\ ipc'[p] = "message" /\ slot'[p] = slot[p]
    BY <1>1, <1>6 DEF CopyHeader
  <2> QED
    BY <1>1, <2>1 DEF Nearer
<1>7. CASE CopyMessage(p)
  <2>1. ipc[p] = "message" /\ ipc'[p] = "judge" /\ slot'[p] = slot[p]
    BY <1>1, <1>7 DEF CopyMessage
  <2> QED
    BY <1>1, <2>1 DEF Nearer
<1>8. CASE JudgeSlot(p)
  BY <1>8, NextSlotIsNearer DEF JudgeSlot
<1> QED
  BY <1>2, <1>3, <1>4, <1>5, <1>6, <1>7, <1>8 DEF Inspect

\* An inspector's step leaves the other inspectors where they are.
LEMMA InspectorMovesAlone ==
    ASSUME TypeOK, NEW p \in Inspectors, InspectorStep(p), NEW q \in Inspectors, q # p
    PROVE  ipc'[q] = ipc[q] /\ slot'[q] = slot[q]
<1>1. ipc \in [Inspectors -> InspectorStages] /\ slot \in [Inspectors -> Slots]
  BY DEF TypeOK, InspectorType
<1> QED
  BY <1>1 DEF InspectorStep, Inspect, InspectorGoes, BeginCapture, LoadDropped, InspectSlot,
      SkipBusySlot, ToNextSlot, LoadSequence, CopyHeader, CopyMessage, JudgeSlot

LEMMA StartsAtFirstStep ==
    ASSUME TypeOK, StartsAtFirst, [Next]_vars
    PROVE  StartsAtFirst'
<1>1. ipc \in [Inspectors -> InspectorStages] /\ slot \in [Inspectors -> Slots]
  BY DEF TypeOK, InspectorType
<1>2. CASE UNCHANGED <<ipc, slot>>
  BY <1>2 DEF StartsAtFirst
<1>3. ASSUME NEW p \in Inspectors, InspectorStep(p) PROVE StartsAtFirst'
  <2>1. ipc'[p] \in {"idle", "dropped"} => slot'[p] = 0
    BY <1>1, <1>3 DEF InspectorStep, Inspect, InspectorGoes, BeginCapture, LoadDropped,
        InspectSlot, SkipBusySlot, ToNextSlot, LoadSequence, CopyHeader, CopyMessage,
        JudgeSlot, StartsAtFirst
  <2> QED
    BY <1>3, <2>1, InspectorMovesAlone DEF StartsAtFirst
<1>4. ASSUME NEW w \in Writers, WriterStep(w) PROVE StartsAtFirst'
  BY <1>2, <1>4, WriterFrame DEF inspectorVars
<1> QED
  BY <1>2, <1>3, <1>4, NextIsStep DEF vars, inspectorVars

Progress ==
    /\ \A w \in Writers : wpc[w] # "idle" =>
          wpc'[w] = wpc[w] \/ WriterStepsLeft[wpc'[w]] < WriterStepsLeft[wpc[w]]
    /\ \A p \in Inspectors : ipc[p] # "idle" =>
          (ipc'[p] = ipc[p] /\ slot'[p] = slot[p]) \/ Nearer(p)

LEMMA NextIsProgress ==
    ASSUME TypeOK, StartsAtFirst, Next
    PROVE  Progress
<1>1. wpc \in [Writers -> WriterStages]
  BY DEF TypeOK, WriterType
<1>2. ASSUME NEW w \in Writers, WriterStep(w) PROVE Progress
  <2>1. PICK from, to : /\ <<from, to>> \in Moves
                        /\ wpc[w] = from /\ wpc' = [wpc EXCEPT ![w] = to]
    BY <1>2, WriterMoves DEF WriterGoes
  <2>2. ASSUME NEW v \in Writers, wpc[v] # "idle"
        PROVE  wpc'[v] = wpc[v] \/ WriterStepsLeft[wpc'[v]] < WriterStepsLeft[wpc[v]]
    <3>1. CASE v = w
      BY <1>1, <2>1, <2>2, <3>1, MovesGetNearer
    <3>2. CASE v # w
      BY <1>1, <2>1, <3>2
    <3> QED
      BY <3>1, <3>2
  <2>3. ipc' = ipc /\ slot' = slot
    BY <1>2, WriterFrame DEF inspectorVars
  <2> QED
    BY <2>2, <2>3 DEF Progress
<1>3. ASSUME NEW p \in Inspectors, InspectorStep(p) PROVE Progress
  <2>1. wpc' = wpc
    BY <1>3, InspectorFrame DEF writerVars
  <2>2. ipc[p] # "idle" => Nearer(p)
    BY <1>3, InspectorNearer DEF InspectorStep, BeginCapture
  <2> QED
    BY <1>3, <2>1, <2>2, InspectorMovesAlone DEF Progress
<1> QED
  BY <1>2, <1>3, NextIsStep

\* A call of write() or capture_newest() ends within a number of the caller's own
\* steps, whatever the other threads do (ring.hpp:65-68, 178-179).
THEOREM CallsAreBounded == Spec => EachStepIsProgress
<1>1. Init => StartsAtFirst
  BY DEF Init, StartsAtFirst
<1>2. TypeOK /\ StartsAtFirst /\ [Next]_vars => StartsAtFirst'
  BY StartsAtFirstStep
<1>3. TypeOK /\ StartsAtFirst /\ [Next]_vars => [Progress]_vars
  BY NextIsProgress
<1>4. [Progress]_vars <=>
        [/\ \A w \in Writers : wpc[w] # "idle" =>
              wpc'[w] = wpc[w] \/ WriterStepsLeft[wpc'[w]] < WriterStepsLeft[wpc[w]]
         /\ \A p \in Inspectors : ipc[p] # "idle" =>
              \/ ipc'[p] = ipc[p] /\ slot'[p] = slot[p]
              \/ InspectorStepsLeft(ipc'[p], slot'[p]) < InspectorStepsLeft(ipc[p], slot[p])
        ]_vars
  BY DEF Progress, Nearer
<1> QED
  BY <1>1, <1>2, <1>3, <1>4, TypeCorrect, PTL DEF Spec, EachStepIsProgress

-----------------------------------------------------------------------------
(* Every call of write() is running, committed or counted.                  *)

Taken == {r \in Reservations : ledger[r] # NoEvent}
Flying == {w \in Writers : wpc[w] \notin {"idle", "release"}}
CountInv == IsFiniteSet(Flying) /\ EveryWriteCounted

LEMMA TakenIsFinite == IsFiniteSet(Taken) /\ Cardinality(Taken) \in Nat
<1>1. IsFiniteSet(Reservations)
  BY WordAssumption, FS_Interval DEF Reservations
<1>2. IsFiniteSet(Taken)
  BY <1>1, FS_Subset DEF Taken
<1> QED
  BY <1>2, FS_CardinalityType

LEMMA CountWriterStep ==
    ASSUME TypeOK, ReservationsUnique, WritersProgress, CountInv,
           NEW w \in Writers, WriterStep(w)
    PROVE  CountInv'
<1> DEFINE taken == Cardinality(Taken)
           flying == Cardinality(Flying)
<1>1. /\ wpc \in [Writers -> WriterStages] /\ expected \in [Writers -> SequenceNumbers]
      /\ ledger \in [Reservations -> Events \cup {NoEvent}]
      /\ started \in Nat /\ dropped \in Nat
  BY DEF TypeOK, RingType, WriterType
<1>2. /\ IsFiniteSet(Flying) /\ taken \in Nat /\ flying \in Nat
      /\ started = taken + dropped + flying
  BY TakenIsFinite, FS_CardinalityType
     DEF CountInv, EveryWriteCounted, CommittedCount, InFlight, Taken, Flying
<1>3. ASSUME IsFiniteSet(Flying'), started' = Cardinality(Taken') + dropped' + Cardinality(Flying')
      PROVE  CountInv'
  BY <1>3 DEF CountInv, EveryWriteCounted, CommittedCount, InFlight, Taken, Flying
<1>4. ASSUME NEW e \in Events, BeginWrite(w, e) PROVE CountInv'
  <2>1. w \notin Flying /\ Flying' = Flying \cup {w}
    BY <1>1, <1>4 DEF BeginWrite, WriterGoes, Flying
  <2>2. Taken' = Taken /\ dropped' = dropped /\ started' = started + 1
    BY <1>4 DEF BeginWrite, ringVars, Taken
  <2>3. IsFiniteSet(Flying') /\ Cardinality(Flying') = flying + 1
    BY <1>2, <2>1, FS_AddElement
  <2> HIDE DEF taken, flying
  <2>4. started' = taken + dropped + (flying + 1)
    BY <1>1, <1>2, <2>2
  <2> QED
    BY <1>3, <2>2, <2>3, <2>4 DEF taken
<1>5. CASE CountDrop(w)
  <2>1. w \in Flying /\ Flying' = Flying \ {w}
    BY <1>1, <1>5 DEF CountDrop, Returns, WriterGoes, Flying
  <2>2. Taken' = Taken /\ dropped' = dropped + 1 /\ started' = started
    BY <1>5 DEF CountDrop, Taken
  <2>3. IsFiniteSet(Flying') /\ Cardinality(Flying') = flying - 1
    BY <1>2, <2>1, FS_RemoveElement
  <2> HIDE DEF taken, flying
  <2>4. started' = taken + (dropped + 1) + (flying - 1)
    BY <1>1, <1>2, <2>2
  <2> QED
    BY <1>3, <2>2, <2>3, <2>4 DEF taken
<1>6. CASE CommitSequence(w)
  <2> DEFINE r == Reservation(w)
  <2>1. wpc[w] = "commit" /\ w \in Flying /\ Flying' = Flying \ {w}
    BY <1>1, <1>6 DEF CommitSequence, WriterGoes, Flying
  <2>2. r \in Reservations /\ ledger[r] = NoEvent /\ argument[w] # NoEvent
    BY <2>1, HeldReservation, EventAssumption
       DEF ReservationsUnique, WritersProgress, HoldsReservation, OwningStages
  <2>3. /\ ledger' = [ledger EXCEPT ![r] = argument[w]]
        /\ dropped' = dropped /\ started' = started
    BY <1>6 DEF CommitSequence
  <2> HIDE DEF r
  <2>4. r \notin Taken /\ Taken' = Taken \cup {r}
    BY <1>1, <2>2, <2>3 DEF Taken
  <2>5. Cardinality(Taken') = taken + 1
    BY <2>4, TakenIsFinite, FS_AddElement
  <2>6. IsFiniteSet(Flying') /\ Cardinality(Flying') = flying - 1
    BY <1>2, <2>1, FS_RemoveElement
  <2> HIDE DEF taken, flying
  <2>7. started' = (taken + 1) + dropped + (flying - 1)
    BY <1>1, <1>2, <2>3
  <2> QED
    BY <1>3, <2>3, <2>5, <2>6, <2>7
<1>7. CASE Flying' = Flying /\ UNCHANGED <<ledger, dropped, started>>
  <2>1. Taken' = Taken
    BY <1>7 DEF Taken
  <2> QED
    BY <1>2, <1>3, <1>7, <2>1
<1>8. ASSUME NEW from \in WriterStages \ {"idle", "release"},
             NEW to \in WriterStages \ {"idle", "release"}, WriterGoes(w, from, to)
      PROVE  Flying' = Flying
  BY <1>1, <1>8 DEF WriterGoes, Flying
<1>9. CASE ReleaseSlot(w)
  BY <1>1, <1>7, <1>9 DEF ReleaseSlot, Returns, WriterGoes, Flying
<1>10. CASE \/ Reserve(w) \/ ClaimSlot(w) \/ CheckSequence(w) \/ GiveUp(w)
            \/ MarkInProgress(w) \/ StoreHeader(w) \/ StoreMessage(w)
  <2>1. \E from, to \in WriterStages \ {"idle", "release"} : WriterGoes(w, from, to)
    BY <1>10 DEF Reserve, ClaimSlot, WhenBusy, CheckSequence, GiveUp, AfterGiveUp,
        MarkInProgress, StoreHeader, StoreMessage, WriterStages
  <2>2. UNCHANGED <<ledger, dropped, started>>
    BY <1>10 DEF Reserve, ClaimSlot, CheckSequence, GiveUp, MarkInProgress, StoreHeader,
        StoreMessage, ringVars
  <2> QED
    BY <1>7, <1>8, <2>1, <2>2
<1> QED
  BY <1>4, <1>5, <1>6, <1>9, <1>10 DEF WriterStep, Advance

\* However writers collide, are overtaken or meet saturation, each call of write() ends as
\* exactly one committed record or one counted drop (ring.hpp:77, 89, 97).
THEOREM WritesAreCounted == Spec => []EveryWriteCounted
<1>1. Init => CountInv
  <2> SUFFICES ASSUME Init PROVE CountInv
    OBVIOUS
  <2>1. Taken = {} /\ Flying = {} /\ started = 0 /\ dropped = 0
    BY DEF Init, Taken, Flying
  <2>2. IsFiniteSet({}) /\ Cardinality({}) = 0
    BY FS_EmptySet
  <2> QED
    BY <2>1, <2>2 DEF CountInv, EveryWriteCounted, CommittedCount, InFlight, Taken, Flying
<1>2. Inv /\ CountInv /\ [Next]_vars => CountInv'
  <2> SUFFICES ASSUME Inv, CountInv, [Next]_vars PROVE CountInv'
    OBVIOUS
  <2> USE DEF CountInv, EveryWriteCounted, CommittedCount, InFlight, Flying
  <2>1. ASSUME NEW w \in Writers, WriterStep(w) PROVE CountInv'
    BY <2>1, CountWriterStep DEF Inv, ProtocolInv
  <2>2. ASSUME NEW p \in Inspectors, InspectorStep(p) PROVE CountInv'
    BY <2>2, InspectorFrame DEF writerVars
  <2>3. CASE UNCHANGED vars
    BY <2>3 DEF vars, ringVars, writerVars
  <2> QED
    BY <2>1, <2>2, <2>3, NextIsStep
<1>3. CountInv => EveryWriteCounted
  BY DEF CountInv
<1> QED
  BY <1>1, <1>2, <1>3, InvHolds, PTL DEF Spec

-----------------------------------------------------------------------------
(* Insertion into an ordered window.                                        *)

Descending(entries) ==
    \A j, k \in 1 .. Len(entries) : j < k => entries[j].sequence > entries[k].sequence

LEMMA InsertionKeepsOrder ==
    ASSUME NEW entries \in Seq(Payloads), Descending(entries), NEW rec \in Payloads,
           \A k \in 1 .. Len(entries) : entries[k].sequence # rec.sequence
    PROVE  Descending(InsertNewestFirst(entries, rec))
<1> DEFINE n == Len(entries)
           Keeps(k) == \E j \in k .. n : entries[j].sequence >= rec.sequence
           new == InsertNewestFirst(entries, rec)
<1>1. new = [k \in 1 .. n + 1 |->
                IF Keeps(k) THEN entries[k]
                ELSE IF k = 1 \/ Keeps(k - 1) THEN rec ELSE entries[k - 1]]
  BY DEF InsertNewestFirst
<1>2. Len(new) = n + 1 /\ n \in Nat
  BY Insertion
<1>3. rec.sequence \in Int /\ \A k \in 1 .. n : entries[k].sequence \in Int
  <2>1. \A x \in Payloads : x.sequence \in Int
    BY WordAssumption DEF Payloads
  <2> QED
    BY <2>1
<1>4. \A k \in 1 .. n : Keeps(k) <=> entries[k].sequence > rec.sequence
  <2>1. ASSUME NEW k \in 1 .. n, Keeps(k) PROVE entries[k].sequence > rec.sequence
    <3>1. PICK j \in k .. n : entries[j].sequence >= rec.sequence
      BY <2>1
    <3>2. j \in 1 .. n /\ (j = k \/ k < j)
      BY <1>2
    <3>3. entries[k].sequence >= entries[j].sequence
      BY <3>2, <1>3 DEF Descending
    <3> QED
      BY <3>1, <3>2, <3>3, <1>3
  <2>2. ASSUME NEW k \in 1 .. n, entries[k].sequence > rec.sequence PROVE Keeps(k)
    BY <1>2, <1>3, <2>2
  <2> QED
    BY <2>1, <2>2
<1>5. ~ Keeps(n + 1)
  BY <1>2
<1> HIDE DEF Keeps, new
\* Before its place stands what is newer, behind it what is older.
<1>6. ASSUME NEW k \in 1 .. n + 1
      PROVE  \/ k \in 1 .. n /\ Keeps(k) /\ new[k] = entries[k]
             \/ ~ Keeps(k) /\ (k = 1 \/ Keeps(k - 1)) /\ new[k] = rec
             \/ k - 1 \in 1 .. n /\ ~ Keeps(k) /\ ~ Keeps(k - 1) /\ new[k] = entries[k - 1]
  BY <1>1, <1>2, <1>5
<1>7. ASSUME NEW j \in 1 .. n + 1, NEW k \in 1 .. n + 1, j < k
      PROVE  new[j].sequence > new[k].sequence
  <2>0. j \in 1 .. n /\ k - 1 \in 1 .. n /\ j \in Int /\ k \in Int
    BY <1>2, <1>7
  <2>1. CASE Keeps(j) /\ new[j] = entries[j]
    <3>1. CASE k \in 1 .. n /\ Keeps(k) /\ new[k] = entries[k]
      BY <2>0, <2>1, <3>1, <1>7 DEF Descending
    <3>2. CASE new[k] = rec
      BY <2>0, <2>1, <3>2, <1>4
    <3>3. CASE ~ Keeps(k - 1) /\ new[k] = entries[k - 1]
      <4>1. j # k - 1
        BY <2>1, <3>3
      <4> QED
        BY <2>0, <2>1, <3>3, <4>1, <1>7 DEF Descending
    <3> QED
      BY <1>6, <3>1, <3>2, <3>3
  <2>2. ASSUME ~ Keeps(j) PROVE new[k] = entries[k - 1] /\ ~ Keeps(k - 1)
    <3>1. ~ Keeps(k - 1)
      <4>1. CASE j = k - 1
        BY <2>2, <4>1
      <4>2. CASE j < k - 1
        <5>1. entries[j].sequence > entries[k - 1].sequence
          BY <2>0, <4>2 DEF Descending
        <5>2. ~ (entries[j].sequence > rec.sequence)
          BY <2>0, <2>2, <1>4
        <5>3. ~ (entries[k - 1].sequence > rec.sequence)
          BY <2>0, <1>3, <5>1, <5>2
        <5> QED
          BY <2>0, <1>4, <5>3
      <4> QED
        BY <2>0, <1>7, <4>1, <4>2
    <3>2. ~ Keeps(k)
      <4>1. CASE k = n + 1
        BY <4>1, <1>5
      <4>2. CASE k \in 1 .. n
        <5>1. entries[k - 1].sequence > entries[k].sequence
          BY <2>0, <4>2 DEF Descending
        <5>2. ~ (entries[k - 1].sequence > rec.sequence)
          BY <2>0, <3>1, <1>4
        <5>3. ~ (entries[k].sequence > rec.sequence)
          BY <2>0, <1>3, <4>2, <5>1, <5>2
        <5> QED
          BY <4>2, <1>4, <5>3
      <4> QED
        BY <1>2, <4>1, <4>2
    <3>3. k # 1
      BY <2>0, <1>7
    <3> QED
      BY <3>1, <3>2, <3>3, <1>6
  <2>3. CASE ~ Keeps(j) /\ new[j] = rec
    <3>1. new[k] = entries[k - 1] /\ ~ Keeps(k - 1)
      BY <2>2, <2>3
    <3>2. ~ (entries[k - 1].sequence > rec.sequence)
      BY <2>0, <3>1, <1>4
    <3>3. entries[k - 1].sequence # rec.sequence
      BY <2>0
    <3> QED
      BY <2>0, <2>3, <3>1, <3>2, <3>3, <1>3
  <2>4. CASE j - 1 \in 1 .. n /\ ~ Keeps(j) /\ new[j] = entries[j - 1]
    <3>1. new[k] = entries[k - 1]
      BY <2>2, <2>4
    <3> QED
      BY <2>0, <2>4, <3>1, <1>7 DEF Descending
  <2> QED
    BY <1>6, <2>1, <2>3, <2>4
<1> QED
  BY <1>2, <1>7 DEF Descending, new

LEMMA WindowKeepsOrder ==
    ASSUME NEW entries \in Seq(Payloads), Descending(entries), NEW rec \in Payloads,
           NEW window \in Nat \ {0}, Len(entries) <= window,
           \A k \in 1 .. Len(entries) : entries[k].sequence # rec.sequence
    PROVE  Descending(AddToWindow(entries, rec, window))
<1>1. CASE Len(entries) < window
  BY <1>1, InsertionKeepsOrder DEF AddToWindow
<1>2. CASE Len(entries) = window
  <2> DEFINE front == Front(entries)
  <2>1. /\ front \in Seq(Payloads) /\ Len(front) = Len(entries) - 1
        /\ \A k \in 1 .. Len(front) : front[k] = entries[k]
    BY <1>2, SubSeqProperties DEF Front
  <2>2. AddToWindow(entries, rec, window) \in {entries, InsertNewestFirst(front, rec)}
    BY <1>2 DEF AddToWindow
  <2> HIDE DEF front
  <2>3. Descending(front) /\ \A k \in 1 .. Len(front) : front[k].sequence # rec.sequence
    BY <2>1 DEF Descending
  <2> QED
    BY <2>1, <2>2, <2>3, InsertionKeepsOrder
<1> QED
  BY <1>1, <1>2

-----------------------------------------------------------------------------
(* The records of a window come from slots the pass has left behind.        *)

InLoop == {"claim", "load", "header", "message", "judge"}
From(rec) == SlotOf(ReservationOf(rec.sequence))
Behind(s, i) == \A k \in 1 .. Len(s.entries) : From(s.entries[k]) < i
InOrder(s, pc, i) ==
    /\ Descending(s.entries)
    /\ pc = "dropped" => s.entries = <<>>
    /\ pc \in InLoop => Behind(s, i)
OrderInv == \A p \in Inspectors : InOrder(snap[p], ipc[p], slot[p])

LEMMA EmptyInOrder ==
    ASSUME NEW s, s.entries = <<>>, NEW pc, NEW i
    PROVE  InOrder(s, pc, i)
  BY EmptySeq DEF InOrder, Descending, Behind

LEMMA PayloadFrom ==
    ASSUME NEW rec \in Payloads
    PROVE  From(rec) \in Int
<1>1. \A y \in Int, m \in Nat \ {0} : y % m \in Int
  OBVIOUS
<1>2. \A x \in Nat : ReservationOf(x) - 1 \in Int
  BY DEF ReservationOf
<1>3. rec.sequence \in Nat
  BY WordAssumption DEF Payloads
<1> QED
  BY <1>1, <1>2, <1>3, CapacityAssumption DEF SlotOf, From

\* Moving on from a slot with a receipt that is ordered and looked no further.
LEMMA NextSlotInOrder ==
    ASSUME TypeOK, NEW p \in Inspectors, NEW s \in Snapshots, ToNextSlot(p, s),
           Descending(s.entries),
           \A k \in 1 .. Len(s.entries) : From(s.entries[k]) <= slot[p],
           \A k \in 1 .. Len(s.entries) : From(s.entries[k]) \in Int
    PROVE  InOrder(snap'[p], ipc'[p], slot'[p])
<1>1. /\ slot[p] \in Int /\ snap \in [Inspectors -> Snapshots]
      /\ ipc \in [Inspectors -> InspectorStages] /\ slot \in [Inspectors -> Slots]
  BY CapacityAssumption DEF TypeOK, InspectorType, Slots
<1> DEFINE t == [s EXCEPT !.status = StatusOf(s)]
<1>2. t.entries = s.entries
  BY DEF Snapshots
<1> HIDE DEF t
<1>3. CASE slot[p] + 1 < Capacity
  <2>1. snap'[p] = s /\ ipc'[p] = "claim" /\ slot'[p] = slot[p] + 1
    BY <1>1, <1>3 DEF ToNextSlot
  <2>2. Behind(s, slot[p] + 1)
    BY <1>1 DEF Behind
  <2> QED
    BY <2>1, <2>2 DEF InOrder
<1>4. CASE ~ (slot[p] + 1 < Capacity)
  <2>1. snap'[p] = t /\ ipc'[p] = "idle"
    BY <1>1, <1>4 DEF ToNextSlot, t
  <2> QED
    BY <1>2, <2>1 DEF InOrder, InLoop
<1> QED
  BY <1>3, <1>4

\* What a pass judged valid comes from the slot it is at.
LEMMA JudgedInOrder ==
    ASSUME TypeOK, InspectorsProgress, OrderInv, NEW p \in Inspectors, ipc[p] = "judge"
    PROVE  /\ Descending(Judged(p).entries)
           /\ \A k \in 1 .. Len(Judged(p).entries) :
                 From(Judged(p).entries[k]) \in Int /\ From(Judged(p).entries[k]) <= slot[p]
<1> DEFINE s == snap[p]
           new == AddToWindow(s.entries, copied[p], s.window)
<1>1. /\ s \in Snapshots /\ s.entries \in Seq(Payloads) /\ copied[p] \in Payloads
      /\ s.window \in Nat \ {0} /\ Len(s.entries) <= s.window
  <2>1. s \in Snapshots /\ s.window > 0
    BY DEF TypeOK, InspectorType, InspectorsProgress
  <2> QED
    BY <2>1, ReceiptWindow DEF TypeOK, InspectorType
<1>2. Descending(s.entries) /\ Behind(s, slot[p]) /\ slot[p] \in Int
  BY CapacityAssumption DEF OrderInv, InOrder, InLoop, TypeOK, InspectorType, Slots
<1>3. \A rec \in Payloads : From(rec) \in Int
  BY PayloadFrom
<1>4. \/ Judged(p).entries = s.entries
      \/ IsValid(p) /\ Judged(p).entries = new
  <2>1. \/ Judged(p) \in {[s EXCEPT !.empty = @ + 1], [s EXCEPT !.malformed = @ + 1],
                          [s EXCEPT !.after = @ + 1], s}
        \/ IsValid(p) /\ Judged(p) = [s EXCEPT !.entries = new]
    BY DEF Judged
  <2> HIDE DEF s, new
  <2>2. /\ [s EXCEPT !.empty = @ + 1].entries = s.entries
        /\ [s EXCEPT !.malformed = @ + 1].entries = s.entries
        /\ [s EXCEPT !.after = @ + 1].entries = s.entries
        /\ [s EXCEPT !.entries = new].entries = new
    BY <1>1 DEF Snapshots
  <2> QED
    BY <2>1, <2>2
<1>5. CASE Judged(p).entries = s.entries
  <2> HIDE DEF s
  <2>1. \A k \in 1 .. Len(s.entries) : s.entries[k] \in Payloads
    BY <1>1
  <2> QED
    BY <1>1, <1>2, <1>3, <1>5, <2>1 DEF Behind
<1>6. CASE IsValid(p) /\ Judged(p).entries = new
  <2>1. From(copied[p]) = slot[p]
    BY <1>6 DEF IsValid, From
  <2> HIDE DEF s
  <2>2. \A k \in 1 .. Len(s.entries) : s.entries[k] \in Payloads
    BY <1>1
  <2>3. \A k \in 1 .. Len(s.entries) : s.entries[k].sequence # copied[p].sequence
    BY <1>2, <1>3, <2>1, <2>2 DEF Behind, From
  <2>4. Descending(new)
    BY <1>1, <1>2, <2>3, WindowKeepsOrder
  <2>5. \A k \in 1 .. Len(new) :
            new[k] = copied[p] \/ \E j \in 1 .. Len(s.entries) : new[k] = s.entries[j]
    BY <1>1, Window
  <2> HIDE DEF new
  <2>6. \A k \in 1 .. Len(new) : From(new[k]) \in Int /\ From(new[k]) <= slot[p]
    BY <1>1, <1>2, <1>3, <2>1, <2>2, <2>5 DEF Behind
  <2> QED
    BY <1>6, <2>4, <2>6
<1> QED
  BY <1>4, <1>5, <1>6

LEMMA InspectorInOrder ==
    ASSUME TypeOK, InspectorsProgress, OrderInv, NEW p \in Inspectors, InspectorStep(p)
    PROVE  InOrder(snap'[p], ipc'[p], slot'[p])
<1>1. /\ snap \in [Inspectors -> Snapshots] /\ ipc \in [Inspectors -> InspectorStages]
      /\ slot \in [Inspectors -> Slots] /\ InOrder(snap[p], ipc[p], slot[p])
  BY DEF TypeOK, InspectorType, OrderInv
<1>2. CASE \E m \in Windows : BeginCapture(p, m)
  <2>1. snap'[p].entries = <<>>
    BY <1>1, <1>2 DEF BeginCapture, EmptySnapshot
  <2> QED
    BY <2>1, EmptyInOrder
<1>3. CASE LoadDropped(p)
  <2>1. ipc[p] = "dropped" /\ snap'[p].entries = snap[p].entries
    BY <1>1, <1>3 DEF LoadDropped, InspectorGoes, Snapshots
  <2> QED
    BY <1>1, <2>1, EmptyInOrder DEF InOrder
<1>4. CASE InspectSlot(p) \/ LoadSequence(p) \/ CopyHeader(p) \/ CopyMessage(p)
  <2>1. /\ snap' = snap /\ slot' = slot /\ ipc[p] \in InLoop
        /\ ipc'[p] \in {"load", "header", "message", "judge"}
    BY <1>1, <1>4 DEF InspectSlot, LoadSequence, CopyHeader, CopyMessage, InspectorGoes,
        InLoop
  <2> QED
    BY <1>1, <2>1 DEF InOrder, InLoop
<1>5. CASE SkipBusySlot(p)
  <2> DEFINE s == [snap[p] EXCEPT !.busy = @ + 1]
  <2>1. ipc[p] = "claim" /\ ToNextSlot(p, s)
    BY <1>5 DEF SkipBusySlot
  <2>2. snap[p] \in Snapshots
    BY <1>1
  <2>3. s \in Snapshots
    BY <2>2, Receipt
  <2>4. s.entries = snap[p].entries
    BY <2>2 DEF Snapshots
  <2> HIDE DEF s
  <2>5. Descending(s.entries) /\ Behind(s, slot[p]) /\ slot[p] \in Int
    BY <1>1, <2>1, <2>4, CapacityAssumption DEF InOrder, InLoop, Slots, Behind
  <2>6. \A k \in 1 .. Len(s.entries) : From(s.entries[k]) \in Int
    BY <2>3, PayloadFrom DEF Snapshots
  <2>7. \A k \in 1 .. Len(s.entries) : From(s.entries[k]) <= slot[p]
    BY <2>5, <2>6 DEF Behind
  <2> QED
    BY <2>1, <2>3, <2>5, <2>6, <2>7, NextSlotInOrder
<1>6. CASE JudgeSlot(p)
  <2>1. ipc[p] = "judge" /\ ToNextSlot(p, Judged(p))
    BY <1>6 DEF JudgeSlot
  <2> QED
    BY <2>1, JudgedType, JudgedInOrder, NextSlotInOrder
<1> QED
  BY <1>2, <1>3, <1>4, <1>5, <1>6 DEF InspectorStep, Inspect

LEMMA OrderStep ==
    ASSUME TypeOK, InspectorsProgress, OrderInv, [Next]_vars
    PROVE  OrderInv'
<1>1. CASE UNCHANGED <<snap, ipc, slot>>
  BY <1>1 DEF OrderInv, InOrder, Descending, Behind, From, SlotOf, ReservationOf
<1>2. ASSUME NEW p \in Inspectors, InspectorStep(p) PROVE OrderInv'
  <2>1. InOrder(snap'[p], ipc'[p], slot'[p])
    BY <1>2, InspectorInOrder
  <2>2. \A q \in Inspectors : q # p =>
            snap'[q] = snap[q] /\ ipc'[q] = ipc[q] /\ slot'[q] = slot[q]
    BY <1>2 DEF TypeOK, InspectorType, InspectorStep, Inspect, InspectorGoes, BeginCapture,
        LoadDropped, InspectSlot, SkipBusySlot, ToNextSlot, LoadSequence, CopyHeader,
        CopyMessage, JudgeSlot
  <2>3. \A q \in Inspectors : InOrder(snap'[q], ipc'[q], slot'[q])
    BY <2>1, <2>2 DEF OrderInv
  <2> QED
    BY <2>3 DEF OrderInv, InOrder, Descending, Behind, From, SlotOf, ReservationOf
<1>3. ASSUME NEW w \in Writers, WriterStep(w) PROVE OrderInv'
  BY <1>1, <1>3, WriterFrame DEF inspectorVars
<1> QED
  BY <1>1, <1>2, <1>3, NextIsStep DEF vars, inspectorVars

LEMMA InitOrder == Init => OrderInv
<1>1. \A p \in Inspectors : Init => snap[p].entries = <<>>
  BY DEF Init, EmptySnapshot
<1> QED
  BY <1>1, EmptyInOrder DEF OrderInv

\* No capture shows a record twice, or an older one before a newer (ring.hpp:144).
THEOREM WindowsAreOrdered == Spec => []NewestFirst
<1>1. Inv /\ OrderInv /\ [Next]_vars => OrderInv'
  BY OrderStep DEF Inv, ProtocolInv
<1>2. OrderInv => NewestFirst
  BY DEF OrderInv, InOrder, Descending, NewestFirst
<1> QED
  BY <1>1, <1>2, InitOrder, InvHolds, PTL DEF Spec

-----------------------------------------------------------------------------
(* What a full window forgets is older than all it keeps.                   *)

Shows(entries, rec) == \E k \in 1 .. Len(entries) : entries[k] = rec
AllNewer(entries, x) == \A k \in 1 .. Len(entries) : entries[k].sequence > x

LEMMA SequencesAreWords ==
    ASSUME NEW rec \in Payloads PROVE rec.sequence \in Nat
  BY WordAssumption DEF Payloads

\* Insertion finds a place for the record and loses nothing.
LEMMA InsertionKeepsAll ==
    ASSUME NEW entries \in Seq(Payloads), Descending(entries), NEW rec \in Payloads
    PROVE  /\ Shows(InsertNewestFirst(entries, rec), rec)
           /\ \A k \in 1 .. Len(entries) :
                 Shows(InsertNewestFirst(entries, rec), entries[k])
<1> DEFINE n == Len(entries)
           Keeps(k) == \E j \in k .. n : entries[j].sequence >= rec.sequence
           new == InsertNewestFirst(entries, rec)
<1>1. new = [k \in 1 .. n + 1 |->
                IF Keeps(k) THEN entries[k]
                ELSE IF k = 1 \/ Keeps(k - 1) THEN rec ELSE entries[k - 1]]
  BY DEF InsertNewestFirst
<1>2. Len(new) = n + 1 /\ n \in Nat
  BY Insertion
<1>3. ~ Keeps(n + 1)
  BY <1>2
<1>4. ASSUME NEW k \in 1 .. n, Keeps(k + 1) PROVE Keeps(k)
  BY <1>2, <1>4
<1> HIDE DEF Keeps, new
<1>5. Shows(new, rec)
  <2> DEFINE T == {k \in 1 .. n + 1 : ~ Keeps(k)}
  <2>1. n + 1 \in T /\ T \subseteq Nat
    BY <1>2, <1>3
  <2> HIDE DEF T
  <2>2. PICK k \in T : \A j \in T : k <= j
    BY <2>1, Least
  <2>3. k \in 1 .. n + 1 /\ ~ Keeps(k)
    BY DEF T
  <2>4. k = 1 \/ Keeps(k - 1)
    <3> SUFFICES ASSUME k # 1, ~ Keeps(k - 1) PROVE FALSE
      OBVIOUS
    <3>1. k - 1 \in T
      BY <1>2, <2>3 DEF T
    <3> QED
      BY <1>2, <2>2, <2>3, <3>1
  <2>5. new[k] = rec
    BY <1>1, <2>3, <2>4
  <2> QED
    BY <1>2, <2>3, <2>5 DEF Shows
<1>6. ASSUME NEW k \in 1 .. n PROVE Shows(new, entries[k])
  <2>1. CASE Keeps(k)
    <3>1. k \in 1 .. n + 1 /\ new[k] = entries[k]
      BY <1>1, <1>2, <2>1
    <3> QED
      BY <1>2, <3>1 DEF Shows
  <2>2. CASE ~ Keeps(k)
    <3>1. ~ Keeps(k + 1)
      BY <1>4, <2>2
    <3>2. k + 1 \in 1 .. n + 1 /\ k + 1 # 1 /\ (k + 1) - 1 = k
      BY <1>2
    <3>3. new[k + 1] = entries[k]
      BY <1>1, <2>2, <3>1, <3>2
    <3> QED
      BY <1>2, <3>2, <3>3 DEF Shows
  <2> QED
    BY <2>1, <2>2
<1> QED
  BY <1>5, <1>6 DEF new

\* What was in the window, or should come in, is in the new one, unless that is full of
\* what is newer; and a full window never falls back behind what it is newer than.
LEMMA WindowForgetsOldest ==
    ASSUME NEW entries \in Seq(Payloads), Descending(entries), NEW rec \in Payloads,
           NEW window \in Nat \ {0}, Len(entries) <= window,
           \A k \in 1 .. Len(entries) : entries[k].sequence # rec.sequence
    PROVE  LET new == AddToWindow(entries, rec, window)
               Pushed(x) == Len(new) = window /\ AllNewer(new, x)
           IN  /\ Shows(new, rec) \/ Pushed(rec.sequence)
               /\ \A k \in 1 .. Len(entries) :
                     Shows(new, entries[k]) \/ Pushed(entries[k].sequence)
               /\ \A x \in Nat :
                     Len(entries) = window /\ AllNewer(entries, x) => Pushed(x)
<1> DEFINE new == AddToWindow(entries, rec, window)
           Pushed(x) == Len(new) = window /\ AllNewer(new, x)
<1>0. /\ \A k \in 1 .. Len(entries) : entries[k].sequence \in Nat
      /\ rec.sequence \in Nat /\ Len(entries) \in Nat
  <2>1. \A k \in 1 .. Len(entries) : entries[k] \in Payloads
    OBVIOUS
  <2> QED
    BY <2>1, SequencesAreWords
<1>1. CASE Len(entries) < window
  <2>1. new = InsertNewestFirst(entries, rec)
    BY <1>1 DEF AddToWindow
  <2>2. Len(entries) # window
    BY <1>0, <1>1
  <2> HIDE DEF new, Pushed
  <2>3. /\ Shows(new, rec)
        /\ \A k \in 1 .. Len(entries) : Shows(new, entries[k])
    BY <2>1, InsertionKeepsAll
  <2> QED
    BY <2>2, <2>3 DEF new, Pushed
<1>2. CASE Len(entries) = window
  <2> DEFINE front == Front(entries)
  <2>1. /\ front \in Seq(Payloads) /\ Len(front) = Len(entries) - 1
        /\ \A k \in 1 .. Len(front) : front[k] = entries[k]
    BY <1>2, SubSeqProperties DEF Front
  <2>2. Last(entries) = entries[Len(entries)] /\ Len(entries) \in 1 .. Len(entries)
    BY <1>2 DEF Last
  <2>3. \A k \in 1 .. Len(entries) : entries[k].sequence >= Last(entries).sequence
    BY <1>0, <2>2 DEF Descending
  <2>4. CASE ~ (rec.sequence > Last(entries).sequence)
    <3>1. new = entries
      BY <1>2, <2>4 DEF AddToWindow
    <3>2. \A k \in 1 .. Len(entries) : Shows(new, entries[k])
      BY <3>1 DEF Shows
    <3>3. entries[Len(entries)].sequence # rec.sequence
      BY <2>2
    <3>4. AllNewer(new, rec.sequence)
      BY <1>0, <2>2, <2>3, <2>4, <3>1, <3>3 DEF AllNewer
    <3> QED
      BY <1>2, <3>1, <3>2, <3>4
  <2>5. CASE rec.sequence > Last(entries).sequence
    <3>1. new = InsertNewestFirst(front, rec)
      BY <1>2, <2>5 DEF AddToWindow
    <3>2. Descending(front)
      BY <2>1 DEF Descending
    <3> HIDE DEF new, front
    <3>3. /\ Len(new) = Len(front) + 1
          /\ \A k \in 1 .. Len(new) :
                new[k] = rec \/ \E j \in 1 .. Len(front) : new[k] = front[j]
      BY ZenonT(40), <2>1, <3>1, Insertion
    <3>4. /\ Shows(new, rec)
          /\ \A k \in 1 .. Len(front) : Shows(new, front[k])
      BY <2>1, <3>1, <3>2, InsertionKeepsAll
    <3>5. Len(new) = window
      BY <1>0, <1>2, <2>1, <3>3
    <3>6. ASSUME NEW x \in Nat, AllNewer(entries, x) PROVE AllNewer(new, x)
      <4>1. rec.sequence > x
        BY <1>0, <2>2, <2>5, <3>6 DEF AllNewer
      <4>2. \A j \in 1 .. Len(front) : front[j].sequence > x
        <5>1. \A j \in 1 .. Len(front) : j \in 1 .. Len(entries)
          BY <1>0, <2>1
        <5> QED
          BY <2>1, <3>6, <5>1 DEF AllNewer
      <4> QED
        BY <3>3, <4>1, <4>2 DEF AllNewer
    <3>7. AllNewer(new, Last(entries).sequence)
      <4>1. ASSUME NEW k \in 1 .. Len(front)
            PROVE  front[k].sequence > Last(entries).sequence
        <5>1. k \in 1 .. Len(entries) /\ k < Len(entries)
          BY <1>0, <2>1
        <5>2. entries[k].sequence > entries[Len(entries)].sequence
          BY <2>2, <5>1 DEF Descending
        <5> QED
          BY <2>1, <2>2, <5>2
      <4> QED
        BY <2>5, <3>3, <4>1 DEF AllNewer
    <3>8. ASSUME NEW k \in 1 .. Len(entries)
          PROVE  Shows(new, entries[k]) \/ AllNewer(new, entries[k].sequence)
      <4>1. k \in 1 .. Len(front) \/ k = Len(entries)
        BY <1>0, <2>1
      <4> QED
        BY <2>1, <2>2, <3>4, <3>7, <4>1
    <3> QED
      BY <3>4, <3>5, <3>6, <3>8 DEF new
  <2> QED
    BY <2>4, <2>5
<1> QED
  BY <1>1, <1>2, <1>0

-----------------------------------------------------------------------------
(* The status of a window: what the pass knows of the slots behind it.      *)

\* A slot shows reservations that were made, and its own.
NewestSound ==
    \A i \in Slots : newest[i] # 0 => newest[i] <= lastReserved /\ SlotOf(newest[i]) = i

\* What a capture found when it began is still there or has been superseded.
BaseSuperseded == \A p \in Inspectors : \A i \in Slots : base[p][i] <= newest[i]

\* A pass that missed nothing accounts for what was in the slots behind it.
Missed(s) == s.busy + s.malformed + s.after
Covers(s, old, i) ==
    Missed(s) = 0 => \A j \in Slots : j < i /\ old[j] # 0 => Accounted(s, j, old[j])
Honest(s, old) ==
    s.window > 0 =>
        /\ s.status = "valid" => \A i \in Slots : old[i] # 0 => Accounted(s, i, old[i])
        /\ s.status = "empty" => \A i \in Slots : old[i] = 0
Tells(s, pc, i, old) ==
    /\ pc = "idle" => Honest(s, old)
    /\ pc # "idle" => \A j \in Slots : old[j] <= s.highest
    /\ pc = "dropped" => i = 0
    /\ pc \in InLoop => Covers(s, old, i)
StatusInv ==
    /\ NewestSound /\ BaseSuperseded
    /\ \A p \in Inspectors : Tells(snap[p], ipc[p], slot[p], base[p])

LEMMA NewestWriterStep ==
    ASSUME TypeOK, ReservationsUnique, WritersProgress, NewestSound, BaseSuperseded,
           NEW w \in Writers, WriterStep(w)
    PROVE  NewestSound' /\ BaseSuperseded'
<1>1. /\ newest \in [Slots -> SequenceNumbers] /\ lastReserved \in Nat
      /\ expected \in [Writers -> SequenceNumbers]
      /\ base \in [Inspectors -> [Slots -> SequenceNumbers]]
      /\ \A n \in SequenceNumbers : n \in Nat
  BY WordAssumption DEF TypeOK, RingType, WriterType, InspectorType, SequenceNumbers
<1>2. base' = base
  BY WriterFrame DEF inspectorVars
<1>3. lastReserved' \in Nat /\ lastReserved' >= lastReserved
  <2>1. CASE Reserve(w)
    BY <1>1, <2>1 DEF Reserve, MayReserve, Reservation
  <2>2. CASE lastReserved' = lastReserved
    BY <1>1, <2>2
  <2> QED
    BY <2>1, <2>2 DEF WriterStep, Advance, BeginWrite, ClaimSlot, CheckSequence, GiveUp,
        CountDrop, MarkInProgress, StoreHeader, StoreMessage, CommitSequence, ReleaseSlot,
        ringVars
<1>4. CASE newest' = newest
  BY <1>1, <1>2, <1>3, <1>4 DEF NewestSound, BaseSuperseded, SlotOf
<1>5. CASE CommitSequence(w)
  <2> DEFINE i == Target(w)
             r == Reservation(w)
  <2>1. wpc[w] = "commit" /\ newest' = [newest EXCEPT ![i] = r] /\ lastReserved' = lastReserved
    BY <1>5 DEF CommitSequence, WriterGoes
  <2>2. r <= lastReserved /\ newest[i] < r /\ SlotOf(r) = i
    BY <2>1 DEF ReservationsUnique, HoldsReservation, OwningStages, WritersProgress,
        Writing, WritingStages, Target
  <2>3. r \in Nat
    BY <1>1 DEF Reservation
  <2>4. i \in Slots
    BY <2>1, HeldReservation DEF HoldsReservation, OwningStages
  <2> HIDE DEF i, r
  <2>5. newest'[i] = r /\ \A j \in Slots \ {i} : newest'[j] = newest[j]
    BY <1>1, <2>1, <2>4
  <2>6. NewestSound'
    BY <2>1, <2>2, <2>5 DEF NewestSound, SlotOf
  <2>7. ASSUME NEW p \in Inspectors, NEW j \in Slots PROVE base[p][j] <= newest'[j]
    <3>1. base[p][j] <= newest[j] /\ base[p][j] \in Nat /\ newest[j] \in Nat
      BY <1>1 DEF BaseSuperseded
    <3> QED
      BY <2>2, <2>3, <2>5, <3>1
  <2> QED
    BY <1>2, <2>6, <2>7 DEF BaseSuperseded
<1> QED
  BY <1>4, <1>5 DEF WriterStep, Advance, BeginWrite, Reserve, ClaimSlot, CheckSequence,
      GiveUp, CountDrop, MarkInProgress, StoreHeader, StoreMessage, ReleaseSlot

\* Moving on to the next slot, or out with the status, with a receipt that covers this one.
LEMMA NextSlotTells ==
    ASSUME TypeOK, NEW p \in Inspectors, NEW s \in Snapshots, ToNextSlot(p, s),
           NEW old \in [Slots -> SequenceNumbers], Covers(s, old, slot[p] + 1),
           \A j \in Slots : old[j] <= s.highest
    PROVE  Tells(snap'[p], ipc'[p], slot'[p], old)
<1>1. /\ slot[p] \in Int /\ snap \in [Inspectors -> Snapshots] /\ Capacity \in Nat
      /\ ipc \in [Inspectors -> InspectorStages] /\ slot \in [Inspectors -> Slots]
  BY CapacityAssumption DEF TypeOK, InspectorType, Slots
<1>2. CASE slot[p] + 1 < Capacity
  <2>1. snap'[p] = s /\ ipc'[p] = "claim" /\ slot'[p] = slot[p] + 1
    BY <1>1, <1>2 DEF ToNextSlot
  <2> QED
    BY <2>1 DEF Tells
<1>3. CASE ~ (slot[p] + 1 < Capacity)
  <2> DEFINE t == [s EXCEPT !.status = StatusOf(s)]
  <2>1. snap'[p] = t /\ ipc'[p] = "idle"
    BY <1>1, <1>3 DEF ToNextSlot
  <2>2. t.entries = s.entries /\ t.window = s.window /\ t.status = StatusOf(s)
    BY DEF Snapshots
  <2> HIDE DEF t
  <2>3. \A j \in Slots : j < slot[p] + 1
    BY <1>1, <1>3 DEF Slots
  <2>4. \A r : \A j \in Slots : Accounted(s, j, r) => Accounted(t, j, r)
    BY <2>2 DEF Accounted
  <2>5. ASSUME t.status # "partial" PROVE \A j \in Slots : old[j] # 0 => Accounted(s, j, old[j])
    BY <2>2, <2>3, <2>5 DEF StatusOf, Covers, Missed
  <2>6. ASSUME t.status = "empty", s.window > 0, NEW j \in Slots PROVE old[j] = 0
    <3>1. s.entries = <<>>
      BY <2>2, <2>6 DEF StatusOf
    <3>2. ~ Accounted(s, j, old[j])
      BY <2>6, <3>1 DEF Accounted
    <3> QED
      BY <2>5, <2>6, <3>2
  <2> QED
    BY <2>1, <2>2, <2>4, <2>5, <2>6 DEF Tells, Honest, InLoop
<1> QED
  BY <1>2, <1>3

\* At the judgement the copy of the slot's word is that of its newest record.
LEMMA JudgedWord ==
    ASSUME Inv, StatusInv, NEW p \in Inspectors, ipc[p] = "judge"
    PROVE  LET i == slot[p] IN
           /\ i \in Slots /\ newest[i] \in SequenceNumbers /\ newest[i] \in Nat
           /\ commitWord[p] = 2 * newest[i]
           /\ newest[i] # 0 => /\ SlotOf(newest[i]) = i
                              /\ copied[p].sequence = commitWord[p]
<1> DEFINE i == slot[p]
<1> USE DEF Inv, ProtocolInv
<1>1. i \in Slots /\ InspectorOwns(p) /\ newest[i] \in SequenceNumbers /\ newest[i] \in Nat
  BY WordAssumption DEF TypeOK, InspectorType, WriterType, InspectorOwns, SequenceNumbers
<1>2. \A w \in Writers : Writing(w) => Target(w) # i
  <2>1. \A w \in Writers : Writing(w) => WriterOwns(w)
    BY DEF Writing, WritingStages, WriterOwns, OwningStages
  <2> QED
    BY <1>1, <2>1, OwnersApart
<1>3. commitWord[p] = sequences[i] /\ (commitWord[p] # 0 => copied[p] = records[i])
  BY DEF InspectorsProgress
<1>4. sequences[i] = 2 * newest[i]
  BY <1>1, <1>2 DEF SettledSlots
<1>5. ASSUME newest[i] # 0 PROVE SlotOf(newest[i]) = i /\ copied[p].sequence = commitWord[p]
  <2>1. records[i] = Complete(newest[i], ledger[newest[i]])
    BY <1>1, <1>2, <1>5 DEF SettledSlots
  <2>2. records[i].sequence = 2 * newest[i]
    BY <1>1, <2>1, CommittedFits DEF Complete, SequenceNumbers
  <2>3. commitWord[p] # 0
    BY <1>1, <1>3, <1>4, <1>5
  <2> QED
    BY <1>1, <1>3, <1>4, <1>5, <2>2, <2>3 DEF StatusInv, NewestSound
<1> QED
  BY <1>1, <1>3, <1>4, <1>5

\* An accounted reservation stays accounted when a record comes into the window.
LEMMA AccountedStays ==
    ASSUME NEW s \in Snapshots, NEW t \in Snapshots, Descending(s.entries),
           NEW rec \in Payloads, s.window \in Nat \ {0}, Len(s.entries) <= s.window,
           \A k \in 1 .. Len(s.entries) : s.entries[k].sequence # rec.sequence,
           t.window = s.window, t.entries = AddToWindow(s.entries, rec, s.window),
           NEW j \in Slots, NEW r \in SequenceNumbers, Accounted(s, j, r)
    PROVE  Accounted(t, j, r)
<1> DEFINE entries == s.entries
           new == t.entries
           Pushed(x) == Len(new) = t.window /\ AllNewer(new, x)
<1>1. /\ entries \in Seq(Payloads) /\ new \in Seq(Payloads)
      /\ r \in Nat /\ Committed(r) = 2 * r
  BY SMTT(20), WordAssumption, CommittedFits DEF Snapshots, SequenceNumbers
<1>2. /\ \A k \in 1 .. Len(entries) : Shows(new, entries[k]) \/ Pushed(entries[k].sequence)
      /\ \A x \in Nat : Len(entries) = s.window /\ AllNewer(entries, x) => Pushed(x)
  <2> DEFINE added == AddToWindow(s.entries, rec, s.window)
             Out(x) == Len(added) = s.window /\ AllNewer(added, x)
  <2>1. /\ \A k \in 1 .. Len(s.entries) :
              Shows(added, s.entries[k]) \/ Out(s.entries[k].sequence)
        /\ \A x \in Nat : Len(s.entries) = s.window /\ AllNewer(s.entries, x) => Out(x)
    BY <1>1, WindowForgetsOldest
  <2>2. new = added
    OBVIOUS
  <2> HIDE DEF added
  <2> QED
    BY <2>1, <2>2
<1> HIDE DEF entries, new
<1>3. CASE Len(entries) = s.window /\ AllNewer(entries, Committed(r))
  <2>1. 2 * r \in Nat
    BY <1>1
  <2>2. Pushed(Committed(r))
    BY <1>1, <1>2, <1>3, <2>1
  <2> QED
    BY <2>2 DEF Accounted, AllNewer, new
<1>4. CASE \E k \in 1 .. Len(entries) :
              LET shown == ReservationOf(entries[k].sequence)
              IN  SlotOf(shown) = j /\ shown >= r
  <2>1. PICK k \in 1 .. Len(entries) :
            /\ SlotOf(ReservationOf(entries[k].sequence)) = j
            /\ ReservationOf(entries[k].sequence) >= r
    BY <1>4
  <2>2. CASE Shows(new, entries[k])
    <3>1. PICK m \in 1 .. Len(new) : new[m] = entries[k]
      BY <2>2 DEF Shows
    <3> QED
      BY <2>1, <3>1 DEF Accounted, new
  <2>3. CASE Pushed(entries[k].sequence)
    <3>1. entries[k].sequence \in Nat
      BY <1>1, SequencesAreWords
    <3>2. \A x \in Nat : x \div 2 >= r => x >= 2 * r
      BY <1>1
    <3>3. entries[k].sequence >= Committed(r)
      BY <1>1, <2>1, <3>1, <3>2 DEF ReservationOf
    <3>4. \A m \in 1 .. Len(new) : new[m].sequence \in Nat
      <4>1. \A m \in 1 .. Len(new) : new[m] \in Payloads
        BY <1>1
      <4> QED
        BY <4>1, SequencesAreWords
    <3>5. \A m \in 1 .. Len(new) : new[m].sequence > Committed(r)
      <4>1. Committed(r) \in Nat
        BY <1>1
      <4> QED
        BY <2>3, <3>1, <3>3, <3>4, <4>1 DEF AllNewer
    <3> QED
      BY <2>3, <3>5 DEF Accounted, new
  <2> QED
    BY <1>2, <2>1, <2>2, <2>3
<1> QED
  BY <1>3, <1>4 DEF Accounted, AllNewer, entries

\* A record that was just brought into the window is accounted for.
LEMMA RecordAccounted ==
    ASSUME NEW s \in Snapshots, NEW t \in Snapshots, Descending(s.entries),
           NEW rec \in Payloads, s.window \in Nat \ {0}, Len(s.entries) <= s.window,
           \A k \in 1 .. Len(s.entries) : s.entries[k].sequence # rec.sequence,
           t.window = s.window, t.entries = AddToWindow(s.entries, rec, s.window),
           NEW n \in SequenceNumbers, rec.sequence = 2 * n,
           NEW r \in SequenceNumbers, r <= n
    PROVE  Accounted(t, SlotOf(n), r)
<1> DEFINE new == t.entries
<1>1. /\ s.entries \in Seq(Payloads) /\ new \in Seq(Payloads)
      /\ r \in Nat /\ n \in Nat /\ Committed(r) = 2 * r
  BY SMTT(40), WordAssumption, CommittedFits DEF Snapshots, SequenceNumbers
<1>2. Shows(new, rec) \/ (Len(new) = t.window /\ AllNewer(new, rec.sequence))
  BY SMTT(40), <1>1, WindowForgetsOldest
<1> HIDE DEF new
<1>3. ReservationOf(rec.sequence) = n
  BY <1>1, WordParts
<1>4. CASE Shows(new, rec)
  <2>1. PICK m \in 1 .. Len(new) : new[m] = rec
    BY <1>4 DEF Shows
  <2> QED
    BY <1>1, <1>3, <2>1 DEF Accounted, new
<1>5. CASE Len(new) = t.window /\ AllNewer(new, rec.sequence)
  <2>1. \A m \in 1 .. Len(new) : new[m].sequence \in Nat
    <3>1. \A m \in 1 .. Len(new) : new[m] \in Payloads
      BY <1>1
    <3> QED
      BY <3>1, SequencesAreWords
  <2>2. \A m \in 1 .. Len(new) : new[m].sequence > Committed(r)
    BY <1>1, <1>5, <2>1 DEF AllNewer
  <2> QED
    BY <1>5, <2>2 DEF Accounted, new
<1> QED
  BY <1>2, <1>4, <1>5

\* Judging a slot accounts for what the capture found there, or counts a miss.
LEMMA JudgedCovers ==
    ASSUME Inv, OrderInv, StatusInv, NEW p \in Inspectors, ipc[p] = "judge"
    PROVE  /\ Covers(Judged(p), base[p], slot[p] + 1)
           /\ \A j \in Slots : base[p][j] <= Judged(p).highest
<1> DEFINE s == snap[p]
           i == slot[p]
           old == base[p]
           rec == copied[p]
           word == commitWord[p]
           new == AddToWindow(s.entries, rec, s.window)
           t == Judged(p)
<1>1. /\ i \in Slots /\ newest[i] \in SequenceNumbers /\ newest[i] \in Nat
      /\ word = 2 * newest[i]
      /\ newest[i] # 0 => SlotOf(newest[i]) = i /\ rec.sequence = word
  BY JudgedWord
<1>2. /\ s \in Snapshots /\ rec \in Payloads /\ t \in Snapshots
      /\ s.window \in Nat \ {0} /\ Len(s.entries) <= s.window
      /\ old \in [Slots -> SequenceNumbers] /\ s.highest \in Nat
      /\ s.busy \in Nat /\ s.malformed \in Nat /\ s.after \in Nat
  <2>1. s \in Snapshots /\ s.window > 0 /\ TypeOK /\ InspectorsProgress
    BY DEF Inv, ProtocolInv, TypeOK, InspectorType, InspectorsProgress
  <2>2. s.window \in Nat /\ s.highest \in Nat
    BY <2>1, ReceiptWindow
  <2>3. s.busy \in Nat /\ s.malformed \in Nat /\ s.after \in Nat
    BY <2>1 DEF Snapshots
  <2> QED
    BY <2>1, <2>2, <2>3, JudgedType DEF TypeOK, InspectorType
<1>3. /\ Descending(s.entries) /\ Behind(s, i)
      /\ \A j \in Slots : old[j] <= s.highest
      /\ Covers(s, old, i) /\ old[i] <= newest[i]
  BY <1>1 DEF OrderInv, InOrder, InLoop, StatusInv, Tells, BaseSuperseded
<1>4. \A j \in Slots : j \in Int /\ old[j] \in SequenceNumbers
  BY <1>2, CapacityAssumption DEF Slots
<1>5. ReservationOf(word) = newest[i] /\ ~ InProgress(word) /\ (word = 0 <=> newest[i] = 0)
  BY <1>1, WordParts
\* What changes nothing in the window keeps what was accounted for.
<1>6. ASSUME t.entries = s.entries, t.window = s.window, t.highest = s.highest,
             Missed(t) = 0 => Missed(s) = 0 /\ old[i] = 0
      PROVE  Covers(t, old, i + 1) /\ \A j \in Slots : old[j] <= t.highest
  <2> HIDE DEF s, t, old
  <2>1. \A r : \A j \in Slots : Accounted(s, j, r) => Accounted(t, j, r)
    BY <1>6 DEF Accounted
  <2>2. ASSUME Missed(t) = 0, NEW j \in Slots, j < i + 1, old[j] # 0
        PROVE  Accounted(t, j, old[j])
    <3>1. j < i
      BY <1>1, <1>4, <1>6, <2>2
    <3> QED
      BY <1>3, <1>6, <2>1, <2>2, <3>1 DEF Covers
  <2> QED
    BY <1>3, <1>6, <2>2 DEF Covers
<1>7. CASE newest[i] = 0
  <2>1. t = [s EXCEPT !.empty = @ + 1]
    BY <1>5, <1>7 DEF Judged
  <2>2. t.entries = s.entries /\ t.window = s.window /\ t.highest = s.highest
        /\ Missed(t) = Missed(s)
    BY <1>2, <2>1 DEF Snapshots, Missed
  <2>3. old[i] \in Nat /\ old[i] <= 0
    BY <1>1, <1>3, <1>4, <1>7, WordAssumption DEF SequenceNumbers
  <2>4. old[i] = 0
    BY <2>3
  <2> HIDE DEF s, t, old
  <2> QED
    BY <1>6, <2>2, <2>4 DEF t, old
<1>8. CASE newest[i] # 0 /\ newest[i] > s.highest
  <2>1. ~ IsValid(p)
    BY <1>1, <1>2, <1>5, <1>8 DEF IsValid
  <2>2. t = [s EXCEPT !.after = @ + 1]
    BY <1>5, <1>8, <2>1 DEF Judged
  <2>3. t.entries = s.entries /\ t.window = s.window /\ t.highest = s.highest
        /\ Missed(t) = s.busy + s.malformed + (s.after + 1)
    BY <1>2, <2>2 DEF Snapshots, Missed
  <2> HIDE DEF s, t, old
  <2>4. Missed(t) # 0
    BY <1>2, <2>3
  <2> QED
    BY <1>6, <2>3, <2>4 DEF t, old
<1>9. CASE newest[i] # 0 /\ ~ (newest[i] > s.highest)
  <2>1. IsValid(p)
    BY <1>1, <1>2, <1>5, <1>9 DEF IsValid
  <2>2. t = [s EXCEPT !.entries = new]
    BY <1>5, <1>9, <2>1 DEF Judged
  <2>3. t.entries = new /\ t.window = s.window /\ t.highest = s.highest
        /\ Missed(t) = Missed(s)
    BY <1>2, <2>2 DEF Snapshots, Missed
  <2>4. From(rec) = i
    BY <1>1, <1>5, <1>9 DEF From
  <2> HIDE DEF s, t, old, rec
  <2>5. \A k \in 1 .. Len(s.entries) : s.entries[k].sequence # rec.sequence
    <3>1. \A k \in 1 .. Len(s.entries) : From(s.entries[k]) < i
      BY <1>3 DEF Behind
    <3> QED
      BY <1>1, <1>4, <2>4, <3>1 DEF From
  <2>6. Accounted(t, SlotOf(newest[i]), old[i])
    BY <1>1, <1>2, <1>3, <1>4, <1>9, <2>3, <2>5, RecordAccounted
  <2>7. ASSUME Missed(t) = 0, NEW j \in Slots, j < i + 1, old[j] # 0
        PROVE  Accounted(t, j, old[j])
    <3>1. CASE j = i
      BY <1>1, <1>9, <2>6, <3>1
    <3>2. CASE j < i
      <4>1. Accounted(s, j, old[j])
        BY <1>3, <2>3, <2>7, <3>2 DEF Covers
      <4>2. old[j] \in SequenceNumbers
        BY <1>4
      <4> QED
        BY <1>2, <1>3, <2>3, <2>5, <4>1, <4>2, AccountedStays
    <3> QED
      BY <1>1, <1>4, <2>7, <3>1, <3>2
  <2> QED
    BY <1>3, <2>3, <2>7 DEF Covers, t, old
<1> QED
  BY <1>7, <1>8, <1>9

LEMMA InspectorTells ==
    ASSUME Inv, OrderInv, StatusInv, StartsAtFirst, NEW p \in Inspectors, InspectorStep(p)
    PROVE  Tells(snap'[p], ipc'[p], slot'[p], base'[p])
<1>1. /\ snap \in [Inspectors -> Snapshots] /\ ipc \in [Inspectors -> InspectorStages]
      /\ slot \in [Inspectors -> Slots] /\ base \in [Inspectors -> [Slots -> SequenceNumbers]]
      /\ newest \in [Slots -> SequenceNumbers] /\ lastReserved \in Nat
      /\ \A n \in SequenceNumbers : n \in Nat
      /\ TypeOK /\ InspectorsProgress
      /\ Tells(snap[p], ipc[p], slot[p], base[p])
  BY WordAssumption DEF Inv, ProtocolInv, TypeOK, RingType, WriterType, InspectorType,
     StatusInv, SequenceNumbers
<1>2. ASSUME NEW m \in Windows, BeginCapture(p, m)
      PROVE  Tells(snap'[p], ipc'[p], slot'[p], base'[p])
  <2> DEFINE window == IF m > SnapshotBound THEN SnapshotBound ELSE m
  <2>1. /\ snap'[p].window = window
        /\ snap'[p].highest = IF window = 0 THEN 0 ELSE lastReserved
        /\ ipc'[p] = IF window = 0 THEN "idle" ELSE "dropped"
        /\ slot'[p] = 0 /\ base'[p] = newest
    BY <1>1, <1>2 DEF BeginCapture, EmptySnapshot
  <2> HIDE DEF window
  <2>2. CASE window = 0
    BY <2>1, <2>2 DEF Tells, Honest, InLoop
  <2>3. CASE window # 0
    <3>1. \A j \in Slots : newest[j] <= lastReserved
      BY <1>1 DEF StatusInv, NewestSound
    <3> QED
      BY <2>1, <2>3, <3>1 DEF Tells, InLoop
  <2> QED
    BY <2>2, <2>3
<1>3. CASE LoadDropped(p)
  <2>1. /\ ipc[p] = "dropped" /\ slot' = slot /\ base' = base
        /\ snap'[p].highest = snap[p].highest /\ snap[p].highest \in Nat
        /\ ipc'[p] = IF snap[p].highest = 0 THEN "idle" ELSE "claim"
        /\ snap[p].highest = 0 => snap'[p].status = "empty"
    BY <1>1, <1>3 DEF LoadDropped, InspectorGoes, Snapshots
  <2>2. slot[p] = 0 /\ \A j \in Slots : base[p][j] <= snap[p].highest /\ base[p][j] \in Nat
    BY <1>1, <2>1 DEF Tells
  <2>3. CASE snap[p].highest = 0
    <3>1. \A j \in Slots : base[p][j] = 0
      BY <2>2, <2>3
    <3> QED
      BY <2>1, <2>3, <3>1 DEF Tells, Honest, InLoop
  <2>4. CASE snap[p].highest # 0
    <3>1. \A j \in Slots : ~ (j < 0)
      BY CapacityAssumption DEF Slots
    <3> QED
      BY <2>1, <2>2, <2>4, <3>1 DEF Tells, Covers, InLoop
  <2> QED
    BY <2>3, <2>4
<1>4. CASE InspectSlot(p) \/ LoadSequence(p) \/ CopyHeader(p) \/ CopyMessage(p)
  <2>1. /\ snap' = snap /\ slot' = slot /\ base' = base /\ ipc[p] \in InLoop
        /\ ipc'[p] \in {"load", "header", "message", "judge"}
    BY <1>1, <1>4 DEF InspectSlot, LoadSequence, CopyHeader, CopyMessage, InspectorGoes,
        InLoop
  <2> QED
    BY <1>1, <2>1 DEF Tells, InLoop
<1>5. CASE SkipBusySlot(p)
  <2> DEFINE s == [snap[p] EXCEPT !.busy = @ + 1]
  <2>1. ipc[p] = "claim" /\ ToNextSlot(p, s) /\ base' = base
    BY <1>5 DEF SkipBusySlot
  <2>2. snap[p] \in Snapshots
    BY <1>1
  <2>3. s \in Snapshots
    BY <2>2, Receipt
  <2>4. /\ s.highest = snap[p].highest
        /\ s.busy = snap[p].busy + 1 /\ snap[p].busy \in Nat
        /\ s.malformed \in Nat /\ s.after \in Nat
    BY <2>2 DEF Snapshots
  <2> HIDE DEF s
  <2>5. Missed(s) # 0
    BY <2>4 DEF Missed
  <2>6. Covers(s, base[p], slot[p] + 1)
    BY <2>5 DEF Covers
  <2>7. base[p] \in [Slots -> SequenceNumbers] /\ \A j \in Slots : base[p][j] <= s.highest
    BY <1>1, <2>1, <2>4 DEF Tells
  <2> QED
    BY <1>1, <2>1, <2>3, <2>6, <2>7, NextSlotTells
<1>6. CASE JudgeSlot(p)
  <2>1. ipc[p] = "judge" /\ ToNextSlot(p, Judged(p)) /\ base' = base
    BY <1>6 DEF JudgeSlot
  <2>2. Judged(p) \in Snapshots
    BY <1>1, <2>1, JudgedType
  <2>3. /\ Covers(Judged(p), base[p], slot[p] + 1)
        /\ \A j \in Slots : base[p][j] <= Judged(p).highest
    BY <2>1, JudgedCovers
  <2>4. base[p] \in [Slots -> SequenceNumbers]
    BY <1>1
  <2> QED
    BY <1>1, <2>1, <2>2, <2>3, <2>4, NextSlotTells
<1> QED
  BY <1>2, <1>3, <1>4, <1>5, <1>6 DEF InspectorStep, Inspect

LEMMA StatusStep ==
    ASSUME Inv, OrderInv, StatusInv, StartsAtFirst, [Next]_vars
    PROVE  StatusInv'
<1>1. ASSUME NEW w \in Writers, WriterStep(w) PROVE StatusInv'
  <2>1. NewestSound' /\ BaseSuperseded'
    BY <1>1, NewestWriterStep DEF Inv, ProtocolInv, StatusInv
  <2>2. UNCHANGED <<snap, ipc, slot, base>>
    BY <1>1, WriterFrame DEF inspectorVars
  <2>3. (\A p \in Inspectors : Tells(snap[p], ipc[p], slot[p], base[p]))'
    BY <2>2 DEF StatusInv, Tells, Honest, Covers, Missed, Accounted, SlotOf, ReservationOf,
        Committed
  <2> QED
    BY <2>1, <2>3 DEF StatusInv
<1>2. ASSUME NEW p \in Inspectors, InspectorStep(p) PROVE StatusInv'
  <2>1. Tells(snap'[p], ipc'[p], slot'[p], base'[p])
    BY <1>2, InspectorTells
  <2>2. \A q \in Inspectors : q # p =>
            /\ snap'[q] = snap[q] /\ ipc'[q] = ipc[q] /\ slot'[q] = slot[q]
            /\ base'[q] = base[q]
    BY <1>2 DEF Inv, TypeOK, InspectorType, InspectorStep, Inspect, InspectorGoes,
        BeginCapture, LoadDropped, InspectSlot, SkipBusySlot, ToNextSlot, LoadSequence,
        CopyHeader, CopyMessage, JudgeSlot
  <2>3. \A q \in Inspectors : Tells(snap'[q], ipc'[q], slot'[q], base'[q])
    BY <2>1, <2>2 DEF StatusInv
  <2>4. newest' = newest /\ lastReserved' = lastReserved
    BY <1>2, InspectorFrame DEF writerVars
  <2>5. base'[p] = base[p] \/ base'[p] = newest
    BY <1>2 DEF Inv, TypeOK, InspectorType, InspectorStep, Inspect, BeginCapture,
        LoadDropped, InspectSlot, SkipBusySlot, LoadSequence, CopyHeader, CopyMessage,
        JudgeSlot
  <2>6. \A i \in Slots : newest[i] <= newest[i]
    BY WordAssumption DEF Inv, TypeOK, WriterType, SequenceNumbers
  <2>7. BaseSuperseded'
    BY <2>2, <2>4, <2>5, <2>6 DEF StatusInv, BaseSuperseded
  <2>8. NewestSound'
    BY <2>4 DEF StatusInv, NewestSound, SlotOf
  <2> QED
    BY <2>3, <2>7, <2>8 DEF StatusInv, Tells, Honest, Covers, Missed, Accounted, SlotOf,
       ReservationOf, Committed
<1>3. CASE UNCHANGED vars
  BY SMTT(30), <1>3 DEF vars, ringVars, writerVars, inspectorVars, StatusInv, NewestSound,
     BaseSuperseded, Tells, Honest, Covers, Missed, Accounted, SlotOf, ReservationOf,
     Committed
<1> QED
  BY <1>1, <1>2, <1>3, NextIsStep

LEMMA InitStatus == Init => StatusInv /\ StartsAtFirst
<1>1. Init => StatusInv
  <2> SUFFICES ASSUME Init PROVE StatusInv
    OBVIOUS
  <2>1. NewestSound /\ BaseSuperseded
    BY DEF Init, NewestSound, BaseSuperseded
  <2>2. \A p \in Inspectors : ipc[p] = "idle" /\ snap[p].window = 0
    BY DEF Init, EmptySnapshot
  <2> QED
    BY <2>1, <2>2 DEF StatusInv, Tells, Honest, InLoop
<1>2. Init => StartsAtFirst
  BY DEF Init, StartsAtFirst
<1> QED
  BY <1>1, <1>2

\* A capture never calls a window "valid" that misses a record committed before it began,
\* nor "empty" a board that was not, however writers and other captures interfere
\* (ring.hpp:130-132).
THEOREM StatusTellsTruth == Spec => []StatusIsHonest
<1>1. Init => OrderInv /\ StatusInv /\ StartsAtFirst
  BY InitStatus, InitOrder
<1>2. Inv /\ OrderInv /\ StatusInv /\ StartsAtFirst /\ [Next]_vars
         => OrderInv' /\ StatusInv' /\ StartsAtFirst'
  BY OrderStep, StatusStep, StartsAtFirstStep DEF Inv, ProtocolInv
<1>3. StatusInv => StatusIsHonest
  BY DEF StatusInv, Tells, Honest, StatusIsHonest, Finished
<1> QED
  BY <1>1, <1>2, <1>3, InvHolds, PTL DEF Spec

-----------------------------------------------------------------------------
(* The ring implements the board: a window is what the board calls the      *)
(* newest of the records it was offered.                                    *)

\* Records in a strict order are as many as their places.
LEMMA OrderedCount ==
    ASSUME NEW es \in Seq(Payloads), Descending(es)
    PROVE  IsFiniteSet(Range(es)) /\ Cardinality(Range(es)) = Len(es)
<1>1. \A k \in 1 .. Len(es) : es[k].sequence \in Nat
  <2>1. \A k \in 1 .. Len(es) : es[k] \in Payloads
    OBVIOUS
  <2> QED
    BY <2>1, SequencesAreWords
<1>2. Len(es) \in Nat /\ es \in [1 .. Len(es) -> Range(es)]
  BY DEF Range
<1>3. \A j, k \in 1 .. Len(es) : es[j] = es[k] => j = k
  <2> SUFFICES ASSUME NEW j \in 1 .. Len(es), NEW k \in 1 .. Len(es), es[j] = es[k], j < k
               PROVE  FALSE
    OBVIOUS
  <2> QED
    BY <1>1 DEF Descending
<1>4. \A x \in Range(es) : \E k \in 1 .. Len(es) : es[k] = x
  BY DEF Range
<1>5. es \in Bijection(1 .. Len(es), Range(es))
  BY <1>2, <1>3, <1>4 DEF Bijection, Injection, IsInjective, Surjection
<1>6. ExistsBijection(1 .. Len(es), Range(es))
  BY <1>5 DEF ExistsBijection
<1> QED
  BY <1>2, <1>6, FS_NatBijection, FS_CountingElements

\* Of the records in such a sequence fewer are newer than one of them than there are.
LEMMA NewerAreFewer ==
    ASSUME NEW es \in Seq(Payloads), Descending(es), NEW r \in Range(es)
    PROVE  Cardinality({q \in Range(es) : q.sequence > r.sequence}) < Len(es)
<1> DEFINE newer == {q \in Range(es) : q.sequence > r.sequence}
<1>1. r \notin newer
  <2>1. r \in Payloads
    BY DEF Range
  <2> QED
    BY <2>1, SequencesAreWords
<1>2. IsFiniteSet(Range(es)) /\ Cardinality(Range(es)) = Len(es)
  BY OrderedCount
<1>3. newer \subseteq Range(es) \ {r}
  BY <1>1
<1>4. IsFiniteSet(Range(es) \ {r}) /\ Cardinality(Range(es) \ {r}) = Len(es) - 1
  BY <1>2, FS_RemoveElement
<1> HIDE DEF newer
<1>5. Cardinality(newer) <= Len(es) - 1
  BY <1>3, <1>4, FS_Subset
<1>6. Cardinality(newer) \in Nat
  BY <1>3, <1>4, FS_Subset, FS_CardinalityType
<1> QED
  BY <1>5, <1>6 DEF newer

\* The board's module counts as this one does.
LEMMA SameCardinality == \A S : Board!Cardinality(S) = Cardinality(S)
  BY DEF Board!Cardinality, Cardinality

LEMMA NewestOfAll ==
    ASSUME NEW es \in Seq(Payloads), Descending(es), NEW n \in Nat, Len(es) <= n
    PROVE  Board!NewestOf(Range(es), n) = Range(es)
<1>1. ASSUME NEW r \in Range(es)
      PROVE  Cardinality({q \in Range(es) : q.sequence > r.sequence}) < n
  <2> DEFINE c == Cardinality({q \in Range(es) : q.sequence > r.sequence})
  <2>1. c < Len(es)
    BY NewerAreFewer
  <2>2. c \in Nat
    BY OrderedCount, FS_Subset, FS_CardinalityType
  <2> HIDE DEF c
  <2>3. c < n
    BY <2>1, <2>2
  <2> QED
    BY <2>3 DEF c
<1> QED
  BY <1>1, SameCardinality DEF Board!NewestOf

LEMMA NewestButOne ==
    ASSUME NEW es \in Seq(Payloads), Descending(es), NEW x \in Payloads,
           AllNewer(es, x.sequence)
    PROVE  Board!NewestOf(Range(es) \cup {x}, Len(es)) = Range(es)
<1> DEFINE all == Range(es) \cup {x}
           Newer(r) == {q \in all : q.sequence > r.sequence}
<1>1. x.sequence \in Nat /\ \A r \in Range(es) : r.sequence \in Nat /\ r.sequence > x.sequence
  <2>1. \A r \in Range(es) : r \in Payloads /\ \E k \in 1 .. Len(es) : r = es[k]
    BY DEF Range
  <2> QED
    BY <2>1, SequencesAreWords DEF AllNewer
<1>2. Newer(x) = Range(es) /\ x \notin Range(es)
  BY <1>1
<1>3. Cardinality(Newer(x)) = Len(es)
  BY <1>2, OrderedCount
<1>4. \A r \in Range(es) : Newer(r) = {q \in Range(es) : q.sequence > r.sequence}
  BY <1>1
<1>5. \A r \in Range(es) : Cardinality(Newer(r)) < Len(es)
  BY <1>4, NewerAreFewer
<1>6. Len(es) \in Nat
  OBVIOUS
<1>7. Board!NewestOf(all, Len(es)) = {r \in all : Cardinality(Newer(r)) < Len(es)}
  BY SameCardinality DEF Board!NewestOf
<1> HIDE DEF Newer
<1>8. ~ (Cardinality(Newer(x)) < Len(es))
  BY <1>3, <1>6
<1>9. \A r \in all : Cardinality(Newer(r)) < Len(es) <=> r \in Range(es)
  BY <1>2, <1>5, <1>8
<1> QED
  BY <1>7, <1>9

\* An insertion adds the record to those that are there.
LEMMA InsertionRange ==
    ASSUME NEW entries \in Seq(Payloads), Descending(entries), NEW rec \in Payloads,
           \A k \in 1 .. Len(entries) : entries[k].sequence # rec.sequence
    PROVE  Range(InsertNewestFirst(entries, rec)) = Range(entries) \cup {rec}
<1> DEFINE new == InsertNewestFirst(entries, rec)
<1>1. /\ new \in Seq(Payloads)
      /\ \A k \in 1 .. Len(new) :
            new[k] = rec \/ \E j \in 1 .. Len(entries) : new[k] = entries[j]
  BY Insertion
<1>2. Shows(new, rec) /\ \A k \in 1 .. Len(entries) : Shows(new, entries[k])
  BY InsertionKeepsAll
<1> HIDE DEF new
<1>3. DOMAIN new = 1 .. Len(new) /\ DOMAIN entries = 1 .. Len(entries)
  BY <1>1
<1>4. Range(new) \subseteq Range(entries) \cup {rec}
  BY <1>1, <1>3 DEF Range
<1>5. Range(entries) \cup {rec} \subseteq Range(new)
  BY <1>2, <1>3 DEF Range, Shows
<1> QED
  BY <1>4, <1>5 DEF new

\* Adding to a window is taking the newest of what it holds and what it is offered.
LEMMA WindowIsNewest ==
    ASSUME NEW entries \in Seq(Payloads), Descending(entries), NEW rec \in Payloads,
           NEW window \in Nat \ {0}, Len(entries) <= window,
           \A k \in 1 .. Len(entries) : entries[k].sequence # rec.sequence
    PROVE  Range(AddToWindow(entries, rec, window))
              = Board!NewestOf(Range(entries) \cup {rec}, window)
<1> DEFINE new == AddToWindow(entries, rec, window)
           all == Range(entries) \cup {rec}
<1>0. /\ \A k \in 1 .. Len(entries) : entries[k].sequence \in Nat
      /\ rec.sequence \in Nat /\ Len(entries) \in Nat
  <2>1. \A k \in 1 .. Len(entries) : entries[k] \in Payloads
    OBVIOUS
  <2> QED
    BY <2>1, SequencesAreWords
<1>1. CASE Len(entries) < window
  <2>1. new = InsertNewestFirst(entries, rec)
    BY <1>1 DEF AddToWindow
  <2> HIDE DEF new
  <2>2. new \in Seq(Payloads) /\ Len(new) = Len(entries) + 1
    BY <2>1, Insertion
  <2>3. Descending(new)
    BY <2>1, InsertionKeepsOrder
  <2>4. Range(new) = all
    BY <2>1, <2>2, InsertionRange
  <2>5. Board!NewestOf(Range(new), window) = Range(new)
    BY <1>0, <1>1, <2>2, <2>3, NewestOfAll
  <2> QED
    BY <2>4, <2>5 DEF new
<1>2. CASE Len(entries) = window /\ ~ (rec.sequence > Last(entries).sequence)
  <2>1. new = entries
    BY <1>2 DEF AddToWindow
  <2>2. Last(entries) = entries[Len(entries)] /\ Len(entries) \in 1 .. Len(entries)
    BY <1>2 DEF Last
  <2>3. \A k \in 1 .. Len(entries) : entries[k].sequence >= Last(entries).sequence
    BY <1>0, <2>2 DEF Descending
  <2>4. AllNewer(entries, rec.sequence)
    BY <1>0, <1>2, <2>2, <2>3 DEF AllNewer
  <2> QED
    BY <1>2, <2>1, <2>4, NewestButOne
<1>3. CASE Len(entries) = window /\ rec.sequence > Last(entries).sequence
  <2> DEFINE front == Front(entries)
             last == entries[Len(entries)]
  <2>1. /\ front \in Seq(Payloads) /\ Len(front) = Len(entries) - 1
        /\ \A k \in 1 .. Len(front) : front[k] = entries[k]
    BY <1>3, SubSeqProperties DEF Front
  <2>2. new = InsertNewestFirst(front, rec) /\ last = Last(entries)
    BY <1>3 DEF AddToWindow, Last
  <2>3. Len(entries) \in 1 .. Len(entries) /\ last \in Payloads
    BY <1>3
  <2>4. Range(entries) = Range(front) \cup {last}
    <3>1. \A k \in 1 .. Len(entries) : k \in 1 .. Len(front) \/ k = Len(entries)
      BY <1>0, <2>1
    <3>2. 1 .. Len(front) \subseteq 1 .. Len(entries)
      BY <1>0, <2>1
    <3> HIDE DEF front, last
    <3>3. DOMAIN entries = 1 .. Len(entries) /\ DOMAIN front = 1 .. Len(front)
      BY <2>1
    <3> QED
      BY <2>1, <2>3, <3>1, <3>2, <3>3 DEF Range, last
  <2>5. Descending(front) /\ \A k \in 1 .. Len(front) : front[k].sequence # rec.sequence
    BY <2>1 DEF Descending
  <2>6. \A k \in 1 .. Len(front) : front[k].sequence > last.sequence
    BY <2>1, <2>3 DEF Descending
  <2> HIDE DEF new, front, last
  <2>7. new \in Seq(Payloads) /\ Len(new) = Len(front) + 1 /\ Descending(new)
    BY <2>1, <2>2, <2>5, Insertion, InsertionKeepsOrder
  <2>8. Range(new) = Range(front) \cup {rec}
    BY <2>1, <2>2, <2>5, InsertionRange
  <2>9. AllNewer(new, last.sequence)
    <3> SUFFICES ASSUME NEW k \in 1 .. Len(new) PROVE new[k].sequence > last.sequence
      BY DEF AllNewer
    <3>1. new[k] = rec \/ \E j \in 1 .. Len(front) : new[k] = front[j]
      BY <2>1, <2>2, Insertion
    <3> QED
      BY <1>3, <2>2, <2>6, <3>1
  <2>10. Board!NewestOf(Range(new) \cup {last}, Len(new)) = Range(new)
    BY <2>3, <2>7, <2>9, NewestButOne
  <2>11. Range(new) \cup {last} = all /\ Len(new) = window
    BY <1>0, <1>3, <2>1, <2>4, <2>7, <2>8
  <2> QED
    BY <2>10, <2>11 DEF new
<1> QED
  BY <1>0, <1>1, <1>2, <1>3

-----------------------------------------------------------------------------
(* The ring implements the board: each step is one of the board's, or none. *)

\* What the board sees of a pass.
PassOf(s, at, i) ==
    [status |-> IF at = "idle" THEN s.status ELSE "running",
     todo   |-> IF at = "idle" /\ s.highest # 0 THEN {} ELSE i .. Capacity - 1,
     window |-> s.window, limit |-> 2 * s.highest, found |-> Range(s.entries),
     missed |-> Missed(s)]

\* A pass that found nothing reserved when it began looks at no slot.
LimitInv == \A p \in Inspectors : ipc[p] \in InLoop => snap[p].highest # 0

SimulationInv == Inv /\ OrderInv /\ StatusInv /\ StartsAtFirst /\ LimitInv

LEMMA PassIs ==
    /\ PassNow = [p \in Inspectors |-> PassOf(snap[p], ipc[p], slot[p])]
    /\ PassNow' = [p \in Inspectors |-> PassOf(snap'[p], ipc'[p], slot'[p])]
  BY DEF PassNow, PassOf, Missed

LEMMA OnePassMoves ==
    ASSUME NEW p \in Inspectors,
           \A q \in Inspectors \ {p} :
               snap'[q] = snap[q] /\ ipc'[q] = ipc[q] /\ slot'[q] = slot[q]
    PROVE  PassNow' = [PassNow EXCEPT ![p] = PassOf(snap'[p], ipc'[p], slot'[p])]
<1> DEFINE Old(q) == PassOf(snap[q], ipc[q], slot[q])
           New(q) == PassOf(snap'[q], ipc'[q], slot'[q])
<1>1. \A q \in Inspectors \ {p} : New(q) = Old(q)
  OBVIOUS
<1>2. PassNow = [q \in Inspectors |-> Old(q)] /\ PassNow' = [q \in Inspectors |-> New(q)]
  BY PassIs
<1> HIDE DEF Old, New
<1>3. PassNow' = [PassNow EXCEPT ![p] = New(p)]
  BY <1>1, <1>2
<1> QED
  BY <1>3 DEF New

\* A place of the board is blank until the slot's first record.
LEMMA BoardPlace ==
    ASSUME Inv, NEW i \in Slots
    PROVE  /\ newest[i] \in SequenceNumbers /\ newest[i] \in Nat
           /\ newest[i] = 0 => BoardNow[i] = Blank
           /\ newest[i] # 0 => /\ BoardNow[i] = Complete(newest[i], ledger[newest[i]])
                               /\ BoardNow[i].sequence = 2 * newest[i]
                               /\ BoardNow[i] # Blank
<1>1. newest[i] \in SequenceNumbers /\ newest[i] \in Nat
  BY WordAssumption DEF Inv, TypeOK, WriterType, SequenceNumbers
<1>2. ASSUME newest[i] # 0
      PROVE  /\ BoardNow[i] = Complete(newest[i], ledger[newest[i]])
             /\ BoardNow[i].sequence = 2 * newest[i]
  <2>1. BoardNow[i] = Complete(newest[i], ledger[newest[i]])
    BY <1>2 DEF BoardNow
  <2>2. BoardNow[i].sequence = Committed(newest[i])
    BY <2>1 DEF Complete
  <2> QED
    BY <1>1, <2>1, <2>2, CommittedFits DEF SequenceNumbers
<1>3. newest[i] # 0 => BoardNow[i] # Blank
  BY <1>1, <1>2 DEF Blank
<1>4. newest[i] = 0 => BoardNow[i] = Blank
  BY DEF BoardNow
<1> QED
  BY <1>1, <1>2, <1>3, <1>4

\* The commit of a sequence word publishes the record.
LEMMA CommitPublishes ==
    ASSUME SimulationInv, NEW w \in Writers, CommitSequence(w)
    PROVE  \E i \in Slots : Board!Publish(i)
<1> DEFINE i == Target(w)
           r == Reservation(w)
           rec == Complete(r, argument[w])
<1>1. /\ wpc[w] = "commit" /\ newest' = [newest EXCEPT ![i] = r]
      /\ ledger' = [ledger EXCEPT ![r] = argument[w]] /\ UNCHANGED inspectorVars
  BY DEF CommitSequence, WriterGoes, inspectorVars
<1>2. /\ i \in Slots /\ r \in Reservations /\ SlotOf(r) = i /\ newest[i] < r
      /\ Committed(r) = 2 * r
  BY <1>1, HeldReservation DEF HoldsReservation, OwningStages, SimulationInv, Inv,
     ProtocolInv, WritersProgress, Writing, WritingStages, Target
<1>3. /\ newest \in [Slots -> SequenceNumbers] /\ r \in Nat /\ r # 0
      /\ ledger \in [Reservations -> Events \cup {NoEvent}]
      /\ \A j \in Slots : newest[j] # 0 => newest[j] \in Reservations
  BY <1>2, WordAssumption DEF SimulationInv, Inv, TypeOK, WriterType, Reservations,
     SequenceNumbers
<1>4. \A j \in Slots : newest[j] # 0 => SlotOf(newest[j]) = j
  BY DEF SimulationInv, StatusInv, NewestSound
<1> HIDE DEF i, r
<1>5. newest'[i] = r /\ \A j \in Slots \ {i} : newest'[j] = newest[j]
  BY <1>1, <1>2, <1>3
<1>6. ledger'[r] = argument[w] /\ \A n \in Reservations \ {r} : ledger'[n] = ledger[n]
  BY <1>1, <1>2, <1>3
<1> DEFINE Now(j) == IF newest[j] = 0 THEN Blank ELSE Complete(newest[j], ledger[newest[j]])
           Then(j) == IF newest'[j] = 0 THEN Blank
                      ELSE Complete(newest'[j], ledger'[newest'[j]])
<1>7. \A j \in Slots \ {i} : Then(j) = Now(j)
  <2> SUFFICES ASSUME NEW j \in Slots \ {i} PROVE Then(j) = Now(j)
    OBVIOUS
  <2>1. newest'[j] = newest[j]
    BY <1>5
  <2>2. CASE newest[j] = 0
    BY <2>1, <2>2
  <2>3. CASE newest[j] # 0
    <3>1. newest[j] # r
      BY <1>2, <1>4, <2>3
    <3>2. ledger'[newest[j]] = ledger[newest[j]]
      BY <1>3, <1>6, <2>3, <3>1
    <3> QED
      BY <2>1, <2>3, <3>2
  <2> QED
    BY <2>2, <2>3
<1>8. Then(i) = rec
  BY <1>3, <1>5, <1>6
<1>9. BoardNow = [j \in Slots |-> Now(j)] /\ BoardNow' = [j \in Slots |-> Then(j)]
  BY DEF BoardNow, Complete, Committed, Blank
<1> HIDE DEF Now, Then, rec
<1>10. BoardNow' = [BoardNow EXCEPT ![i] = rec] /\ BoardNow'[i] = rec
  BY <1>2, <1>7, <1>8, <1>9
<1>11. rec.sequence = 2 * r /\ rec # Blank
  BY <1>2, <1>3 DEF rec, Complete, Blank
<1>12. /\ newest[i] \in Nat
       /\ newest[i] = 0 => BoardNow[i] = Blank
       /\ newest[i] # 0 => BoardNow[i].sequence = 2 * newest[i]
  BY <1>2, BoardPlace DEF SimulationInv
<1>13. BoardNow[i] # Blank => BoardNow[i].sequence < rec.sequence
  BY <1>2, <1>3, <1>11, <1>12
<1>14. rec # BoardNow[i]
  BY <1>3, <1>11, <1>13
<1>15. PassNow' = PassNow
  BY <1>1 DEF PassNow, inspectorVars
<1>16. rec.sequence > BoardNow[i].sequence <=> BoardNow[i].sequence < rec.sequence
  OBVIOUS
<1> QED
  BY <1>2, <1>10, <1>11, <1>13, <1>14, <1>15, <1>16 DEF Board!Publish

LEMMA WriterSimulates ==
    ASSUME SimulationInv, NEW w \in Writers, WriterStep(w)
    PROVE  Board!Next \/ UNCHANGED Board!vars
<1>1. CASE CommitSequence(w)
  BY <1>1, CommitPublishes DEF Board!Next
<1>2. CASE newest' = newest /\ ledger' = ledger
  <2>1. UNCHANGED inspectorVars
    BY WriterFrame
  <2>2. BoardNow' = BoardNow
    BY <1>2 DEF BoardNow, Complete, Committed, Blank
  <2>3. PassNow' = PassNow
    BY <2>1 DEF PassNow, inspectorVars
  <2> QED
    BY <2>2, <2>3 DEF Board!vars
<1> QED
  BY <1>1, <1>2 DEF WriterStep, Advance, BeginWrite, Reserve, ClaimSlot, CheckSequence,
     GiveUp, CountDrop, MarkInProgress, StoreHeader, StoreMessage, ReleaseSlot

\* A pass begins with a limit that covers the board.
LEMMA CaptureBegins ==
    ASSUME SimulationInv, NEW p \in Inspectors, NEW m \in Windows, BeginCapture(p, m)
    PROVE  Board!Begin(p)
<1> DEFINE window == IF m > SnapshotBound THEN SnapshotBound ELSE m
           highest == IF window = 0 THEN 0 ELSE lastReserved
           s == [EmptySnapshot(window) EXCEPT !.highest = highest]
           at == IF window = 0 THEN "idle" ELSE "dropped"
<1>1. /\ snap \in [Inspectors -> Snapshots] /\ ipc \in [Inspectors -> InspectorStages]
      /\ slot \in [Inspectors -> Slots] /\ lastReserved \in Nat
  BY WordAssumption DEF SimulationInv, Inv, TypeOK, RingType, InspectorType, SequenceNumbers
<1>2. /\ ipc[p] = "idle" /\ UNCHANGED writerVars
      /\ snap' = [snap EXCEPT ![p] = s] /\ ipc' = [ipc EXCEPT ![p] = at]
      /\ slot' = [slot EXCEPT ![p] = 0]
  BY DEF BeginCapture
<1>3. window \in 0 .. SnapshotBound
  BY WindowAssumption
<1>4. /\ s.status = "empty" /\ s.window = window /\ s.highest = highest
      /\ s.entries = <<>> /\ Missed(s) = 0
  BY DEF EmptySnapshot, Missed
<1>5. Range(<<>>) = {}
  BY DEF Range
<1>6. 0 .. Capacity - 1 = Slots
  BY DEF Slots
<1> HIDE DEF s
<1>7. PassOf(s, at, 0) = [status |-> IF window = 0 THEN "empty" ELSE "running",
                          todo |-> Slots, window |-> window, limit |-> 2 * highest,
                          found |-> {}, missed |-> 0]
  BY <1>4, <1>5, <1>6 DEF PassOf
<1>8. snap'[p] = s /\ ipc'[p] = at /\ slot'[p] = 0
  BY <1>1, <1>2
<1>9. \A q \in Inspectors \ {p} :
          snap'[q] = snap[q] /\ ipc'[q] = ipc[q] /\ slot'[q] = slot[q]
  BY <1>1, <1>2
<1>10. PassNow' = [PassNow EXCEPT ![p] = PassOf(s, at, 0)]
  BY <1>8, <1>9, OnePassMoves
<1>11. PassNow'[p] = PassOf(s, at, 0)
  BY <1>8, PassIs
<1>12. PassNow[p].status # "running"
  <2>1. PassNow[p] = PassOf(snap[p], ipc[p], slot[p])
    BY PassIs
  <2>2. snap[p].status \in {"valid", "partial", "empty"}
    BY <1>1 DEF Snapshots
  <2> QED
    BY <1>2, <2>1, <2>2 DEF PassOf
<1>13. BoardNow' = BoardNow
  BY <1>2 DEF writerVars, BoardNow, Complete, Committed, Blank
<1>14. ASSUME NEW i \in Slots, window # 0, BoardNow[i] # Blank
       PROVE  BoardNow[i].sequence <= 2 * highest
  <2>1. newest[i] \in Nat /\ newest[i] # 0 /\ BoardNow[i].sequence = 2 * newest[i]
    BY <1>14, BoardPlace DEF SimulationInv
  <2>2. newest[i] <= lastReserved
    BY <2>1 DEF SimulationInv, StatusInv, NewestSound
  <2> QED
    BY <1>1, <1>14, <2>1, <2>2
<1> HIDE DEF window, highest, at
<1>15. PassNow'[p].window = window /\ PassNow'[p].limit = 2 * highest
  BY <1>7, <1>11
<1> QED
  BY <1>3, <1>7, <1>10, <1>11, <1>12, <1>13, <1>14, <1>15 DEF Board!Begin, Board!Idle

\* Nothing was reserved: the call returns at once.
LEMMA NothingToSee ==
    ASSUME SimulationInv, NEW p \in Inspectors, LoadDropped(p)
    PROVE  Board!NothingYet(p) \/ UNCHANGED Board!vars
<1> DEFINE s == [snap[p] EXCEPT !.dropped = dropped,
                      !.status = IF snap[p].highest = 0 THEN "empty" ELSE "valid"]
           at == IF snap[p].highest = 0 THEN "idle" ELSE "claim"
<1>1. /\ snap \in [Inspectors -> Snapshots] /\ ipc \in [Inspectors -> InspectorStages]
  BY DEF SimulationInv, Inv, TypeOK, InspectorType
<1>2. /\ ipc[p] = "dropped" /\ UNCHANGED writerVars /\ slot' = slot
      /\ snap' = [snap EXCEPT ![p] = s] /\ ipc' = [ipc EXCEPT ![p] = at]
  BY DEF LoadDropped, InspectorGoes
<1>3. slot[p] = 0
  BY <1>2 DEF SimulationInv, StartsAtFirst
<1>4. /\ s.window = snap[p].window /\ s.highest = snap[p].highest
      /\ s.entries = snap[p].entries /\ Missed(s) = Missed(snap[p])
      /\ snap[p].highest = 0 => s.status = "empty"
  BY <1>1 DEF Snapshots, Missed
<1> HIDE DEF s
<1>5. snap'[p] = s /\ ipc'[p] = at /\ slot'[p] = 0
  BY <1>1, <1>2, <1>3
<1>6. \A q \in Inspectors \ {p} :
          snap'[q] = snap[q] /\ ipc'[q] = ipc[q] /\ slot'[q] = slot[q]
  BY <1>1, <1>2
<1>7. PassNow' = [PassNow EXCEPT ![p] = PassOf(s, at, 0)]
  BY <1>5, <1>6, OnePassMoves
<1>8. PassNow = [q \in Inspectors |-> PassOf(snap[q], ipc[q], slot[q])]
  BY PassIs
<1>9. PassNow[p] = PassOf(snap[p], "dropped", 0)
  BY <1>2, <1>3, <1>8
<1>10. BoardNow' = BoardNow
  BY <1>2 DEF writerVars, BoardNow, Complete, Committed, Blank
<1>11. CASE snap[p].highest = 0
  <2>1. PassNow[p].status = "running" /\ PassNow[p].limit = 0 /\ PassNow[p].todo = Slots
    BY <1>9, <1>11 DEF PassOf, Slots
  <2>2. PassOf(s, at, 0) = [PassOf(snap[p], "dropped", 0) EXCEPT !.status = "empty"]
    BY <1>4, <1>11 DEF PassOf
  <2>3. PassNow' = [PassNow EXCEPT ![p] = [PassNow[p] EXCEPT !.status = "empty"]]
    BY <1>7, <1>9, <2>2
  <2> QED
    BY <1>10, <2>1, <2>3 DEF Board!NothingYet, Board!Idle
<1>12. CASE snap[p].highest # 0
  <2>1. PassOf(s, at, 0) = PassOf(snap[p], "dropped", 0)
    BY <1>4, <1>12 DEF PassOf
  <2>2. PassNow' = PassNow
    BY <1>7, <1>8, <1>9, <2>1
  <2> QED
    BY <1>10, <2>2 DEF Board!vars
<1> QED
  BY <1>11, <1>12

\* Leaving a slot is a look at its place.
LEMMA LeavingLooks ==
    ASSUME SimulationInv, NEW p \in Inspectors, NEW s \in Snapshots, ToNextSlot(p, s),
           ipc[p] \in InLoop, UNCHANGED writerVars,
           s.highest = snap[p].highest, s.window = snap[p].window
    PROVE  Board!Look(p, slot[p], Range(s.entries), Missed(s))
<1> DEFINE i == slot[p]
           old == PassOf(snap[p], ipc[p], i)
           q == [old EXCEPT !.todo = @ \ {i}, !.found = Range(s.entries),
                            !.missed = Missed(s)]
           t == [s EXCEPT !.status = StatusOf(s)]
<1>1. /\ snap \in [Inspectors -> Snapshots] /\ ipc \in [Inspectors -> InspectorStages]
      /\ slot \in [Inspectors -> Slots] /\ i \in Slots /\ Capacity \in Nat
      /\ s.highest # 0 /\ ipc[p] # "idle" /\ s.entries \in Seq(Payloads)
  BY CapacityAssumption DEF SimulationInv, Inv, TypeOK, InspectorType, LimitInv, InLoop,
     Snapshots
<1>2. PassNow[p] = old
  BY PassIs
<1>3. old.status = "running" /\ old.todo = i .. Capacity - 1
  BY <1>1 DEF PassOf
<1>4. i \in old.todo
  BY <1>1, <1>3 DEF Slots
<1>5. (i .. Capacity - 1) \ {i} = (i + 1) .. Capacity - 1
  BY <1>1 DEF Slots
<1>6. /\ q = [status |-> "running", todo |-> (i + 1) .. Capacity - 1, window |-> s.window,
              limit |-> 2 * s.highest, found |-> Range(s.entries), missed |-> Missed(s)]
      /\ \A v : [q EXCEPT !.status = v]
                 = [status |-> v, todo |-> (i + 1) .. Capacity - 1, window |-> s.window,
                    limit |-> 2 * s.highest, found |-> Range(s.entries), missed |-> Missed(s)]
  <2>1. old = [status |-> "running", todo |-> i .. Capacity - 1, window |-> s.window,
               limit |-> 2 * s.highest, found |-> Range(snap[p].entries),
               missed |-> Missed(snap[p])]
    BY <1>1 DEF PassOf
  <2> HIDE DEF i, old
  <2>2. q = [status |-> "running", todo |-> (i + 1) .. Capacity - 1, window |-> s.window,
             limit |-> 2 * s.highest, found |-> Range(s.entries), missed |-> Missed(s)]
    <3> DEFINE rest == (i + 1) .. Capacity - 1
    <3>1. old.todo \ {i} = rest
      BY <1>5, <2>1
    <3>2. q = [old EXCEPT !.todo = rest, !.found = Range(s.entries), !.missed = Missed(s)]
      BY <3>1
    <3> HIDE DEF q, rest
    <3>3. q = [status |-> "running", todo |-> rest, window |-> s.window,
               limit |-> 2 * s.highest, found |-> Range(s.entries), missed |-> Missed(s)]
      BY <2>1, <3>2
    <3> QED
      BY <3>3 DEF rest
  <2> HIDE DEF q
  <2> QED
    BY <2>2
<1>7. BoardNow' = BoardNow
  BY DEF writerVars, BoardNow, Complete, Committed, Blank
<1>8. \A r \in Inspectors \ {p} :
          snap'[r] = snap[r] /\ ipc'[r] = ipc[r] /\ slot'[r] = slot[r]
  BY <1>1 DEF ToNextSlot
<1>9. /\ t.window = s.window /\ t.highest = s.highest /\ t.entries = s.entries
      /\ Missed(t) = Missed(s) /\ t.status = StatusOf(s)
  BY DEF Snapshots, Missed
<1> HIDE DEF i, t, q, old
<1>10. CASE i + 1 < Capacity
  <2>1. snap'[p] = s /\ ipc'[p] = "claim" /\ slot'[p] = i + 1
    BY <1>1, <1>10 DEF ToNextSlot, i
  <2>2. q.todo # {}
    <3>1. q.todo = (i + 1) .. Capacity - 1
      BY <1>6
    <3>2. i + 1 \in (i + 1) .. Capacity - 1
      BY <1>1, <1>10 DEF Slots
    <3> QED
      BY <3>1, <3>2
  <2>3. Board!Verdict(q) = "running"
    BY <2>2 DEF Board!Verdict
  <2>4. PassOf(s, "claim", i + 1) = [q EXCEPT !.status = "running"]
    BY <1>6 DEF PassOf
  <2>5. PassNow' = [PassNow EXCEPT ![p] = [q EXCEPT !.status = Board!Verdict(q)]]
    BY <1>8, <2>1, <2>3, <2>4, OnePassMoves
  <2>6. PassNow'[p] = PassOf(s, "claim", i + 1)
    BY <2>1, PassIs
  <2>7. i \notin PassNow'[p].todo
    BY <1>1, <2>6 DEF PassOf, Slots
  <2> QED
    BY <1>2, <1>3, <1>4, <1>7, <2>5, <2>7 DEF Board!Look, Board!Idle, q, i
<1>11. CASE ~ (i + 1 < Capacity)
  <2>1. snap'[p] = t /\ ipc'[p] = "idle" /\ slot'[p] = 0
    BY <1>1, <1>11 DEF ToNextSlot, i, t
  <2>2. q.todo = {}
    <3>1. q.todo = (i + 1) .. Capacity - 1
      BY <1>6
    <3>2. (i + 1) .. Capacity - 1 = {}
      BY <1>1, <1>11 DEF Slots
    <3> QED
      BY <3>1, <3>2
  <2>3. Range(s.entries) = {} <=> s.entries = <<>>
    <3>1. ASSUME s.entries # <<>> PROVE s.entries[1] \in Range(s.entries)
      <4>1. 1 \in 1 .. Len(s.entries) /\ DOMAIN s.entries = 1 .. Len(s.entries)
        BY <1>1, <3>1
      <4> QED
        BY <4>1 DEF Range
    <3>2. Range(<<>>) = {}
      BY DEF Range
    <3> QED
      BY <3>1, <3>2
  <2>4. q.missed = Missed(s) /\ q.found = Range(s.entries)
    BY <1>6
  <2>5. Board!Verdict(q) = StatusOf(s)
    BY <2>2, <2>3, <2>4 DEF Board!Verdict, StatusOf, Missed
  <2>6. PassOf(t, "idle", 0) = [q EXCEPT !.status = StatusOf(s)]
    <3>1. (i + 1) .. Capacity - 1 = {}
      BY <1>6, <2>2
    <3> QED
      BY <1>1, <1>6, <1>9, <3>1 DEF PassOf
  <2>7. PassNow' = [PassNow EXCEPT ![p] = [q EXCEPT !.status = Board!Verdict(q)]]
    BY <1>8, <2>1, <2>5, <2>6, OnePassMoves
  <2>8. PassNow'[p] = PassOf(t, "idle", 0)
    BY <2>1, PassIs
  <2>9. i \notin PassNow'[p].todo
    BY <1>1, <1>9, <2>8 DEF PassOf
  <2> QED
    BY <1>2, <1>3, <1>4, <1>7, <2>7, <2>9 DEF Board!Look, Board!Idle, q, i
<1> QED
  BY <1>10, <1>11

\* At the judgement the copy of a record is the slot's newest.
LEMMA JudgedRecord ==
    ASSUME Inv, StatusInv, NEW p \in Inspectors, ipc[p] = "judge", newest[slot[p]] # 0
    PROVE  copied[p] = Complete(newest[slot[p]], ledger[newest[slot[p]]])
<1> DEFINE i == slot[p]
<1> USE DEF Inv, ProtocolInv
<1>1. i \in Slots /\ InspectorOwns(p)
  BY DEF TypeOK, InspectorType, InspectorOwns
<1>2. \A w \in Writers : Writing(w) => Target(w) # i
  <2>1. \A w \in Writers : Writing(w) => WriterOwns(w)
    BY DEF Writing, WritingStages, WriterOwns, OwningStages
  <2> QED
    BY <1>1, <2>1, OwnersApart
<1>3. commitWord[p] # 0 => copied[p] = records[i]
  BY DEF InspectorsProgress
<1>4. commitWord[p] = 2 * newest[i] /\ newest[i] \in Nat
  BY JudgedWord
<1>5. records[i] = Complete(newest[i], ledger[newest[i]])
  BY <1>1, <1>2 DEF SettledSlots
<1> QED
  BY <1>3, <1>4, <1>5

\* Judging a slot is a look that sees its record, finds it empty, or misses it.
LEMMA JudgingLooks ==
    ASSUME SimulationInv, NEW p \in Inspectors, JudgeSlot(p)
    PROVE  \E i \in Slots : Board!See(p, i) \/ Board!FindEmpty(p, i) \/ Board!Miss(p, i)
<1> DEFINE i == slot[p]
           s == snap[p]
           word == commitWord[p]
           rec == copied[p]
           new == AddToWindow(s.entries, rec, s.window)
           t == Judged(p)
<1>1. /\ ipc[p] = "judge" /\ ToNextSlot(p, t) /\ UNCHANGED writerVars
  BY DEF JudgeSlot
<1>2. /\ i \in Slots /\ newest[i] \in SequenceNumbers /\ newest[i] \in Nat
      /\ word = 2 * newest[i]
      /\ newest[i] # 0 => SlotOf(newest[i]) = i /\ rec.sequence = word
  BY <1>1, JudgedWord DEF SimulationInv
<1>3. /\ s \in Snapshots /\ rec \in Payloads /\ t \in Snapshots /\ TypeOK
      /\ InspectorsProgress /\ OrderInv
      /\ s.window \in Nat \ {0} /\ Len(s.entries) <= s.window /\ s.highest \in Nat
      /\ s.entries \in Seq(Payloads)
  <2>1. /\ TypeOK /\ InspectorsProgress /\ OrderInv
    BY DEF SimulationInv, Inv, ProtocolInv
  <2>2. s \in Snapshots /\ rec \in Payloads /\ Len(s.entries) <= s.window /\ s.window > 0
    BY <1>1, <2>1 DEF TypeOK, InspectorType, InspectorsProgress
  <2>3. t \in Snapshots
    BY <1>1, <2>1, JudgedType
  <2>4. s.window \in Nat \ {0} /\ s.highest \in Nat
    BY <2>2, ReceiptWindow
  <2>5. s.entries \in Seq(Payloads)
    BY <2>2 DEF Snapshots
  <2> HIDE DEF s, rec, t
  <2> QED
    BY <2>1, <2>2, <2>3, <2>4, <2>5
<1>4. ReservationOf(word) = newest[i] /\ ~ InProgress(word)
  BY <1>2, WordParts
<1>5. \/ BoardNow[i] = Blank /\ newest[i] = 0
      \/ /\ newest[i] # 0 /\ BoardNow[i] # Blank /\ BoardNow[i].sequence = 2 * newest[i]
         /\ BoardNow[i] = Complete(newest[i], ledger[newest[i]])
  BY <1>2, BoardPlace DEF SimulationInv
<1>6. ipc[p] \in InLoop
  BY <1>1 DEF InLoop
<1>7. PassNow[p].found = Range(s.entries) /\ PassNow[p].missed = Missed(s)
      /\ PassNow[p].window = s.window /\ PassNow[p].limit = 2 * s.highest
  <2>1. PassNow[p] = PassOf(s, ipc[p], i)
    BY PassIs
  <2> QED
    BY <2>1 DEF PassOf
<1> HIDE DEF i, s, word, rec, t
<1>8. CASE newest[i] = 0
  <2>1. t = [s EXCEPT !.empty = @ + 1]
    BY <1>2, <1>8 DEF Judged, t, s, word
  <2>2. /\ t.highest = s.highest /\ t.window = s.window /\ t.entries = s.entries
        /\ Missed(t) = Missed(s)
    <3>1. s \in Snapshots
      BY <1>3
    <3> HIDE DEF new
    <3> QED
      BY <2>1, <3>1 DEF Snapshots, Missed
  <2>3. Board!Look(p, i, Range(s.entries), Missed(s))
    BY <1>1, <1>3, <1>6, <2>2, LeavingLooks DEF i, s
  <2>4. Board!FindEmpty(p, i)
    BY <1>5, <1>7, <1>8, <2>3 DEF Board!FindEmpty
  <2> QED
    BY <1>2, <2>4
<1>9. CASE newest[i] # 0 /\ newest[i] <= s.highest
  <2>1. IsValid(p)
    BY <1>2, <1>4, <1>9 DEF IsValid, i, s, word, rec
  <2>2. t = [s EXCEPT !.entries = new]
    BY <1>2, <1>9, <2>1 DEF Judged, t, s, word, rec
  <2>3. /\ t.highest = s.highest /\ t.window = s.window /\ t.entries = new
        /\ Missed(t) = Missed(s)
    <3> HIDE DEF new
    <3> QED
      BY <1>3, <2>2 DEF Snapshots, Missed
  <2>4. rec = BoardNow[i]
    BY <1>1, <1>2, <1>5, <1>9, JudgedRecord DEF SimulationInv, i, rec
  <2>5. Descending(s.entries) /\ \A k \in 1 .. Len(s.entries) : s.entries[k].sequence # rec.sequence
    <3>1. Descending(s.entries) /\ Behind(s, i)
      BY <1>3, <1>6 DEF OrderInv, InOrder, i, s
    <3>2. From(rec) = i
      BY <1>2, <1>4, <1>9 DEF From
    <3>3. \A k \in 1 .. Len(s.entries) : s.entries[k] \in Payloads
      BY <1>3
    <3>4. i \in Int /\ \A k \in 1 .. Len(s.entries) : From(s.entries[k]) \in Int
      BY <1>2, <3>3, PayloadFrom, CapacityAssumption DEF Slots
    <3>5. \A k \in 1 .. Len(s.entries) : From(s.entries[k]) # i
      BY <3>1, <3>4 DEF Behind
    <3>6. \A k \in 1 .. Len(s.entries) : s.entries[k].sequence # rec.sequence
      BY <3>2, <3>5 DEF From
    <3> QED
      BY <3>1, <3>6
  <2>6. Range(new) = Board!NewestOf(Range(s.entries) \cup {rec}, s.window)
    BY <1>3, <2>5, WindowIsNewest
  <2>7. Board!Look(p, i, Range(new), Missed(s))
    BY <1>1, <1>3, <1>6, <2>3, LeavingLooks DEF i, s
  <2>8. BoardNow[i].sequence <= PassNow[p].limit
    BY <1>2, <1>3, <1>5, <1>7, <1>9
  <2> HIDE DEF new
  <2>9. Board!See(p, i)
    BY <1>5, <1>7, <1>9, <2>4, <2>6, <2>7, <2>8 DEF Board!See
  <2> QED
    BY <1>2, <2>9
<1>10. CASE newest[i] # 0 /\ ~ (newest[i] <= s.highest)
  <2>1. word # 0 /\ newest[i] > s.highest
    BY <1>2, <1>3, <1>10
  <2>2. ~ IsValid(p)
    BY <1>4, <1>10 DEF IsValid, i, s, word, rec
  <2>3. t = [s EXCEPT !.after = @ + 1]
    BY <1>4, <1>10, <2>1, <2>2 DEF Judged, t, s, word
  <2>4. /\ t.highest = s.highest /\ t.window = s.window /\ t.entries = s.entries
        /\ Missed(t) = Missed(s) + 1
    <3>1. s \in Snapshots
      BY <1>3
    <3> HIDE DEF new
    <3> QED
      BY <2>3, <3>1 DEF Snapshots, Missed
  <2>5. Board!Look(p, i, Range(s.entries), Missed(s) + 1)
    BY <1>1, <1>3, <1>6, <2>4, LeavingLooks DEF i, s
  <2>6. Board!Miss(p, i)
    BY <1>7, <2>5 DEF Board!Miss
  <2> QED
    BY <1>2, <2>6
<1> QED
  BY <1>8, <1>9, <1>10

LEMMA InspectorSimulates ==
    ASSUME SimulationInv, NEW p \in Inspectors, InspectorStep(p)
    PROVE  Board!Next \/ UNCHANGED Board!vars
<1>0. UNCHANGED writerVars
  BY InspectorFrame
<1>1. CASE \E m \in Windows : BeginCapture(p, m)
  BY <1>1, CaptureBegins DEF Board!Next
<1>2. CASE LoadDropped(p)
  BY <1>2, NothingToSee DEF Board!Next
<1>3. CASE InspectSlot(p) \/ LoadSequence(p) \/ CopyHeader(p) \/ CopyMessage(p)
  <2>1. /\ snap' = snap /\ slot' = slot /\ ipc \in [Inspectors -> InspectorStages]
        /\ ipc[p] # "idle" /\ ipc'[p] # "idle"
        /\ \A q \in Inspectors \ {p} : ipc'[q] = ipc[q]
    BY <1>3 DEF InspectSlot, LoadSequence, CopyHeader, CopyMessage, InspectorGoes,
       SimulationInv, Inv, TypeOK, InspectorType
  <2>2. \A q \in Inspectors : PassOf(snap'[q], ipc'[q], slot'[q]) = PassOf(snap[q], ipc[q], slot[q])
    BY <2>1 DEF PassOf
  <2>3. PassNow' = PassNow
    BY <2>2, PassIs
  <2>4. BoardNow' = BoardNow
    BY <1>0 DEF writerVars, BoardNow, Complete, Committed, Blank
  <2> QED
    BY <2>3, <2>4 DEF Board!vars
<1>4. CASE SkipBusySlot(p)
  <2> DEFINE s == [snap[p] EXCEPT !.busy = @ + 1]
  <2>1. ipc[p] = "claim" /\ ToNextSlot(p, s)
    BY <1>4 DEF SkipBusySlot
  <2>2. snap[p] \in Snapshots /\ slot[p] \in Slots
    BY DEF SimulationInv, Inv, TypeOK, InspectorType
  <2>3. s \in Snapshots
    BY <2>2, Receipt
  <2>4. /\ s.highest = snap[p].highest /\ s.window = snap[p].window
        /\ s.entries = snap[p].entries /\ Missed(s) = Missed(snap[p]) + 1
    BY <2>2 DEF Snapshots, Missed
  <2> HIDE DEF s
  <2>5. Board!Look(p, slot[p], Range(snap[p].entries), Missed(snap[p]) + 1)
    BY <1>0, <2>1, <2>3, <2>4, LeavingLooks DEF InLoop
  <2>6. PassNow[p].found = Range(snap[p].entries) /\ PassNow[p].missed = Missed(snap[p])
    BY PassIs DEF PassOf
  <2>7. Board!Miss(p, slot[p])
    BY <2>5, <2>6 DEF Board!Miss
  <2> QED
    BY <2>2, <2>7 DEF Board!Next
<1>5. CASE JudgeSlot(p)
  BY <1>5, JudgingLooks DEF Board!Next
<1> QED
  BY <1>1, <1>2, <1>3, <1>4, <1>5 DEF InspectorStep, Inspect

LEMMA LimitStep ==
    ASSUME TypeOK, InspectorsProgress, LimitInv, [Next]_vars
    PROVE  LimitInv'
<1>1. ASSUME NEW p \in Inspectors, InspectorStep(p) PROVE LimitInv'
  <2>1. /\ snap \in [Inspectors -> Snapshots] /\ ipc \in [Inspectors -> InspectorStages]
        /\ slot \in [Inspectors -> Slots]
    BY DEF TypeOK, InspectorType
  <2>2. \A q \in Inspectors \ {p} : snap'[q] = snap[q] /\ ipc'[q] = ipc[q]
    BY <1>1, <2>1 DEF InspectorStep, Inspect, InspectorGoes, BeginCapture, LoadDropped,
       InspectSlot, SkipBusySlot, ToNextSlot, LoadSequence, CopyHeader, CopyMessage, JudgeSlot
  <2>3. ipc'[p] \in InLoop => snap'[p].highest # 0
    <3>1. CASE \E m \in Windows : BeginCapture(p, m)
      BY <2>1, <3>1 DEF BeginCapture, InLoop
    <3>2. CASE LoadDropped(p)
      BY <2>1, <3>2 DEF LoadDropped, InspectorGoes, InLoop, Snapshots
    <3>3. CASE InspectSlot(p) \/ LoadSequence(p) \/ CopyHeader(p) \/ CopyMessage(p)
      <4>1. ipc[p] \in InLoop /\ snap' = snap
        BY <3>3 DEF InspectSlot, LoadSequence, CopyHeader, CopyMessage, InspectorGoes, InLoop
      <4> QED
        BY <4>1 DEF LimitInv
    <3>4. ASSUME NEW s \in Snapshots, ToNextSlot(p, s), ipc[p] \in InLoop,
                 s.highest = snap[p].highest
          PROVE  snap'[p].highest # 0
      <4>1. s.highest # 0 /\ [s EXCEPT !.status = StatusOf(s)].highest = s.highest
        BY <3>4 DEF LimitInv, Snapshots
      <4>2. snap'[p] = s \/ snap'[p] = [s EXCEPT !.status = StatusOf(s)]
        BY <2>1, <3>4 DEF ToNextSlot
      <4> QED
        BY <4>1, <4>2
    <3>5. CASE SkipBusySlot(p)
      <4> DEFINE s == [snap[p] EXCEPT !.busy = @ + 1]
      <4>0. snap[p] \in Snapshots
        BY <2>1
      <4>1. s \in Snapshots /\ s.highest = snap[p].highest
        <5>1. s \in Snapshots
          BY <4>0, Receipt
        <5> QED
          BY <4>0, <5>1 DEF Snapshots
      <4>2. ToNextSlot(p, s) /\ ipc[p] \in InLoop
        BY <3>5 DEF SkipBusySlot, InLoop
      <4> HIDE DEF s
      <4> QED
        BY <3>4, <4>1, <4>2
    <3>6. CASE JudgeSlot(p)
      <4>1. ToNextSlot(p, Judged(p)) /\ ipc[p] = "judge" /\ ipc[p] \in InLoop
        BY <3>6 DEF JudgeSlot, InLoop
      <4>2. Judged(p) \in Snapshots
        BY <4>1, JudgedType
      <4>3. Judged(p).highest = snap[p].highest
        <5>1. snap[p] \in Snapshots
          BY <2>1
        <5> QED
          BY <5>1 DEF Judged, Snapshots
      <4> QED
        BY <3>4, <4>1, <4>2, <4>3
    <3> QED
      BY <1>1, <3>1, <3>2, <3>3, <3>5, <3>6 DEF InspectorStep, Inspect
  <2> QED
    BY <2>2, <2>3 DEF LimitInv
<1>2. CASE UNCHANGED inspectorVars
  BY <1>2 DEF LimitInv, inspectorVars
<1> QED
  BY <1>1, <1>2, WriterFrame, NextIsStep DEF vars

\* Whatever the interleaving of writers and inspectors, records appear, replace each other
\* and are looked at atomically, and each pass keeps the newest it saw: what ring.hpp:7-15
\* promises, with the access words and the two-phase sequence words left out.
THEOREM RingImplementsBoard == Spec => ImplementsBoard
<1>1. Init => Board!Init
  <2> SUFFICES ASSUME Init PROVE Board!Init
    OBVIOUS
  <2>1. BoardNow = [i \in Slots |-> Blank]
    BY DEF Init, BoardNow
  <2>2. \A p \in Inspectors : PassOf(snap[p], ipc[p], slot[p]) =
            [status |-> "empty", todo |-> Slots, window |-> 0, limit |-> 0,
             found |-> {}, missed |-> 0]
    <3>1. Range(<<>>) = {}
      BY DEF Range
    <3>2. \A p \in Inspectors : ipc[p] = "idle" /\ slot[p] = 0 /\ snap[p] = EmptySnapshot(0)
      BY DEF Init
    <3>3. EmptySnapshot(0).entries = <<>> /\ EmptySnapshot(0).status = "empty"
          /\ EmptySnapshot(0).window = 0 /\ EmptySnapshot(0).highest = 0
      BY DEF EmptySnapshot
    <3>4. Missed(EmptySnapshot(0)) = 0
      BY DEF EmptySnapshot, Missed
    <3>5. Range(EmptySnapshot(0).entries) = {} /\ 2 * EmptySnapshot(0).highest = 0
      BY <3>1, <3>3
    <3>6. PassOf(EmptySnapshot(0), "idle", 0) =
              [status |-> "empty", todo |-> Slots, window |-> 0, limit |-> 0,
               found |-> {}, missed |-> 0]
      BY <3>3, <3>4, <3>5 DEF PassOf, Slots
    <3> QED
      BY <3>2, <3>6
  <2> QED
    BY <2>1, <2>2, PassIs DEF Board!Init
<1>2. Init => SimulationInv
  <2>1. Init => LimitInv
    BY DEF Init, LimitInv, InLoop
  <2> QED
    BY <2>1, InitInv, InitOrder, InitStatus DEF SimulationInv
<1>3. SimulationInv /\ [Next]_vars => SimulationInv'
  BY StepInv, OrderStep, StatusStep, StartsAtFirstStep, LimitStep
  DEF SimulationInv, Inv, ProtocolInv
<1>4. SimulationInv /\ [Next]_vars => [Board!Next]_(Board!vars)
  <2> SUFFICES ASSUME SimulationInv, [Next]_vars PROVE Board!Next \/ UNCHANGED Board!vars
    OBVIOUS
  <2>1. CASE UNCHANGED vars
    BY <2>1 DEF vars, ringVars, writerVars, inspectorVars, Board!vars, BoardNow, PassNow,
       Complete, Committed, Blank
  <2> QED
    BY <2>1, WriterSimulates, InspectorSimulates, NextIsStep
<1> QED
  BY <1>1, <1>2, <1>3, <1>4, PTL DEF Spec, ImplementsBoard, Board!Spec
=============================================================================
