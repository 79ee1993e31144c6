------------------------- MODULE DiagServiceProofs -------------------------
(***************************************************************************)
(* Theorems about the diagnostics service, for any number of producers,    *)
(* any lanes, with and without emits that overlap a shutdown and a writer  *)
(* that crashes: types; no record is lost without a trace; the sink gets   *)
(* each lane in order; what shutdown() has flushed, and what it reports.   *)
(***************************************************************************)
EXTENDS DiagService, FiniteSetTheorems, SequenceTheorems, TLAPS

Active == {p \in Producers : Emitting(p)}

-----------------------------------------------------------------------------
(* The inductive invariant, by the part of the service it is about.         *)

LanesHold ==
    /\ general \in Seq(Records) /\ Len(general) <= GeneralSlots
    /\ critical \in Seq(Records) /\ Len(critical) <= CriticalSlots
    /\ emitted \in [Lanes -> Nat] /\ drained \in [Lanes -> Nat]
    /\ dropped \in Nat /\ overflow \in Nat

\* Whoever is in emit() has stamped its record.
ProducersHold ==
    /\ nextSequence \in 0 .. MaxEmits
    /\ ppc \in [Producers -> ProducerStages]
    /\ rec \in [Producers -> Records \cup {NoRecord}]
    /\ \A p \in Producers : Emitting(p) => rec[p] \in Records
    /\ IsFiniteSet(Active)

\* The writer holds a record exactly while it delivers one, or crashed over it.
WriterHolds ==
    /\ wpc \in WriterStages
    /\ hand \in Seq(Records) /\ Len(hand) <= 1
    /\ wpc \in {"deliver", "flush"} => Len(hand) = 1
    /\ wpc \notin {"deliver", "flush", "crashed", "reported"} => hand = <<>>

SinkHolds ==
    /\ file \in {"open", "failed", "closed"} /\ sink \in Seq(Records)
    /\ sinkFailures \in Nat

\* Nobody is in emit() while there is no service.
HostHolds ==
    /\ service \in {"none", "live"} /\ installs \in 0 .. MaxInstalls
    /\ hpc \in HostStages
    /\ service = "none" => Active = {}

\* Histories are of records; they change no part of ServiceInv.
HistoryHolds ==
    /\ promised \subseteq Records /\ taken \subseteq Records
    /\ evicted \subseteq Records /\ unseen \subseteq Records

FlagsHold == stop \in BOOLEAN /\ flushExpired \in BOOLEAN /\ lateRecords \in Nat

ResultHolds ==
    result \in [drained : Int, general : Nat, critical : Nat, flushed : BOOLEAN]

\* EveryRecordAccounted, its sum in parts: what a lane refused, evicted or holds, and what
\* the writer took.
Offered == (overflow + dropped) + (Len(general) + Len(critical))
Taken == Len(hand) + (Len(sink) + RecordFailures)
Accounted ==
    /\ nextSequence = Cardinality(Active) + Offered + Taken
    /\ emitted["general"] = drained["general"] + dropped + Len(general)
    /\ emitted["critical"] = drained["critical"] + Len(critical)

ServiceInv ==
    /\ LanesHold /\ ProducersHold /\ WriterHolds /\ SinkHolds /\ HostHolds
    /\ FlagsHold /\ ResultHolds /\ Accounted

-----------------------------------------------------------------------------
LEMMA LanesAside == LanesHold /\ UNCHANGED laneVars => LanesHold'
BY DEF LanesHold, laneVars

LEMMA ProducersAside == ProducersHold /\ UNCHANGED <<emitVars, ppc>> => ProducersHold'
BY DEF ProducersHold, emitVars, Active, Emitting

LEMMA SinkAside == SinkHolds /\ UNCHANGED sinkVars => SinkHolds'
BY DEF SinkHolds, sinkVars

LEMMA HostAside == HostHolds /\ UNCHANGED <<hostVars, ppc>> => HostHolds'
BY DEF HostHolds, hostVars, Active, Emitting

LEMMA FlagsAside == FlagsHold /\ UNCHANGED <<stop, flushExpired, lateRecords>> => FlagsHold'
BY DEF FlagsHold

LEMMA WriterAside == WriterHolds /\ UNCHANGED <<wpc, hand>> => WriterHolds'
BY DEF WriterHolds

LEMMA ResultAside == ResultHolds /\ UNCHANGED result => ResultHolds'
BY DEF ResultHolds

\* A step that moves no record and ends no emit leaves the accounts alone.
LEMMA AccountsAside ==
    ASSUME Accounted, Active' = Active, RecordFailures' = RecordFailures,
           UNCHANGED <<laneVars, nextSequence, hand, sink>>
    PROVE  Accounted'
BY DEF Accounted, Offered, Taken, laneVars

\* The terms of the accounts are numbers.
LEMMA Numbers ==
    ASSUME ServiceInv
    PROVE  /\ Cardinality(Active) \in Nat /\ overflow \in Nat /\ dropped \in Nat
           /\ Len(general) \in Nat /\ Len(critical) \in Nat /\ Len(hand) \in Nat
           /\ Len(sink) \in Nat /\ RecordFailures \in Int /\ nextSequence \in Nat
           /\ emitted["general"] \in Nat /\ emitted["critical"] \in Nat
           /\ drained["general"] \in Nat /\ drained["critical"] \in Nat
           /\ Offered \in Int /\ Taken \in Int
<1>1. Cardinality(Active) \in Nat
  BY FS_CardinalityType DEF ServiceInv, ProducersHold
<1>2. Len(general) \in Nat /\ Len(critical) \in Nat /\ Len(hand) \in Nat /\ Len(sink) \in Nat
  BY LenProperties DEF ServiceInv, LanesHold, WriterHolds, SinkHolds
<1>3. RecordFailures \in Int
  BY DEF RecordFailures, ServiceInv, SinkHolds
<1>4. nextSequence \in Nat
  BY BoundAssumption DEF ServiceInv, ProducersHold
<1>5. overflow \in Nat /\ dropped \in Nat
  BY DEF ServiceInv, LanesHold
<1>6. Offered \in Int /\ Taken \in Int
  BY <1>2, <1>3, <1>5 DEF Offered, Taken
<1> QED
  BY <1>1, <1>2, <1>3, <1>4, <1>6 DEF ServiceInv, LanesHold, Lanes

-----------------------------------------------------------------------------
(* Producers.                                                               *)

\* A producer that moves on inside emit() is still in it.
LEMMA ProducerMoves ==
    ASSUME ServiceInv, NEW p \in Producers, NEW from, NEW to \in ProducerStages \ {"idle"},
           ProducerGoes(p, from, to), from \subseteq ProducerStages \ {"idle"}
    PROVE  Active' = Active /\ ppc' \in [Producers -> ProducerStages]
<1>1. ppc[p] # "idle" /\ ppc \in [Producers -> ProducerStages]
  BY DEF ProducerGoes, ServiceInv, ProducersHold
<1>2. \A q \in Producers : ppc'[q] # "idle" <=> ppc[q] # "idle"
  BY <1>1 DEF ProducerGoes
<1> QED
  BY <1>1, <1>2 DEF ProducerGoes, Active, Emitting

\* One that returns leaves the others where they are.
LEMMA ProducerReturns ==
    ASSUME ServiceInv, NEW p \in Producers, NEW from,
           Returns(p, from), from \subseteq ProducerStages \ {"idle"}, UNCHANGED nextSequence
    PROVE  /\ rec[p] \in Records
           /\ ProducersHold'
           /\ Active' \subseteq Active /\ Cardinality(Active') = Cardinality(Active) - 1
<1>1. /\ ppc[p] # "idle" /\ ppc \in [Producers -> ProducerStages]
      /\ rec \in [Producers -> Records \cup {NoRecord}] /\ IsFiniteSet(Active)
  BY DEF Returns, ProducerGoes, ServiceInv, ProducersHold
<1>2. ppc' = [ppc EXCEPT ![p] = "idle"] /\ rec' = [rec EXCEPT ![p] = NoRecord]
  BY DEF Returns, ProducerGoes
<1>3. Active' = Active \ {p} /\ p \in Active
  BY <1>1, <1>2 DEF Active, Emitting
<1>4. IsFiniteSet(Active') /\ Cardinality(Active') = Cardinality(Active) - 1
  BY <1>1, <1>3, FS_RemoveElement
<1>5. \A q \in Producers : Emitting(q) => rec[q] \in Records
  BY DEF ServiceInv, ProducersHold
<1>6. \A q \in Producers : Emitting(q)' => q # p /\ Emitting(q) /\ rec'[q] = rec[q]
  BY <1>1, <1>2 DEF Emitting
<1>7. rec' \in [Producers -> Records \cup {NoRecord}] /\ ppc' \in [Producers -> ProducerStages]
  BY <1>1, <1>2 DEF ProducerStages
<1>8. ProducersHold'
  BY <1>4, <1>5, <1>6, <1>7 DEF ProducersHold, ServiceInv
<1> QED
  BY <1>1, <1>3, <1>4, <1>5, <1>8 DEF Active

LEMMA BeginEmitKeeps ==
    ASSUME ServiceInv, NEW p \in Producers, NEW level \in Levels, BeginEmit(p, level)
    PROVE  ServiceInv'
<1>1. /\ ppc[p] = "idle" /\ ppc \in [Producers -> ProducerStages]
      /\ rec \in [Producers -> Records \cup {NoRecord}] /\ IsFiniteSet(Active)
  BY DEF BeginEmit, ProducerGoes, ServiceInv, ProducersHold
<1>2. ppc' = [ppc EXCEPT ![p] = level] /\ level \in ProducerStages \ {"idle"}
  BY DEF BeginEmit, ProducerGoes, Levels, ProducerStages
<1> DEFINE stamped == [producer |-> p, sequence |-> nextSequence, level |-> level]
<1>3. rec' = [rec EXCEPT ![p] = stamped]
  BY DEF BeginEmit
<1>4. stamped \in Records
  BY Numbers DEF Records
<1> HIDE DEF stamped
<1>5. Active' = Active \cup {p} /\ p \notin Active
  BY <1>1, <1>2 DEF Active, Emitting
<1>6. IsFiniteSet(Active') /\ Cardinality(Active') = Cardinality(Active) + 1
  BY <1>1, <1>5, FS_AddElement
<1>7. ProducersHold'
  <2>1. nextSequence' \in 0 .. MaxEmits
    BY SMTT(20), Numbers, BoundAssumption DEF BeginEmit
  <2>2. ppc' \in [Producers -> ProducerStages]
        /\ rec' \in [Producers -> Records \cup {NoRecord}]
    BY <1>1, <1>2, <1>3, <1>4
  <2>3. \A q \in Producers : Emitting(q)' => rec'[q] \in Records
    <3> SUFFICES ASSUME NEW q \in Producers, Emitting(q)' PROVE rec'[q] \in Records
      OBVIOUS
    <3>1. CASE q = p
      BY <1>1, <1>3, <1>4, <3>1
    <3>2. CASE q # p
      <4>1. Emitting(q) /\ rec'[q] = rec[q]
        BY <1>1, <1>2, <1>3, <3>2 DEF Emitting
      <4> QED
        BY <4>1 DEF ServiceInv, ProducersHold
    <3> QED
      BY <3>1, <3>2
  <2> QED
    BY <1>6, <2>1, <2>2, <2>3 DEF ProducersHold
<1>8. HostHolds'
  BY DEF HostHolds, ServiceInv, BeginEmit, hostVars
<1>9. Accounted'
  <2>1. RecordFailures' = RecordFailures /\ nextSequence' = nextSequence + 1
    BY DEF BeginEmit, sinkVars, RecordFailures
  <2>2. UNCHANGED <<laneVars, hand, sink>>
    BY DEF BeginEmit, sinkVars
  <2>3. Accounted
    BY DEF ServiceInv
  <2>4. /\ UNCHANGED <<overflow, dropped, emitted, drained>>
        /\ Len(general') = Len(general) /\ Len(critical') = Len(critical)
        /\ Offered' = Offered /\ Taken' = Taken
    BY <2>1, <2>2 DEF laneVars, Offered, Taken
  <2> QED
    BY SMTT(20), <1>6, <2>1, <2>3, <2>4, Numbers DEF Accounted
<1>10. LanesHold' /\ SinkHolds' /\ WriterHolds' /\ FlagsHold' /\ ResultHolds'
  BY LanesAside, SinkAside, WriterAside, FlagsAside, ResultAside
  DEF ServiceInv, BeginEmit, hostVars
<1> QED
  BY <1>7, <1>8, <1>9, <1>10 DEF ServiceInv

\* What a step of a producer leaves alone, beyond the lanes.
LEMMA ProducerElse ==
    ASSUME ServiceInv, UNCHANGED <<wpc, hand, sinkVars, hostVars, lateRecords>>,
           Active' \subseteq Active
    PROVE  WriterHolds' /\ SinkHolds' /\ HostHolds' /\ FlagsHold' /\ ResultHolds'
           /\ RecordFailures' = RecordFailures
<1>1. HostHolds'
  BY DEF ServiceInv, HostHolds, hostVars
<1>2. RecordFailures' = RecordFailures
  BY DEF RecordFailures, sinkVars
<1> QED
  BY <1>1, <1>2, WriterAside, SinkAside, FlagsAside, ResultAside DEF ServiceInv, hostVars

LEMMA PushDropOldestKeeps ==
    ASSUME ServiceInv, NEW p \in Producers, PushDropOldest(p)
    PROVE  ServiceInv'
<1>1. /\ rec[p] \in Records /\ ProducersHold' /\ Active' \subseteq Active
      /\ Cardinality(Active') = Cardinality(Active) - 1
  BY ProducerReturns DEF PushDropOldest, ProducerStages
<1>2. WriterHolds' /\ SinkHolds' /\ HostHolds' /\ FlagsHold' /\ ResultHolds'
      /\ RecordFailures' = RecordFailures
  BY <1>1, ProducerElse DEF PushDropOldest
<1>3. general \in Seq(Records) /\ Len(general) \in Nat /\ Len(general) <= GeneralSlots
      /\ GeneralSlots \in Nat \ {0}
  BY Numbers, SlotsAssumption DEF ServiceInv, LanesHold
<1>4. /\ general' \in Seq(Records) /\ Len(general') <= GeneralSlots
      /\ Len(general') \in Nat /\ dropped' \in Nat
      /\ Len(general') + dropped' = Len(general) + dropped + 1
  <2>1. CASE LaneFull(general, GeneralSlots)
    <3>1. general # <<>>
      BY <1>3, <2>1, EmptySeq DEF LaneFull
    <3>2. Tail(general) \in Seq(Records) /\ Len(Tail(general)) = Len(general) - 1
      BY <1>3, <3>1, HeadTailProperties
    <3>3. general' = Append(Tail(general), rec[p]) /\ dropped' = dropped + 1
      BY <2>1 DEF PushDropOldest, DropOldest, Lost
    <3>4. general' \in Seq(Records) /\ Len(general') = Len(general)
      BY <1>1, <1>3, <3>2, <3>3, AppendProperties
    <3>5. dropped \in Nat
      BY Numbers
    <3> QED
      BY <1>3, <3>3, <3>4, <3>5
  <2>2. CASE ~ LaneFull(general, GeneralSlots)
    <3>1. general' = Append(general, rec[p]) /\ dropped' = dropped
      BY <2>2 DEF PushDropOldest
    <3>2. general' \in Seq(Records) /\ Len(general') = Len(general) + 1
      BY <1>1, <1>3, <3>1, AppendProperties
    <3>3. Len(general) < GeneralSlots
      BY <1>3, <2>2 DEF LaneFull
    <3>4. dropped \in Nat
      BY Numbers
    <3> QED
      BY <1>3, <3>1, <3>2, <3>3, <3>4
  <2> QED
    BY <2>1, <2>2
<1>5. /\ emitted' \in [Lanes -> Nat] /\ emitted'["general"] = emitted["general"] + 1
      /\ emitted'["critical"] = emitted["critical"]
  <2>1. emitted' = [emitted EXCEPT !["general"] = @ + 1] /\ emitted \in [Lanes -> Nat]
    BY DEF PushDropOldest, ServiceInv, LanesHold
  <2> QED
    BY <2>1 DEF Lanes
<1>6. LanesHold'
  BY <1>4, <1>5 DEF LanesHold, ServiceInv, PushDropOldest
<1>7. Accounted'
  <2>1. UNCHANGED <<critical, drained, overflow, nextSequence, hand, sink>>
    BY DEF PushDropOldest, sinkVars
  <2>2. Taken' = Taken
    BY <1>2, <2>1 DEF Taken
  <2>3. Offered' = Offered + 1
    <3>1. /\ overflow \in Nat /\ dropped \in Nat /\ Len(general) \in Nat
          /\ Len(critical) \in Nat
      BY Numbers
    <3>2. overflow' = overflow /\ Len(critical') = Len(critical)
      BY <2>1
    <3> QED
      BY <1>4, <3>1, <3>2 DEF Offered
  <2>4. Accounted
    BY DEF ServiceInv
  <2>5. nextSequence' = Cardinality(Active') + Offered' + Taken'
    <3>1. /\ Cardinality(Active) \in Nat /\ Offered \in Int /\ Taken \in Int
      BY Numbers
    <3>2. nextSequence' = Cardinality(Active) + Offered + Taken
      BY <2>1, <2>4 DEF Accounted
    <3> QED
      BY <1>1, <2>2, <2>3, <3>1, <3>2
  <2>6. emitted'["general"] = drained'["general"] + dropped' + Len(general')
    <3>1. /\ drained["general"] \in Nat /\ dropped \in Nat /\ Len(general) \in Nat
      BY Numbers
    <3>2. emitted["general"] = drained["general"] + dropped + Len(general)
          /\ drained' = drained
      BY <2>1, <2>4 DEF Accounted
    <3>3. emitted'["general"] = drained["general"] + (Len(general) + dropped + 1)
      BY <1>5, <3>1, <3>2
    <3>4. emitted'["general"] = drained["general"] + (Len(general') + dropped')
      BY <1>4, <3>3
    <3> QED
      BY <1>4, <3>1, <3>2, <3>4
  <2> QED
    BY <1>5, <2>1, <2>4, <2>5, <2>6 DEF Accounted
<1> QED
  BY <1>1, <1>2, <1>6, <1>7 DEF ServiceInv

LEMMA PushOrWaitKeeps ==
    ASSUME ServiceInv, NEW p \in Producers, PushOrWait(p)
    PROVE  ServiceInv'
<1>1. CASE LaneFull(critical, CriticalSlots)
  <2>1. /\ ProducerGoes(p, {"critical", "notified"}, "waiting")
        /\ UNCHANGED <<laneVars, emitVars, hand, sinkVars>>
    BY <1>1 DEF PushOrWait, laneVars, emitVars
  <2>2. Active' = Active /\ ppc' \in [Producers -> ProducerStages]
    BY <2>1, ProducerMoves DEF ProducerStages
  <2>3. ProducersHold'
    BY <2>1, <2>2 DEF ProducersHold, ServiceInv, emitVars, Active
  <2>4. WriterHolds' /\ SinkHolds' /\ HostHolds' /\ FlagsHold' /\ ResultHolds'
        /\ RecordFailures' = RecordFailures
    BY <2>2, ProducerElse DEF PushOrWait
  <2>5. Accounted' /\ LanesHold'
    BY <2>1, <2>2, <2>4, AccountsAside, LanesAside DEF ServiceInv, emitVars, sinkVars
  <2> QED
    BY <2>3, <2>4, <2>5 DEF ServiceInv
<1>2. CASE ~ LaneFull(critical, CriticalSlots)
  <2>1. /\ Returns(p, {"critical", "notified"}) /\ critical' = Append(critical, rec[p])
        /\ emitted' = [emitted EXCEPT !["critical"] = @ + 1]
        /\ UNCHANGED <<general, drained, dropped, overflow, nextSequence, wpc, hand, sinkVars,
                       hostVars, lateRecords>>
    BY <1>2 DEF PushOrWait
  <2>2. /\ rec[p] \in Records /\ ProducersHold' /\ Active' \subseteq Active
        /\ Cardinality(Active') = Cardinality(Active) - 1
    BY <2>1, ProducerReturns DEF ProducerStages
  <2>3. WriterHolds' /\ SinkHolds' /\ HostHolds' /\ FlagsHold' /\ ResultHolds'
        /\ RecordFailures' = RecordFailures
    BY <2>1, <2>2, ProducerElse
  <2>4. critical' \in Seq(Records) /\ Len(critical') = Len(critical) + 1
        /\ Len(critical') <= CriticalSlots
    <3>1. critical \in Seq(Records) /\ Len(critical) <= CriticalSlots
      BY DEF ServiceInv, LanesHold
    <3>2. critical' \in Seq(Records) /\ Len(critical') = Len(critical) + 1
      BY <2>1, <2>2, <3>1, AppendProperties
    <3> QED
      BY <1>2, <3>1, <3>2, Numbers, SlotsAssumption DEF LaneFull
  <2>5. /\ emitted' \in [Lanes -> Nat] /\ emitted'["critical"] = emitted["critical"] + 1
        /\ emitted'["general"] = emitted["general"]
    <3>1. emitted \in [Lanes -> Nat]
      BY DEF ServiceInv, LanesHold
    <3> QED
      BY <2>1, <3>1 DEF Lanes
  <2>6. LanesHold'
    BY <2>1, <2>4, <2>5 DEF LanesHold, ServiceInv
  <2>7. Accounted'
    <3>1. Taken' = Taken
      BY <2>1, <2>3 DEF Taken, sinkVars
    <3>2. Offered' = Offered + 1
      <4>1. /\ overflow \in Nat /\ dropped \in Nat /\ Len(general) \in Nat
            /\ Len(critical) \in Nat
        BY Numbers
      <4>2. overflow' = overflow /\ dropped' = dropped /\ Len(general') = Len(general)
        BY <2>1
      <4> QED
        BY <2>4, <4>1, <4>2 DEF Offered
    <3>3. Accounted
      BY DEF ServiceInv
    <3>4. nextSequence' = Cardinality(Active') + Offered' + Taken'
      <4>1. /\ Cardinality(Active) \in Nat /\ Offered \in Int /\ Taken \in Int
        BY Numbers
      <4>2. nextSequence' = Cardinality(Active) + Offered + Taken
        BY <2>1, <3>3 DEF Accounted
      <4> QED
        BY <2>2, <3>1, <3>2, <4>1, <4>2
    <3>5. emitted'["critical"] = drained'["critical"] + Len(critical')
      <4>1. drained["critical"] \in Nat /\ Len(critical) \in Nat
        BY Numbers
      <4> QED
        BY <2>1, <2>4, <2>5, <3>3, <4>1 DEF Accounted
    <3> QED
      BY <2>1, <2>5, <3>3, <3>4, <3>5 DEF Accounted
  <2> QED
    BY <2>2, <2>3, <2>6, <2>7 DEF ServiceInv
<1> QED
  BY <1>1, <1>2

LEMMA WakeKeeps ==
    ASSUME ServiceInv, NEW p \in Producers, WakeSpuriously(p)
    PROVE  ServiceInv'
<1>1. Active' = Active /\ ppc' \in [Producers -> ProducerStages]
  BY ProducerMoves DEF WakeSpuriously, ProducerStages
<1>2. ProducersHold'
  BY <1>1 DEF ProducersHold, ServiceInv, WakeSpuriously, emitVars, Active
<1>3. WriterHolds' /\ SinkHolds' /\ HostHolds' /\ FlagsHold' /\ ResultHolds'
      /\ RecordFailures' = RecordFailures
  BY <1>1, ProducerElse DEF WakeSpuriously
<1>4. Accounted' /\ LanesHold'
  BY <1>1, <1>3, AccountsAside, LanesAside DEF ServiceInv, WakeSpuriously, emitVars, sinkVars
<1> QED
  BY <1>2, <1>3, <1>4 DEF ServiceInv

LEMMA TimeOutKeeps ==
    ASSUME ServiceInv, NEW p \in Producers, TimeOut(p)
    PROVE  ServiceInv'
<1>1. /\ rec[p] \in Records /\ ProducersHold' /\ Active' \subseteq Active
      /\ Cardinality(Active') = Cardinality(Active) - 1
  BY ProducerReturns DEF TimeOut, ProducerStages
<1>2. WriterHolds' /\ SinkHolds' /\ HostHolds' /\ FlagsHold' /\ ResultHolds'
      /\ RecordFailures' = RecordFailures
  BY <1>1, ProducerElse DEF TimeOut
<1>3. LanesHold'
  BY DEF LanesHold, ServiceInv, TimeOut
<1>4. Accounted'
  <2>1. Taken' = Taken
    BY <1>2 DEF TimeOut, Taken, sinkVars
  <2>2. /\ overflow' = overflow + 1
        /\ UNCHANGED <<general, critical, emitted, drained, dropped, nextSequence>>
    BY DEF TimeOut
  <2>3. Offered' = Offered + 1
    <3>1. overflow \in Nat /\ dropped \in Nat /\ Len(general) \in Nat /\ Len(critical) \in Nat
      BY Numbers
    <3>2. Len(general') = Len(general) /\ Len(critical') = Len(critical) /\ dropped' = dropped
      BY <2>2
    <3> QED
      BY <2>2, <3>1, <3>2 DEF Offered
  <2>4. Accounted
    BY DEF ServiceInv
  <2>5. nextSequence' = Cardinality(Active') + Offered' + Taken'
    <3>1. Cardinality(Active) \in Nat /\ Offered \in Int /\ Taken \in Int
      BY Numbers
    <3>2. nextSequence' = Cardinality(Active) + Offered + Taken
      BY <2>2, <2>4 DEF Accounted
    <3> QED
      BY <1>1, <2>1, <2>3, <3>1, <3>2
  <2> QED
    BY <2>2, <2>4, <2>5 DEF Accounted
<1> QED
  BY <1>1, <1>2, <1>3, <1>4 DEF ServiceInv

-----------------------------------------------------------------------------
(* The writer.                                                              *)

\* What a step of the writer leaves alone, beyond the lanes.
LEMMA WriterElse ==
    ASSUME ServiceInv, UNCHANGED <<hostVars, nextSequence, rec>>,
           Active' = Active, ppc' \in [Producers -> ProducerStages], lateRecords' \in Nat
    PROVE  ProducersHold' /\ HostHolds' /\ FlagsHold' /\ ResultHolds'
<1>1. \A p \in Producers : Emitting(p)' => Emitting(p)
  BY DEF Active
<1>2. ProducersHold'
  BY <1>1 DEF ProducersHold, ServiceInv
<1>3. HostHolds'
  BY DEF ServiceInv, HostHolds, hostVars
<1>4. FlagsHold'
  BY DEF ServiceInv, FlagsHold, hostVars
<1> QED
  BY <1>2, <1>3, <1>4, ResultAside DEF ServiceInv, hostVars

\* A step of its loop that moves no record.
LEMMA WriterMoves ==
    ASSUME ServiceInv, WriterOnly, wpc' \in WriterStages,
           wpc' \in {"deliver", "flush"} => Len(hand) = 1,
           wpc' \notin {"deliver", "flush", "crashed", "reported"} => hand = <<>>
    PROVE  ServiceInv'
<1>1. Active' = Active /\ RecordFailures' = RecordFailures
  BY DEF WriterOnly, Active, Emitting, RecordFailures, sinkVars
<1>2. ProducersHold' /\ HostHolds' /\ FlagsHold' /\ ResultHolds'
  <2>1. ppc' \in [Producers -> ProducerStages] /\ lateRecords' \in Nat
    BY DEF ServiceInv, ProducersHold, FlagsHold, WriterOnly
  <2> QED
    BY <1>1, <2>1, WriterElse DEF WriterOnly, emitVars
<1>3. WriterHolds'
  BY DEF ServiceInv, WriterHolds, WriterOnly
<1>4. LanesHold' /\ SinkHolds' /\ Accounted'
  BY <1>1, LanesAside, SinkAside, AccountsAside DEF ServiceInv, WriterOnly, emitVars, sinkVars
<1> QED
  BY <1>2, <1>3, <1>4 DEF ServiceInv

\* Waking a producer leaves it in emit().
LEMMA NotifyOneMoves ==
    ASSUME ServiceInv, NotifyOne
    PROVE  Active' = Active /\ ppc' \in [Producers -> ProducerStages]
<1>1. ppc \in [Producers -> ProducerStages]
  BY DEF ServiceInv, ProducersHold
<1>2. CASE UNCHANGED ppc
  BY <1>1, <1>2 DEF Active, Emitting
<1>3. CASE \E p \in {q \in Producers : ppc[q] = "waiting"} :
             ppc' = [ppc EXCEPT ![p] = "notified"]
  <2>1. PICK p \in Producers : ppc[p] = "waiting" /\ ppc' = [ppc EXCEPT ![p] = "notified"]
    BY <1>3
  <2>2. \A q \in Producers : ppc'[q] # "idle" <=> ppc[q] # "idle"
    BY <1>1, <2>1
  <2> QED
    BY <1>1, <2>1, <2>2 DEF Active, Emitting, ProducerStages
<1> QED
  BY <1>2, <1>3 DEF NotifyOne

\* What the writer takes from a lane is in its hand.
LEMMA TakeCriticalKeeps ==
    ASSUME ServiceInv, TakeCritical, lateRecords' \in Nat, hand = <<>>,
           wpc' \in {"deliver", "flush"}
    PROVE  ServiceInv'
<1>1. critical \in Seq(Records) /\ critical # <<>> /\ Len(critical) <= CriticalSlots
  BY DEF TakeCritical, ServiceInv, LanesHold
<1>2. /\ Head(critical) \in Records /\ Tail(critical) \in Seq(Records)
      /\ Len(Tail(critical)) = Len(critical) - 1
  BY <1>1, HeadTailProperties
<1>3. /\ critical' = Tail(critical) /\ hand' = <<Head(critical)>>
      /\ drained' = [drained EXCEPT !["critical"] = @ + 1]
      /\ UNCHANGED <<general, emitted, dropped, overflow, emitVars, sinkVars, hostVars>>
  BY DEF TakeCritical
<1>4. hand' \in Seq(Records) /\ Len(hand') = 1
  BY <1>2, <1>3
<1>5. WriterHolds'
  BY <1>4 DEF WriterHolds, WriterStages
<1>6. Active' = Active /\ ppc' \in [Producers -> ProducerStages]
  BY NotifyOneMoves DEF TakeCritical
<1>7. ProducersHold' /\ HostHolds' /\ FlagsHold' /\ ResultHolds'
  BY <1>3, <1>6, WriterElse DEF emitVars
<1>8. SinkHolds' /\ RecordFailures' = RecordFailures
  BY <1>3, SinkAside DEF ServiceInv, RecordFailures, sinkVars
<1>9. /\ drained' \in [Lanes -> Nat] /\ drained'["critical"] = drained["critical"] + 1
      /\ drained'["general"] = drained["general"]
  <2>1. drained \in [Lanes -> Nat]
    BY DEF ServiceInv, LanesHold
  <2> QED
    BY <1>3, <2>1 DEF Lanes
<1>10. Len(critical') \in Nat /\ Len(critical') = Len(critical) - 1
       /\ Len(critical') <= CriticalSlots
  <2>1. Len(critical') \in Nat /\ Len(critical) \in Nat
    BY <1>1, <1>2, <1>3, LenProperties
  <2> QED
    BY <1>1, <1>2, <1>3, <2>1, SlotsAssumption
<1>11. LanesHold'
  BY <1>2, <1>3, <1>9, <1>10 DEF LanesHold, ServiceInv
<1>12. Accounted'
  <2>1. Offered' = Offered - 1
    <3>1. /\ overflow \in Nat /\ dropped \in Nat /\ Len(general) \in Nat
          /\ Len(critical) \in Nat
      BY Numbers
    <3>2. overflow' = overflow /\ dropped' = dropped /\ Len(general') = Len(general)
      BY <1>3
    <3> QED
      BY <1>10, <3>1, <3>2 DEF Offered
  <2>2. Taken' = Taken + 1
    <3>1. Len(hand) = 0 /\ Len(sink') = Len(sink) /\ Len(sink) \in Nat /\ RecordFailures \in Int
      BY <1>3, Numbers DEF sinkVars
    <3> QED
      BY <1>4, <1>8, <3>1 DEF Taken
  <2>3. nextSequence' = Cardinality(Active') + Offered' + Taken'
    <3>1. Cardinality(Active) \in Nat /\ Offered \in Int /\ Taken \in Int
      BY Numbers
    <3>2. nextSequence' = Cardinality(Active) + Offered + Taken
      BY <1>3 DEF ServiceInv, Accounted, emitVars
    <3> QED
      BY <1>6, <2>1, <2>2, <3>1, <3>2
  <2>4. emitted'["critical"] = drained'["critical"] + Len(critical')
    <3>1. emitted' = emitted /\ emitted["critical"] = drained["critical"] + Len(critical)
      BY <1>3 DEF ServiceInv, Accounted
    <3>2. drained["critical"] \in Nat /\ Len(critical) \in Nat
      BY Numbers
    <3> QED
      BY <1>9, <1>10, <3>1, <3>2
  <2>5. emitted'["general"] = drained'["general"] + dropped' + Len(general')
    BY <1>3, <1>9 DEF ServiceInv, Accounted
  <2> QED
    BY <2>3, <2>4, <2>5 DEF Accounted
<1> QED
  BY <1>5, <1>7, <1>8, <1>11, <1>12 DEF ServiceInv

LEMMA TakeGeneralKeeps ==
    ASSUME ServiceInv, TakeGeneral, lateRecords' \in Nat, hand = <<>>,
           wpc' \in {"deliver", "flush"}
    PROVE  ServiceInv'
<1>1. general \in Seq(Records) /\ general # <<>> /\ Len(general) <= GeneralSlots
  BY DEF TakeGeneral, ServiceInv, LanesHold
<1>2. /\ Head(general) \in Records /\ Tail(general) \in Seq(Records)
      /\ Len(Tail(general)) = Len(general) - 1
  BY <1>1, HeadTailProperties
<1>3. /\ general' = Tail(general) /\ hand' = <<Head(general)>>
      /\ drained' = [drained EXCEPT !["general"] = @ + 1]
      /\ UNCHANGED <<critical, emitted, dropped, overflow, emitVars, ppc, sinkVars, hostVars>>
  BY DEF TakeGeneral
<1>4. hand' \in Seq(Records) /\ Len(hand') = 1
  BY <1>2, <1>3
<1>5. WriterHolds'
  BY <1>4 DEF WriterHolds, WriterStages
<1>6. Active' = Active /\ ppc' \in [Producers -> ProducerStages]
  BY <1>3 DEF Active, Emitting, ServiceInv, ProducersHold
<1>7. ProducersHold' /\ HostHolds' /\ FlagsHold' /\ ResultHolds'
  BY <1>3, <1>6, WriterElse DEF emitVars
<1>8. SinkHolds' /\ RecordFailures' = RecordFailures
  BY <1>3, SinkAside DEF ServiceInv, RecordFailures, sinkVars
<1>9. /\ drained' \in [Lanes -> Nat] /\ drained'["general"] = drained["general"] + 1
      /\ drained'["critical"] = drained["critical"]
  <2>1. drained \in [Lanes -> Nat]
    BY DEF ServiceInv, LanesHold
  <2> QED
    BY <1>3, <2>1 DEF Lanes
<1>10. Len(general') \in Nat /\ Len(general') = Len(general) - 1
       /\ Len(general') <= GeneralSlots
  <2>1. Len(general') \in Nat /\ Len(general) \in Nat
    BY <1>1, <1>2, <1>3, LenProperties
  <2> QED
    BY <1>1, <1>2, <1>3, <2>1, SlotsAssumption
<1>11. LanesHold'
  BY <1>2, <1>3, <1>9, <1>10 DEF LanesHold, ServiceInv
<1>12. Accounted'
  <2>1. Offered' = Offered - 1
    <3>1. /\ overflow \in Nat /\ dropped \in Nat /\ Len(general) \in Nat
          /\ Len(critical) \in Nat
      BY Numbers
    <3>2. overflow' = overflow /\ dropped' = dropped /\ Len(critical') = Len(critical)
      BY <1>3
    <3> QED
      BY <1>10, <3>1, <3>2 DEF Offered
  <2>2. Taken' = Taken + 1
    <3>1. Len(hand) = 0 /\ Len(sink') = Len(sink) /\ Len(sink) \in Nat /\ RecordFailures \in Int
      BY <1>3, Numbers DEF sinkVars
    <3> QED
      BY <1>4, <1>8, <3>1 DEF Taken
  <2>3. nextSequence' = Cardinality(Active') + Offered' + Taken'
    <3>1. Cardinality(Active) \in Nat /\ Offered \in Int /\ Taken \in Int
      BY Numbers
    <3>2. nextSequence' = Cardinality(Active) + Offered + Taken
      BY <1>3 DEF ServiceInv, Accounted, emitVars
    <3> QED
      BY <1>6, <2>1, <2>2, <3>1, <3>2
  <2>4. emitted'["general"] = drained'["general"] + dropped' + Len(general')
    <3>1. emitted["general"] = drained["general"] + dropped + Len(general)
          /\ emitted' = emitted /\ dropped' = dropped
      BY <1>3 DEF ServiceInv, Accounted
    <3>2. drained["general"] \in Nat /\ dropped \in Nat /\ Len(general) \in Nat
      BY Numbers
    <3> QED
      BY <1>9, <1>10, <3>1, <3>2
  <2>5. emitted'["critical"] = drained'["critical"] + Len(critical')
    BY <1>3, <1>9 DEF ServiceInv, Accounted
  <2> QED
    BY <2>3, <2>4, <2>5 DEF Accounted
<1> QED
  BY <1>5, <1>7, <1>8, <1>11, <1>12 DEF ServiceInv

\* Delivered or counted as a failure: the record leaves the hand.
LEMMA DeliverKeeps ==
    ASSUME ServiceInv, NEW from \in {"deliver", "flush"}, NEW to \in {"critical", "drain"},
           Deliver(from, to)
    PROVE  ServiceInv'
<1>1. /\ wpc = from /\ wpc' = to /\ hand' = <<>>
      /\ UNCHANGED <<laneVars, emitVars, ppc, file, hostVars, lateRecords>>
  BY DEF Deliver, WriterGoes
<1>2. hand \in Seq(Records) /\ Len(hand) = 1
  BY <1>1 DEF ServiceInv, WriterHolds
<1>3. WriterHolds'
  <2>1. hand' \in Seq(Records) /\ Len(hand') = 0
    BY <1>1, EmptySeq
  <2> QED
    BY <1>1, <2>1 DEF WriterHolds, WriterStages
<1>4. Active' = Active /\ ppc' \in [Producers -> ProducerStages] /\ lateRecords' \in Nat
  BY <1>1 DEF Active, Emitting, ServiceInv, ProducersHold, FlagsHold
<1>5. ProducersHold' /\ HostHolds' /\ FlagsHold' /\ ResultHolds' /\ LanesHold'
  BY <1>1, <1>4, WriterElse, LanesAside DEF emitVars, ServiceInv
<1>6. SinkHolds' /\ Taken' = Taken
  <2>1. file \in {"open", "failed", "closed"} /\ sink \in Seq(Records) /\ sinkFailures \in Nat
    BY DEF ServiceInv, SinkHolds
  <2>2. Len(sink) \in Nat /\ RecordFailures \in Int /\ Len(hand') = 0
    BY <1>1, Numbers
  <2>3. CASE sink' = sink \o hand /\ UNCHANGED sinkFailures
    <3>1. sink' \in Seq(Records) /\ Len(sink') = Len(sink) + 1
      <4>1. sink \o hand \in Seq(Records) /\ Len(sink \o hand) = Len(sink) + Len(hand)
        BY <1>2, <2>1, ConcatProperties
      <4> QED
        BY <1>2, <2>3, <4>1
    <3>2. RecordFailures' = RecordFailures
      BY <1>1, <2>3 DEF RecordFailures
    <3> QED
      BY <1>1, <1>2, <2>1, <2>2, <2>3, <3>1, <3>2 DEF SinkHolds, Taken
  <2>4. CASE sinkFailures' = sinkFailures + 1 /\ UNCHANGED sink
    <3>1. RecordFailures' = RecordFailures + 1
      BY <1>1, <2>1, <2>4 DEF RecordFailures
    <3> QED
      BY <1>1, <1>2, <2>1, <2>2, <2>4, <3>1 DEF SinkHolds, Taken
  <2> QED
    BY <2>3, <2>4 DEF Deliver
<1>7. Accounted'
  <2>1. Offered' = Offered
    BY <1>1 DEF Offered, laneVars
  <2> QED
    BY <1>1, <1>4, <1>6, <2>1 DEF ServiceInv, Accounted, laneVars, emitVars
<1> QED
  BY <1>3, <1>5, <1>6, <1>7 DEF ServiceInv

LEMMA LateType == ASSUME ServiceInv, Late PROVE lateRecords' \in Nat
BY DEF Late, ServiceInv, FlagsHold

LEMMA WriterKeeps ==
    ASSUME ServiceInv, Writer PROVE ServiceInv'
<1>1. wpc \in {"critical", "general", "check", "park", "parked", "drain", "drainGeneral"}
        => hand = <<>>
  BY DEF ServiceInv, WriterHolds
<1>2. CASE PollCritical
  BY <1>1, <1>2, TakeCriticalKeeps, LateType DEF PollCritical, WriterGoes
<1>3. CASE PollGeneral
  BY <1>1, <1>3, TakeGeneralKeeps, LateType DEF PollGeneral, WriterGoes
<1>4. CASE DrainCritical
  <2>1. lateRecords' \in Nat
    BY <1>4 DEF DrainCritical, ServiceInv, FlagsHold
  <2> QED
    BY <1>1, <1>4, <2>1, TakeCriticalKeeps DEF DrainCritical, WriterGoes
<1>5. CASE DrainGeneral
  <2>1. lateRecords' \in Nat
    BY <1>5 DEF DrainGeneral, ServiceInv, FlagsHold
  <2> QED
    BY <1>1, <1>5, <2>1, TakeGeneralKeeps DEF DrainGeneral, WriterGoes
<1>6. CASE CriticalEmpty \/ GeneralEmpty \/ CheckStop \/ Park \/ Unpark
  BY <1>1, <1>6, WriterMoves
  DEF CriticalEmpty, GeneralEmpty, CheckStop, OnStop, Park, Unpark, WriterGoes, WriterStages
<1>7. CASE DrainExpired \/ DrainNoCritical \/ DrainEmpty
  BY <1>1, <1>7, WriterMoves
  DEF DrainExpired, DrainNoCritical, DrainEmpty, WriterGoes, WriterStages
<1>8. CASE Deliver("deliver", "critical") \/ Deliver("flush", "drain")
  BY <1>8, DeliverKeeps
<1> QED
  BY <1>2, <1>3, <1>4, <1>5, <1>6, <1>7, <1>8 DEF Writer

LEMMA CrashKeeps ==
    ASSUME ServiceInv, WriterCrashes \/ CrashHistory PROVE ServiceInv'
BY WriterMoves DEF WriterCrashes, CrashHistory, WriterGoes, WriterStages

-----------------------------------------------------------------------------
(* The host.                                                                *)

\* A step of the host that moves no record and leaves every emit running.
LEMMA HostAccounts ==
    ASSUME ServiceInv, Active' = Active, RecordFailures' = RecordFailures,
           ppc' \in [Producers -> ProducerStages],
           UNCHANGED <<laneVars, emitVars, hand, sink, sinkFailures>>
    PROVE  LanesHold' /\ ProducersHold' /\ Accounted'
<1>1. \A p \in Producers : Emitting(p)' => Emitting(p)
  BY DEF Active
<1>2. ProducersHold'
  BY <1>1 DEF ProducersHold, ServiceInv, emitVars
<1> QED
  BY <1>2, LanesAside, AccountsAside DEF ServiceInv, emitVars

\* Such a step while the service lives.
LEMMA HostSteps ==
    ASSUME ServiceInv, HostOnly, hpc' \in HostStages,
           ppc' \in [Producers -> ProducerStages], Active' = Active,
           UNCHANGED <<sink, sinkFailures>>, file' \in {"open", "failed", "closed"},
           (file' = "failed") = (file = "failed"), FlagsHold', ResultHolds', WriterHolds'
    PROVE  ServiceInv'
<1>1. RecordFailures' = RecordFailures
  BY DEF RecordFailures
<1>2. LanesHold' /\ ProducersHold' /\ Accounted'
  BY <1>1, HostAccounts DEF HostOnly
<1>3. HostHolds'
  BY DEF ServiceInv, HostHolds, HostOnly
<1>4. SinkHolds'
  BY DEF ServiceInv, SinkHolds
<1> QED
  BY <1>2, <1>3, <1>4 DEF ServiceInv

\* Nobody runs, hence nobody is counted as running.
LEMMA NobodyEmits == IsFiniteSet({}) /\ Cardinality({}) = 0
BY FS_EmptySet

LEMMA InstallKeeps ==
    ASSUME ServiceInv, NEW opened \in BOOLEAN, Install(opened) PROVE ServiceInv'
<1>1. Active = {} /\ Active' = {} /\ UNCHANGED <<ppc, rec>>
  BY DEF Install, ServiceInv, HostHolds, Active, Emitting
<1>2. LanesHold'
  <2>1. <<>> \in Seq(Records) /\ Len(<<>>) = 0
    BY EmptySeq
  <2>2. general' = <<>> /\ critical' = <<>> /\ dropped' = 0 /\ overflow' = 0
        /\ emitted' = [l \in Lanes |-> 0] /\ drained' = [l \in Lanes |-> 0]
    BY DEF Install, Lanes
  <2> QED
    BY <2>1, <2>2, SlotsAssumption DEF LanesHold
<1>3. ProducersHold'
  <2>1. \A p \in Producers : Emitting(p)' => Emitting(p)
    BY <1>1 DEF Active
  <2>2. 0 \in 0 .. MaxEmits /\ nextSequence' = 0
    BY BoundAssumption DEF Install
  <2> QED
    BY <1>1, <2>1, <2>2, NobodyEmits DEF ServiceInv, ProducersHold
<1>4. WriterHolds'
  BY EmptySeq DEF WriterHolds, WriterStages, Install
<1>5. SinkHolds'
  BY EmptySeq DEF SinkHolds, Install
<1>6. HostHolds'
  <2>1. installs' \in 0 .. MaxInstalls
    BY BoundAssumption DEF ServiceInv, HostHolds, Install
  <2> QED
    BY <2>1 DEF ServiceInv, HostHolds, HostStages, Install
<1>7. FlagsHold' /\ ResultHolds'
  BY ResultAside DEF FlagsHold, ServiceInv, Install
<1>8. Accounted'
  <2>1. /\ nextSequence' = 0 /\ overflow' = 0 /\ dropped' = 0 /\ Len(general') = 0
        /\ Len(critical') = 0 /\ Len(hand') = 0 /\ Len(sink') = 0
    BY EmptySeq DEF Install
  <2>2. RecordFailures' = 0
    BY DEF RecordFailures, Install
  <2>3. Offered' = 0 /\ Taken' = 0 /\ Cardinality(Active') = 0
    BY <1>1, <2>1, <2>2, NobodyEmits DEF Offered, Taken
  <2>4. \A l \in {"general", "critical"} : emitted'[l] = 0 /\ drained'[l] = 0
    BY DEF Install
  <2> QED
    BY <2>1, <2>3, <2>4 DEF Accounted
<1> QED
  BY <1>2, <1>3, <1>4, <1>5, <1>6, <1>7, <1>8 DEF ServiceInv

\* The result record keeps its type whatever numbers go into it.
LEMMA NoResultType ==
    NoResult \in [drained : Int, general : Nat, critical : Nat, flushed : BOOLEAN]
BY DEF NoResult

LEMMA BeginShutdownKeeps ==
    ASSUME ServiceInv, BeginShutdown PROVE ServiceInv'
<1>1. Active' = Active /\ RecordFailures' = RecordFailures
      /\ ppc' \in [Producers -> ProducerStages]
  BY DEF BeginShutdown, Active, Emitting, RecordFailures, sinkVars, ServiceInv, ProducersHold
<1>2. LanesHold' /\ ProducersHold' /\ Accounted'
  BY <1>1, HostAccounts DEF BeginShutdown, sinkVars
<1>3. HostHolds'
  BY <1>1 DEF ServiceInv, HostHolds, HostStages, BeginShutdown, HostGoes
<1>4. WriterHolds' /\ SinkHolds' /\ FlagsHold' /\ ResultHolds'
  BY WriterAside, SinkAside, FlagsAside, ResultAside DEF ServiceInv, BeginShutdown
<1> QED
  BY <1>2, <1>3, <1>4 DEF ServiceInv

\* The two reads of drained_before.
LEMMA BaselineKeeps ==
    ASSUME ServiceInv, GeneralBefore \/ DrainedBefore PROVE ServiceInv'
<1>1. Active' = Active /\ RecordFailures' = RecordFailures
      /\ ppc' \in [Producers -> ProducerStages]
  BY DEF GeneralBefore, DrainedBefore, BaselineOnly, Active, Emitting, RecordFailures, sinkVars,
         ServiceInv, ProducersHold
<1>2. LanesHold' /\ ProducersHold' /\ Accounted'
  BY <1>1, HostAccounts DEF GeneralBefore, DrainedBefore, BaselineOnly, sinkVars
<1>3. HostHolds'
  BY <1>1
  DEF ServiceInv, HostHolds, HostStages, GeneralBefore, DrainedBefore, BaselineOnly, HostGoes
<1>4. ResultHolds'
  <2>1. drained["general"] \in Int /\ drained["critical"] \in Int
    BY Numbers
  <2> QED
    BY <2>1, NoResultType DEF ServiceInv, ResultHolds, GeneralBefore, DrainedBefore
<1>5. WriterHolds' /\ SinkHolds' /\ FlagsHold'
  BY WriterAside, SinkAside, FlagsAside
  DEF ServiceInv, GeneralBefore, DrainedBefore, BaselineOnly
<1> QED
  BY <1>2, <1>3, <1>4, <1>5 DEF ServiceInv

\* Waking producers leaves them in emit().
LEMMA WakeLanesMoves ==
    ASSUME ServiceInv, WakeLanes
    PROVE  Active' = Active /\ ppc' \in [Producers -> ProducerStages]
<1>1. ppc \in [Producers -> ProducerStages]
  BY DEF ServiceInv, ProducersHold
<1>2. \A p \in Producers : /\ ppc'[p] # "idle" <=> ppc[p] # "idle"
                           /\ ppc'[p] \in ProducerStages
  BY <1>1 DEF WakeLanes, ProducerStages
<1> QED
  BY <1>2 DEF WakeLanes, Active, Emitting

LEMMA ShutdownKeeps ==
    ASSUME ServiceInv, Shutdown, ~ Destroy, ~ GeneralBefore, ~ DrainedBefore PROVE ServiceInv'
<1>0. /\ ppc \in [Producers -> ProducerStages] /\ FlagsHold /\ ResultHolds /\ WriterHolds
      /\ file \in {"open", "failed", "closed"}
  BY DEF ServiceInv, ProducersHold, SinkHolds
<1>1. UNCHANGED ppc => Active' = Active
  BY DEF Active, Emitting
<1>2. CASE SetStop
  <2>1. FlagsHold'
    BY <1>0, <1>2 DEF SetStop, FlagsHold, HostOnly
  <2> QED
    BY <1>0, <1>1, <1>2, <2>1, HostSteps, ResultAside, WriterAside
    DEF SetStop, HostGoes, HostStages, sinkVars, HostOnly
<1>3. CASE WakeLanes
  BY <1>0, <1>3, WakeLanesMoves, HostSteps, ResultAside, WriterAside, FlagsAside
  DEF WakeLanes, HostGoes, HostStages, sinkVars, HostOnly
<1>4. CASE NotifyWriter
  <2>1. WriterHolds'
    BY <1>0, <1>4 DEF NotifyWriter, WriterHolds, WriterStages, HostOnly
  <2> QED
    BY <1>0, <1>1, <1>4, <2>1, HostSteps, ResultAside, FlagsAside
    DEF NotifyWriter, HostGoes, HostStages, sinkVars, HostOnly
<1>5. CASE Join
  BY <1>0, <1>1, <1>5, HostSteps, ResultAside, WriterAside, FlagsAside
  DEF Join, HostGoes, HostStages, HostOnly
<1>6. CASE CountGeneral
  <2>1. drained["general"] \in Int /\ drained["critical"] \in Int /\ Len(general) \in Nat
    BY Numbers
  <2>2. ResultHolds'
    <3>1. result.drained \in Int
      BY <1>0 DEF ResultHolds
    <3>2. drained["general"] + drained["critical"] - result.drained \in Int
      BY <2>1, <3>1
    <3>3. result' = [result EXCEPT
             !.drained = drained["general"] + drained["critical"] - result.drained,
             !.general = Len(general)]
      BY <1>6 DEF CountGeneral
    <3> QED
      BY <1>0, <2>1, <3>2, <3>3 DEF ResultHolds
  <2> QED
    BY <1>0, <1>1, <1>6, <2>2, HostSteps, WriterAside, FlagsAside
    DEF CountGeneral, HostGoes, HostStages, sinkVars, HostOnly
<1>7. CASE CountCritical
  <2>1. Len(critical) \in Nat /\ (result.general = 0 /\ critical = <<>>) \in BOOLEAN
    BY Numbers
  <2>2. ResultHolds'
    BY <1>0, <1>7, <2>1 DEF ResultHolds, CountCritical
  <2> QED
    BY <1>0, <1>1, <1>7, <2>2, HostSteps, WriterAside, FlagsAside
    DEF CountCritical, HostGoes, HostStages, sinkVars, HostOnly
<1> QED
  BY <1>2, <1>3, <1>4, <1>5, <1>6, <1>7 DEF Shutdown

LEMMA DestroyKeeps ==
    ASSUME ServiceInv, Destroy PROVE ServiceInv'
<1>1. Active' = Active /\ RecordFailures' = RecordFailures
      /\ ppc' \in [Producers -> ProducerStages]
  BY DEF Destroy, Active, Emitting, RecordFailures, sinkVars, ServiceInv, ProducersHold
<1>2. LanesHold' /\ ProducersHold' /\ Accounted'
  BY <1>1, HostAccounts DEF Destroy, sinkVars
<1>3. HostHolds'
  <2>1. Active' = {}
    BY <1>1 DEF Destroy, Active
  <2> QED
    BY <2>1 DEF ServiceInv, HostHolds, HostStages, Destroy, HostGoes
<1>4. ResultHolds'
  BY NoResultType DEF ResultHolds, Destroy
<1>5. WriterHolds' /\ SinkHolds' /\ FlagsHold'
  BY WriterAside, SinkAside, FlagsAside DEF ServiceInv, Destroy
<1> QED
  BY <1>2, <1>3, <1>4, <1>5 DEF ServiceInv

LEMMA FlushWindowKeeps ==
    ASSUME ServiceInv, FlushWindowPasses PROVE ServiceInv'
<1>1. Active' = Active /\ RecordFailures' = RecordFailures
      /\ ppc' \in [Producers -> ProducerStages]
  BY DEF FlushWindowPasses, Active, Emitting, RecordFailures, sinkVars, ServiceInv,
         ProducersHold
<1>2. LanesHold' /\ ProducersHold' /\ Accounted'
  BY <1>1, HostAccounts DEF FlushWindowPasses, sinkVars
<1>3. HostHolds'
  BY <1>1 DEF ServiceInv, HostHolds, FlushWindowPasses
<1>4. FlagsHold'
  BY DEF ServiceInv, FlagsHold, FlushWindowPasses
<1>5. WriterHolds' /\ SinkHolds' /\ ResultHolds'
  BY WriterAside, SinkAside, ResultAside DEF ServiceInv, FlushWindowPasses
<1> QED
  BY <1>2, <1>3, <1>4, <1>5 DEF ServiceInv

LEMMA UntouchedKeeps ==
    ASSUME ServiceInv, UNCHANGED vars PROVE ServiceInv'
<1> USE DEF ServiceInv, vars
<1>1. Active' = Active /\ RecordFailures' = RecordFailures
  BY DEF Active, Emitting, RecordFailures, sinkVars
<1> QED
  BY <1>1, LanesAside, ProducersAside, WriterAside, SinkAside, HostAside, FlagsAside,
     ResultAside, AccountsAside
  DEF hostVars, emitVars, sinkVars

-----------------------------------------------------------------------------
LEMMA NextKeeps == ServiceInv /\ [Next]_vars => ServiceInv'
<1> SUFFICES ASSUME ServiceInv, [Next]_vars PROVE ServiceInv'
  OBVIOUS
<1>1. ASSUME NEW p \in Producers, Produce(p) PROVE ServiceInv'
  BY <1>1, PushDropOldestKeeps, PushOrWaitKeeps, TimeOutKeeps DEF Produce
<1>2. ASSUME NEW p \in Producers, WakeSpuriously(p) PROVE ServiceInv'
  BY <1>2, WakeKeeps
<1>3. ASSUME NEW p \in Producers, NEW level \in Levels, BeginEmit(p, level)
      PROVE  ServiceInv'
  BY <1>3, BeginEmitKeeps
<1>4. CASE Writer \/ WriterCrashes \/ CrashHistory
  BY <1>4, WriterKeeps, CrashKeeps
<1>5. CASE Shutdown
  BY <1>5, ShutdownKeeps, DestroyKeeps, BaselineKeeps
<1>6. CASE BeginShutdown \/ FlushWindowPasses
  BY <1>6, BeginShutdownKeeps, FlushWindowKeeps
<1>7. ASSUME NEW opened \in BOOLEAN, Install(opened) PROVE ServiceInv'
  BY <1>7, InstallKeeps
<1>8. CASE UNCHANGED vars
  BY <1>8, UntouchedKeeps
<1> QED
  BY <1>1, <1>2, <1>3, <1>4, <1>5, <1>6, <1>7, <1>8 DEF Next

LEMMA InitHolds == Init => ServiceInv
<1> SUFFICES ASSUME Init PROVE ServiceInv
  OBVIOUS
<1>1. Active = {}
  BY DEF Init, Active, Emitting
<1>2. LanesHold
  <2>1. <<>> \in Seq(Records) /\ Len(<<>>) = 0
    BY EmptySeq
  <2>2. emitted = [l \in Lanes |-> 0] /\ drained = [l \in Lanes |-> 0]
    BY DEF Init, Lanes
  <2> QED
    BY <2>1, <2>2, SlotsAssumption DEF LanesHold, Init
<1>3. ProducersHold
  <2>1. ppc \in [Producers -> ProducerStages] /\ rec \in [Producers -> Records \cup {NoRecord}]
    BY DEF Init, ProducerStages
  <2>2. \A p \in Producers : ~ Emitting(p)
    BY DEF Init, Emitting
  <2> QED
    BY <1>1, <2>1, <2>2, NobodyEmits, BoundAssumption DEF Init, ProducersHold
<1>4. WriterHolds /\ SinkHolds
  <2>1. <<>> \in Seq(Records) /\ Len(<<>>) = 0
    BY EmptySeq
  <2>2. WriterHolds
    BY <2>1 DEF Init, WriterHolds, WriterStages
  <2>3. SinkHolds
    BY <2>1 DEF Init, SinkHolds
  <2> QED
    BY <2>2, <2>3
<1>5. HostHolds /\ FlagsHold
  <2>1. HostHolds
    BY <1>1, BoundAssumption DEF Init, HostHolds, HostStages
  <2>2. FlagsHold
    BY DEF Init, FlagsHold
  <2> QED
    BY <2>1, <2>2
<1>6. ResultHolds
  BY NoResultType DEF Init, ResultHolds
<1>7. Accounted
  <2>1. Offered = 0 /\ Taken = 0 /\ Cardinality(Active) = 0
    BY <1>1, NobodyEmits, EmptySeq DEF Init, Offered, Taken, RecordFailures
  <2> QED
    BY <2>1, EmptySeq DEF Init, Accounted
<1> QED
  BY <1>2, <1>3, <1>4, <1>5, <1>6, <1>7 DEF ServiceInv

\* A history grows by what leaves a lane, or takes over what the lanes hold.
LEMMA NextHistory == ServiceInv /\ HistoryHolds /\ [Next]_vars => HistoryHolds'
<1> SUFFICES ASSUME ServiceInv, HistoryHolds, [Next]_vars PROVE HistoryHolds'
  OBVIOUS
<1>1. /\ general \in Seq(Records) /\ critical \in Seq(Records)
      /\ Range(general) \cup Range(critical) \subseteq Records
  <2>1. general \in Seq(Records) /\ critical \in Seq(Records)
    BY DEF ServiceInv, LanesHold
  <2> QED
    BY <2>1, ElementOfSeq, LenProperties DEF Range
<1>2. /\ general # <<>> => Head(general) \in Records
      /\ critical # <<>> => Head(critical) \in Records
  BY <1>1, HeadTailProperties
<1>3. CASE UNCHANGED <<promised, taken, evicted, unseen>>
  BY <1>3 DEF HistoryHolds
<1>4. ASSUME NEW p \in Producers, PushDropOldest(p) PROVE HistoryHolds'
  <2>1. LaneFull(general, GeneralSlots) => general # <<>>
    BY <1>1, EmptySeq, SlotsAssumption DEF LaneFull
  <2> QED
    BY <1>2, <1>4, <2>1 DEF HistoryHolds, PushDropOldest, Noted, hostVars
<1>5. CASE TakeCritical \/ TakeGeneral
  BY <1>2, <1>5 DEF HistoryHolds, TakeCritical, TakeGeneral, Noted, hostVars
<1>6. CASE BeginShutdown \/ GeneralBefore \/ DrainedBefore \/ Destroy
  BY <1>1, <1>6
  DEF HistoryHolds, BeginShutdown, GeneralBefore, DrainedBefore, BaselineOnly, Destroy
<1>7. ASSUME NEW p \in Producers,
             \/ PushOrWait(p) \/ TimeOut(p) \/ WakeSpuriously(p)
             \/ \E level \in Levels : BeginEmit(p, level)
      PROVE  HistoryHolds'
  BY <1>3, <1>7 DEF PushOrWait, TimeOut, WakeSpuriously, BeginEmit, hostVars
<1>8. CASE Writer \/ WriterCrashes \/ CrashHistory
  BY <1>3, <1>5, <1>8
  DEF Writer, WriterCrashes, CrashHistory, PollCritical, CriticalEmpty, PollGeneral,
      GeneralEmpty, Deliver, CheckStop, Park, Unpark, DrainExpired, DrainCritical,
      DrainNoCritical, DrainGeneral, DrainEmpty, WriterOnly, hostVars
<1>9. CASE SetStop \/ WakeLanes \/ NotifyWriter \/ Join \/ CountGeneral \/ CountCritical
           \/ FlushWindowPasses
  BY <1>3, <1>9
  DEF SetStop, WakeLanes, NotifyWriter, Join, CountGeneral, CountCritical, HostOnly,
      FlushWindowPasses
<1>10. ASSUME NEW opened \in BOOLEAN, Install(opened) PROVE HistoryHolds'
  BY <1>3, <1>10 DEF Install
<1>11. CASE UNCHANGED vars
  BY <1>3, <1>11 DEF vars, hostVars
<1> QED
  BY <1>4, <1>6, <1>7, <1>8, <1>9, <1>10, <1>11 DEF Next, Produce, Shutdown

LEMMA TypesFollow == ServiceInv /\ HistoryHolds => TypeOK
BY DEF ServiceInv, LanesHold, ProducersHold, WriterHolds, SinkHolds, HostHolds, FlagsHold,
       ResultHolds, HistoryHolds, TypeOK

\* The parts of the sum, put side by side.
LEMMA AccountsFollow == ServiceInv => EveryRecordAccounted
<1> SUFFICES ASSUME ServiceInv PROVE EveryRecordAccounted
  OBVIOUS
<1> DEFINE active == Cardinality(Active)
<1>1. /\ active \in Nat /\ overflow \in Nat /\ dropped \in Nat
      /\ Len(general) \in Nat /\ Len(critical) \in Nat /\ Len(hand) \in Nat
      /\ Len(sink) \in Nat /\ RecordFailures \in Int
  BY Numbers
<1>2. nextSequence = active + Offered + Taken
  BY DEF ServiceInv, Accounted
<1>3. nextSequence = active + overflow + dropped + Len(general) + Len(critical) + Len(hand)
                     + Len(sink) + RecordFailures
  BY <1>1, <1>2, SMTT(60) DEF Offered, Taken
<1> QED
  BY <1>3 DEF EveryRecordAccounted, ServiceInv, Accounted, Active

-----------------------------------------------------------------------------
\* Every variable of the service stays in its range, and no lane ever holds more than its
\* slots, whoever pushes.
THEOREM ServiceTyped == Spec => []TypeOK
<1>1. Init => HistoryHolds
  BY DEF Init, HistoryHolds
<1> QED
  BY <1>1, InitHolds, NextKeeps, NextHistory, TypesFollow, PTL DEF Spec

\* No record disappears silently, whatever fails, times out, is evicted or crashes: each is
\* still with its producer, in a lane, in the writer's hand, delivered, or counted.
THEOREM NoSilentLoss == Spec => []EveryRecordAccounted
<1> QED
  BY InitHolds, NextKeeps, AccountsFollow, PTL DEF Spec

-----------------------------------------------------------------------------
(* The order in which the service delivers, and the flush of a shutdown,    *)
(* for any number of producers and any lanes.                               *)

Elements(q) == {q[i] : i \in 1 .. Len(q)}
Everywhere == Elements(sink) \cup Elements(hand) \cup Elements(general) \cup Elements(critical)

Same(r, s) == r.producer = s.producer /\ r.level = s.level
Before(S, T) == \A r \in S, s \in T : Same(r, s) => r.sequence < s.sequence
Sorted(q) ==
    \A i, j \in 1 .. Len(q) : i < j /\ Same(q[i], q[j]) => q[i].sequence < q[j].sequence

-----------------------------------------------------------------------------
(* The invariant.                                                           *)

\* A sequence number is stamped once.  The record of a producer inside emit() is its
\* newest, and not among those a shutdown has promised to flush or seen taken.
Known == promised \cup taken
StampsUnique ==
    /\ \A p \in Producers : Emitting(p) =>
          /\ rec[p].producer = p /\ rec[p].sequence < nextSequence
          /\ rec[p].level = IF ppc[p] = "info" THEN "info" ELSE "critical"
          /\ rec[p] \notin Known
    /\ \A p, q \in Producers : Emitting(p) /\ Emitting(q) /\ p # q =>
          rec[p].sequence # rec[q].sequence
    /\ \A p \in Producers, r \in Everywhere : Emitting(p) =>
          /\ r.sequence # rec[p].sequence
          /\ r.producer = p => r.sequence < rec[p].sequence
    /\ \A r \in Everywhere : r.sequence < nextSequence
    /\ \A r \in Known : r.sequence < nextSequence

\* Each lane keeps the order, and what the writer took from it was in front.
LanesOrdered ==
    /\ \A r \in Elements(general) : r.level = "info"
    /\ \A r \in Elements(critical) : r.level = "critical"
    /\ Sorted(sink) /\ Sorted(general) /\ Sorted(critical)
    /\ Before(Elements(sink), Elements(hand))
    /\ Before(Elements(sink), Elements(general)) /\ Before(Elements(sink), Elements(critical))
    /\ Before(Elements(hand), Elements(general)) /\ Before(Elements(hand), Elements(critical))

\* The writer enters its flush window only when told to stop, leaves the critical lane in
\* it only when that holds nothing promised, and then the general lane likewise.
Unpromised(q) == \A r \in Elements(q) : r \notin promised
FlushOrdered ==
    /\ hpc # "idle" => service = "live"
    /\ hpc = "idle" => promised = {} /\ taken = {}
    /\ service = "live" /\ hpc \in {"idle", "called", "before", "stop"} =>
          ~ stop /\ wpc \notin {"drain", "drainGeneral", "flush", "exited", "expired"}
    /\ wpc \in {"drainGeneral", "exited"} => Unpromised(critical)
    /\ wpc = "exited" => Unpromised(general)

OrderInv == ServiceInv /\ HistoryHolds /\ StampsUnique /\ LanesOrdered /\ FlushOrdered

-----------------------------------------------------------------------------
(* Sequences and their elements.                                            *)

LEMMA AppendElements ==
    ASSUME NEW q \in Seq(Records), NEW r \in Records
    PROVE  Elements(Append(q, r)) = Elements(q) \cup {r}
<1>1. Len(q) \in Nat /\ Len(Append(q, r)) = Len(q) + 1
      /\ \A i \in 1 .. Len(q) : Append(q, r)[i] = q[i]
      /\ Append(q, r)[Len(q) + 1] = r
  BY AppendProperties, LenProperties
<1>2. \A i : i \in 1 .. Len(q) + 1 <=> i \in 1 .. Len(q) \/ i = Len(q) + 1
  BY <1>1
<1>3. Elements(Append(q, r)) = {Append(q, r)[i] : i \in 1 .. Len(q) + 1}
  BY <1>1 DEF Elements
<1>4. \A x : x \in Elements(Append(q, r)) => x \in Elements(q) \cup {r}
  BY <1>1, <1>2, <1>3 DEF Elements
<1>5. \A x : x \in Elements(q) => x \in Elements(Append(q, r))
  BY <1>1, <1>2, <1>3 DEF Elements
<1>6. r \in Elements(Append(q, r))
  <2>1. Len(q) + 1 \in 1 .. Len(q) + 1
    BY <1>1
  <2> QED
    BY <1>1, <1>3, <2>1
<1> QED
  BY <1>4, <1>5, <1>6

LEMMA TailElements ==
    ASSUME NEW q \in Seq(Records), q # <<>>
    PROVE  /\ Head(q) \in Elements(q) /\ Elements(Tail(q)) \subseteq Elements(q)
           /\ Elements(q) \subseteq Elements(Tail(q)) \cup {Head(q)}
<1>1. /\ Len(q) \in Nat \ {0} /\ Len(Tail(q)) = Len(q) - 1 /\ Head(q) = q[1]
      /\ \A i \in 1 .. Len(q) - 1 : Tail(q)[i] = q[i + 1]
  BY EmptySeq, HeadTailProperties
<1>2. 1 \in 1 .. Len(q) /\ \A i \in 1 .. Len(q) - 1 : i + 1 \in 1 .. Len(q)
  BY <1>1
<1>3. \A i \in 1 .. Len(q) : i = 1 \/ (i - 1 \in 1 .. Len(q) - 1 /\ (i - 1) + 1 = i)
  BY <1>1
<1>4. \A i \in 1 .. Len(q) : q[i] = Head(q) \/ q[i] \in Elements(Tail(q))
  <2> SUFFICES ASSUME NEW i \in 1 .. Len(q), i # 1 PROVE q[i] \in Elements(Tail(q))
    BY <1>1
  <2>1. i - 1 \in 1 .. Len(Tail(q)) /\ Tail(q)[i - 1] = q[i]
    BY <1>1, <1>3
  <2> QED
    BY <2>1 DEF Elements
<1>5. Elements(Tail(q)) \subseteq Elements(q)
  BY <1>1, <1>2 DEF Elements
<1> QED
  BY <1>1, <1>2, <1>4, <1>5 DEF Elements

LEMMA AppendSorted ==
    ASSUME NEW q \in Seq(Records), NEW r \in Records, Sorted(q), Before(Elements(q), {r})
    PROVE  Sorted(Append(q, r))
<1>1. Len(q) \in Nat /\ Len(Append(q, r)) = Len(q) + 1
      /\ \A i \in 1 .. Len(q) : Append(q, r)[i] = q[i]
      /\ Append(q, r)[Len(q) + 1] = r
  BY AppendProperties, LenProperties
<1> DEFINE s == Append(q, r)
<1> SUFFICES ASSUME NEW i \in 1 .. Len(s), NEW j \in 1 .. Len(s), i < j, Same(s[i], s[j])
             PROVE  s[i].sequence < s[j].sequence
  BY DEF Sorted
<1>2. i \in 1 .. Len(q) /\ s[i] = q[i]
  BY <1>1
<1>3. CASE j \in 1 .. Len(q)
  BY <1>1, <1>2, <1>3 DEF Sorted
<1>4. CASE j = Len(q) + 1
  <2>1. s[j] = r /\ q[i] \in Elements(q)
    BY <1>1, <1>2, <1>4 DEF Elements
  <2> QED
    BY <1>2, <2>1 DEF Before
<1> QED
  BY <1>1, <1>3, <1>4

LEMMA TailSorted ==
    ASSUME NEW q \in Seq(Records), q # <<>>, Sorted(q)
    PROVE  Sorted(Tail(q)) /\ Before({Head(q)}, Elements(Tail(q)))
<1>1. /\ Len(q) \in Nat \ {0} /\ Len(Tail(q)) = Len(q) - 1 /\ Head(q) = q[1]
      /\ \A i \in 1 .. Len(q) - 1 : Tail(q)[i] = q[i + 1]
  BY EmptySeq, HeadTailProperties
<1>2. Sorted(Tail(q))
  <2> SUFFICES ASSUME NEW i \in 1 .. Len(Tail(q)), NEW j \in 1 .. Len(Tail(q)), i < j,
                      Same(Tail(q)[i], Tail(q)[j])
               PROVE  Tail(q)[i].sequence < Tail(q)[j].sequence
    BY DEF Sorted
  <2>1. i + 1 \in 1 .. Len(q) /\ j + 1 \in 1 .. Len(q) /\ i + 1 < j + 1
        /\ Tail(q)[i] = q[i + 1] /\ Tail(q)[j] = q[j + 1]
    BY <1>1
  <2> QED
    BY <2>1 DEF Sorted
<1>3. Before({Head(q)}, Elements(Tail(q)))
  <2> SUFFICES ASSUME NEW j \in 1 .. Len(Tail(q)), Same(q[1], Tail(q)[j])
               PROVE  q[1].sequence < Tail(q)[j].sequence
    BY <1>1 DEF Before, Elements
  <2>1. 1 \in 1 .. Len(q) /\ j + 1 \in 1 .. Len(q) /\ 1 < j + 1 /\ Tail(q)[j] = q[j + 1]
    BY <1>1
  <2> QED
    BY <2>1 DEF Sorted
<1> QED
  BY <1>2, <1>3

LEMMA NoElements == Elements(<<>>) = {} /\ Sorted(<<>>)
BY EmptySeq DEF Elements, Sorted

LEMMA OneElement ==
    ASSUME NEW r PROVE Elements(<<r>>) = {r}
BY DEF Elements

\* A record in the hand, appended to the sink.
LEMMA ConcatOne ==
    ASSUME NEW q \in Seq(Records), NEW h \in Seq(Records), Len(h) = 1
    PROVE  h[1] \in Records /\ Elements(h) = {h[1]} /\ q \o h = Append(q, h[1])
<1>0. 1 \in 1 .. Len(h)
  OBVIOUS
<1>1. h[1] \in Records
  BY <1>0, ElementOfSeq
<1>2. h = <<h[1]>>
  BY <1>1, SeqEqual
<1>3. Append(q, h[1]) = q \o <<h[1]>>
  BY <1>1, AppendIsConcat
<1> QED
  BY <1>1, <1>2, <1>3, OneElement

LEMMA ElementsAreRecords ==
    ASSUME ServiceInv
    PROVE  /\ \A r \in Everywhere : r \in Records
           /\ general \in Seq(Records) /\ critical \in Seq(Records)
           /\ hand \in Seq(Records) /\ sink \in Seq(Records)
<1>1. /\ general \in Seq(Records) /\ critical \in Seq(Records)
      /\ hand \in Seq(Records) /\ sink \in Seq(Records)
  BY DEF ServiceInv, LanesHold, WriterHolds, SinkHolds
<1>2. \A q \in Seq(Records) : \A r \in Elements(q) : r \in Records
  BY ElementOfSeq DEF Elements
<1> QED
  BY <1>1, <1>2 DEF Everywhere

LEMMA RangeIsElements ==
    ASSUME ServiceInv
    PROVE  Range(general) = Elements(general) /\ Range(critical) = Elements(critical)
<1>1. general \in Seq(Records) /\ critical \in Seq(Records)
  BY DEF ServiceInv, LanesHold
<1> QED
  BY <1>1, LenProperties DEF Range, Elements

\* Sequence numbers are naturals.
LEMMA SequencesAreNumbers == \A r \in Records : r.sequence \in Nat
BY DEF Records
-----------------------------------------------------------------------------
(* How the parts of the invariant pass over a step.                         *)

\* Stamps stay unique if no producer gets a new record, and what appears in a lane is the
\* record of a producer that has returned.
LEMMA StampsStay ==
    ASSUME OrderInv, UNCHANGED nextSequence, Known' \subseteq Known \cup Everywhere,
           \A p \in Producers : Emitting(p)' =>
               /\ Emitting(p) /\ rec'[p] = rec[p]
               /\ ppc'[p] = "info" <=> ppc[p] = "info",
           \A r \in Everywhere' :
               \/ r \in Everywhere
               \/ \E p \in Producers : Emitting(p) /\ ~ Emitting(p)' /\ r = rec[p]
    PROVE  StampsUnique'
<1>0. StampsUnique
  BY DEF OrderInv
<1>1. \A p \in Producers : Emitting(p)' =>
          /\ rec'[p].producer = p /\ rec'[p].sequence < nextSequence'
          /\ rec'[p].level = IF ppc'[p] = "info" THEN "info" ELSE "critical"
          /\ rec'[p] \notin Known'
  <2>1. \A p \in Producers : Emitting(p) => rec[p] \notin Everywhere
    BY <1>0 DEF StampsUnique
  <2> QED
    BY <1>0, <2>1 DEF StampsUnique
<1>2. \A p, q \in Producers : Emitting(p)' /\ Emitting(q)' /\ p # q =>
          rec'[p].sequence # rec'[q].sequence
  BY <1>0 DEF StampsUnique
<1>3. \A p \in Producers, r \in Everywhere' : Emitting(p)' =>
          /\ r.sequence # rec'[p].sequence
          /\ r.producer = p => r.sequence < rec'[p].sequence
  <2> SUFFICES ASSUME NEW p \in Producers, NEW r \in Everywhere', Emitting(p)'
               PROVE  /\ r.sequence # rec'[p].sequence
                      /\ r.producer = p => r.sequence < rec'[p].sequence
    OBVIOUS
  <2>1. CASE r \in Everywhere
    BY <1>0, <2>1 DEF StampsUnique
  <2>2. ASSUME NEW q \in Producers, Emitting(q), ~ Emitting(q)', r = rec[q]
        PROVE  r.sequence # rec'[p].sequence /\ r.producer # p
    BY <1>0, <2>2 DEF StampsUnique
  <2> QED
    BY <2>1, <2>2
<1>4. \A r \in Everywhere' : r.sequence < nextSequence'
  <2> SUFFICES ASSUME NEW r \in Everywhere' PROVE r.sequence < nextSequence
    OBVIOUS
  <2> QED
    BY <1>0 DEF StampsUnique
<1>5. \A r \in Known' : r.sequence < nextSequence'
  <2> SUFFICES ASSUME NEW r \in Known' PROVE r.sequence < nextSequence
    OBVIOUS
  <2> QED
    BY <1>0 DEF StampsUnique
<1> QED
  BY <1>1, <1>2, <1>3, <1>4, <1>5 DEF StampsUnique

\* Nothing in the lanes, the hand or the sink moves.
LEMMA LinesStay ==
    ASSUME OrderInv, UNCHANGED <<general, critical, hand, sink>>
    PROVE  LanesOrdered' /\ Everywhere' = Everywhere
BY DEF OrderInv, LanesOrdered, Everywhere

\* A step of a producer inside emit(), or back from it, with what it pushed.
LEMMA ProducerStamps ==
    ASSUME OrderInv, NEW p \in Producers, ppc[p] # "idle",
           UNCHANGED <<nextSequence, promised, taken>>,
           \A q \in Producers \ {p} : ppc'[q] = ppc[q] /\ rec'[q] = rec[q],
           \/ ppc'[p] = "idle"
           \/ ppc[p] # "info" /\ ppc'[p] # "info" /\ rec'[p] = rec[p],
           Everywhere' \subseteq Everywhere \cup (IF ppc'[p] = "idle" THEN {rec[p]} ELSE {})
    PROVE  StampsUnique'
<1>1. \A q \in Producers : Emitting(q)' =>
          /\ Emitting(q) /\ rec'[q] = rec[q]
          /\ ppc'[q] = "info" <=> ppc[q] = "info"
  <2> SUFFICES ASSUME NEW q \in Producers, ppc'[q] # "idle"
               PROVE  /\ ppc[q] # "idle" /\ rec'[q] = rec[q]
                      /\ ppc'[q] = "info" <=> ppc[q] = "info"
    BY DEF Emitting
  <2>1. CASE q = p
    BY <2>1
  <2>2. CASE q # p
    BY <2>2
  <2> QED
    BY <2>1, <2>2
<1>2. \A r \in Everywhere' :
         \/ r \in Everywhere
         \/ \E q \in Producers : Emitting(q) /\ ~ Emitting(q)' /\ r = rec[q]
  BY DEF Emitting
<1>3. Known' = Known
  BY DEF Known
<1> QED
  BY <1>1, <1>2, <1>3, StampsStay

\* What a push leaves of the order: the record goes behind all records of its producer.
LEMMA PushOrder ==
    ASSUME OrderInv, NEW p \in Producers, ppc[p] # "idle", NEW S, S \subseteq Everywhere
    PROVE  Before(S, {rec[p]})
BY DEF OrderInv, StampsUnique, Before, Same, Emitting

-----------------------------------------------------------------------------
(* Producers.                                                               *)

LEMMA BeginEmitOrder ==
    ASSUME OrderInv, NEW p \in Producers, NEW level \in Levels, BeginEmit(p, level)
    PROVE  StampsUnique' /\ LanesOrdered' /\ FlushOrdered'
<1>0. StampsUnique /\ FlushOrdered /\ ServiceInv
  BY DEF OrderInv
<1> DEFINE stamped == [producer |-> p, sequence |-> nextSequence, level |-> level]
<1>1. /\ stamped.producer = p /\ stamped.sequence = nextSequence /\ stamped.level = level
  OBVIOUS
<1>2. rec' = [rec EXCEPT ![p] = stamped] /\ ppc' = [ppc EXCEPT ![p] = level]
      /\ ppc[p] = "idle" /\ nextSequence' = nextSequence + 1
      /\ UNCHANGED <<general, critical, hand, sink, promised, taken, wpc, hpc, stop, service>>
  BY DEF BeginEmit, ProducerGoes, laneVars, sinkVars, hostVars
<1>3. ppc \in [Producers -> ProducerStages] /\ rec \in [Producers -> Records \cup {NoRecord}]
      /\ nextSequence \in Nat
  BY <1>0, Numbers DEF ServiceInv, ProducersHold
<1> HIDE DEF stamped
<1>4. rec'[p] = stamped /\ ppc'[p] = level
      /\ \A q \in Producers \ {p} : rec'[q] = rec[q] /\ ppc'[q] = ppc[q]
  BY <1>2, <1>3
<1>5. LanesOrdered' /\ Everywhere' = Everywhere
  BY <1>2, LinesStay
<1>6. FlushOrdered'
  BY <1>0, <1>2 DEF FlushOrdered, Unpromised
<1>7. \A r \in Everywhere : r.sequence \in Nat /\ r.sequence < nextSequence
  BY <1>0, ElementsAreRecords, SequencesAreNumbers DEF StampsUnique
<1>8. \A q \in Producers : Emitting(q) => rec[q].sequence \in Nat
  BY <1>0, SequencesAreNumbers DEF ServiceInv, ProducersHold
<1>9. Known' = Known /\ \A r \in Known : r.sequence < nextSequence
  BY <1>0, <1>2 DEF StampsUnique, Known
<1>10. \A q \in Producers \ {p} : Emitting(q)' <=> Emitting(q)
  BY <1>4 DEF Emitting
<1>11. \A q \in Producers : Emitting(q)' =>
          /\ rec'[q].producer = q /\ rec'[q].sequence < nextSequence'
          /\ rec'[q].level = IF ppc'[q] = "info" THEN "info" ELSE "critical"
          /\ rec'[q] \notin Known'
  <2> SUFFICES ASSUME NEW q \in Producers, Emitting(q)'
               PROVE  /\ rec'[q].producer = q /\ rec'[q].sequence < nextSequence'
                      /\ rec'[q].level = IF ppc'[q] = "info" THEN "info" ELSE "critical"
                      /\ rec'[q] \notin Known'
    OBVIOUS
  <2>1. CASE q = p
    <3>1. stamped \notin Known
      BY <1>1, <1>3, <1>9
    <3> QED
      BY <1>1, <1>2, <1>3, <1>4, <1>9, <2>1, <3>1 DEF Levels
  <2>2. CASE q # p
    <3>1. Emitting(q) /\ rec[q].sequence \in Nat
      BY <1>8, <1>10, <2>2
    <3>2. /\ rec[q].producer = q /\ rec[q].sequence < nextSequence
          /\ rec[q].level = IF ppc[q] = "info" THEN "info" ELSE "critical"
          /\ rec[q] \notin Known
      BY <1>0, <3>1 DEF StampsUnique
    <3> QED
      BY <1>2, <1>3, <1>4, <1>9, <2>2, <3>1, <3>2
  <2> QED
    BY <2>1, <2>2
<1>12. \A q, t \in Producers : Emitting(q)' /\ Emitting(t)' /\ q # t =>
          rec'[q].sequence # rec'[t].sequence
  <2>1. \A q \in Producers \ {p} : Emitting(q) => rec[q].sequence < nextSequence
    BY <1>0 DEF StampsUnique
  <2>2. \A q \in Producers \ {p} : Emitting(q)' => rec'[q].sequence # nextSequence
    BY <1>3, <1>4, <1>8, <1>10, <2>1
  <2>3. \A q, t \in Producers \ {p} : Emitting(q)' /\ Emitting(t)' /\ q # t =>
          rec'[q].sequence # rec'[t].sequence
    BY <1>0, <1>4, <1>10 DEF StampsUnique
  <2> QED
    BY <1>1, <1>4, <2>2, <2>3
<1>13. \A q \in Producers, r \in Everywhere' : Emitting(q)' =>
          /\ r.sequence # rec'[q].sequence
          /\ r.producer = q => r.sequence < rec'[q].sequence
  <2> SUFFICES ASSUME NEW q \in Producers, NEW r \in Everywhere, Emitting(q)'
               PROVE  /\ r.sequence # rec'[q].sequence
                      /\ r.producer = q => r.sequence < rec'[q].sequence
    BY <1>5
  <2>1. CASE q = p
    BY <1>1, <1>3, <1>4, <1>7, <2>1
  <2>2. CASE q # p
    BY <1>0, <1>4, <1>10, <2>2 DEF StampsUnique
  <2> QED
    BY <2>1, <2>2
<1>14. (\A r \in Everywhere' : r.sequence < nextSequence')
       /\ \A r \in Known' : r.sequence < nextSequence'
  <2>1. \A r \in Known : r.sequence < nextSequence + 1
    <3> SUFFICES ASSUME NEW r \in Known PROVE r.sequence < nextSequence + 1
      OBVIOUS
    <3>1. r.sequence \in Int
      BY SequencesAreNumbers DEF OrderInv, HistoryHolds, Known
    <3> QED
      BY <1>3, <1>9, <3>1
  <2> QED
    BY <1>2, <1>3, <1>5, <1>7, <1>9, <2>1
<1>15. StampsUnique'
  BY <1>11, <1>12, <1>13, <1>14 DEF StampsUnique
<1> QED
  BY <1>5, <1>6, <1>15

LEMMA PushDropOldestOrder ==
    ASSUME OrderInv, NEW p \in Producers, PushDropOldest(p)
    PROVE  StampsUnique' /\ LanesOrdered' /\ FlushOrdered'
<1>0. StampsUnique /\ FlushOrdered /\ ServiceInv /\ LanesOrdered
  BY DEF OrderInv
<1>1. /\ ppc[p] = "info" /\ ppc' = [ppc EXCEPT ![p] = "idle"]
      /\ rec' = [rec EXCEPT ![p] = NoRecord]
      /\ UNCHANGED <<critical, hand, sink, nextSequence, promised, taken, wpc, hpc, stop,
                     service>>
  BY DEF PushDropOldest, Returns, ProducerGoes, sinkVars, hostVars
<1>2. /\ ppc \in [Producers -> ProducerStages]
      /\ rec \in [Producers -> Records \cup {NoRecord}]
      /\ rec[p] \in Records /\ rec[p].level = "info" /\ rec[p] \notin promised
  BY <1>0, <1>1 DEF ServiceInv, ProducersHold, StampsUnique, Known, Emitting
<1>3. general \in Seq(Records) /\ Elements(general) \subseteq Everywhere
      /\ Elements(sink) \subseteq Everywhere /\ Elements(hand) \subseteq Everywhere
  BY <1>0, ElementsAreRecords DEF Everywhere
<1>4. PICK kept \in Seq(Records) : /\ general' = Append(kept, rec[p]) /\ Sorted(kept)
                                   /\ Elements(kept) \subseteq Elements(general)
  <2>1. CASE LaneFull(general, GeneralSlots)
    <3>1. general # <<>>
      BY <1>3, <2>1, EmptySeq, SlotsAssumption DEF LaneFull
    <3>2. Tail(general) \in Seq(Records) /\ Sorted(Tail(general))
          /\ Elements(Tail(general)) \subseteq Elements(general)
      BY <1>0, <1>3, <3>1, HeadTailProperties, TailSorted, TailElements DEF LanesOrdered
    <3> QED
      BY <2>1, <3>2 DEF PushDropOldest, DropOldest
  <2>2. CASE ~ LaneFull(general, GeneralSlots)
    BY <1>0, <1>3, <2>2 DEF PushDropOldest, LanesOrdered
  <2> QED
    BY <2>1, <2>2
<1>5. Elements(general') = Elements(kept) \cup {rec[p]}
  BY <1>2, <1>4, AppendElements
<1>6. Sorted(general')
  <2>1. Before(Elements(kept), {rec[p]})
    BY <1>1, <1>3, <1>4, PushOrder
  <2> QED
    BY <1>2, <1>4, <2>1, AppendSorted
<1>7. Before(Elements(sink), Elements(general')) /\ Before(Elements(hand), Elements(general'))
  <2>1. Before(Elements(sink), {rec[p]}) /\ Before(Elements(hand), {rec[p]})
    BY <1>1, <1>3, PushOrder
  <2>2. Before(Elements(sink), Elements(general)) /\ Before(Elements(hand), Elements(general))
    BY <1>0 DEF LanesOrdered
  <2> QED
    BY <1>4, <1>5, <2>1, <2>2 DEF Before
<1>8. \A r \in Elements(general') : r.level = "info"
  BY <1>0, <1>2, <1>4, <1>5 DEF LanesOrdered
<1>9. LanesOrdered'
  BY <1>0, <1>1, <1>6, <1>7, <1>8 DEF LanesOrdered
<1>10. StampsUnique'
  <2>1. Everywhere' \subseteq Everywhere \cup {rec[p]}
    BY <1>1, <1>4, <1>5 DEF Everywhere
  <2>2. ppc'[p] = "idle" /\ \A q \in Producers \ {p} : ppc'[q] = ppc[q] /\ rec'[q] = rec[q]
    BY <1>1, <1>2
  <2> QED
    BY <1>1, <2>1, <2>2, ProducerStamps
<1>11. FlushOrdered'
  BY <1>0, <1>1, <1>2, <1>4, <1>5 DEF FlushOrdered, Unpromised
<1> QED
  BY <1>9, <1>10, <1>11

LEMMA PushOrWaitOrder ==
    ASSUME OrderInv, NEW p \in Producers, PushOrWait(p)
    PROVE  StampsUnique' /\ LanesOrdered' /\ FlushOrdered'
<1>0. StampsUnique /\ FlushOrdered /\ ServiceInv /\ LanesOrdered
  BY DEF OrderInv
<1>1. /\ ppc[p] \in {"critical", "notified"}
      /\ UNCHANGED <<general, hand, sink, nextSequence, promised, taken, wpc, hpc, stop,
                     service>>
  BY DEF PushOrWait, Returns, ProducerGoes, sinkVars, hostVars
<1>2. /\ ppc \in [Producers -> ProducerStages]
      /\ rec \in [Producers -> Records \cup {NoRecord}]
      /\ rec[p] \in Records /\ rec[p].level = "critical" /\ rec[p] \notin promised
  BY <1>0, <1>1 DEF ServiceInv, ProducersHold, StampsUnique, Known, Emitting
<1>3. CASE LaneFull(critical, CriticalSlots)
  <2>1. ppc' = [ppc EXCEPT ![p] = "waiting"] /\ UNCHANGED <<critical, rec>>
    BY <1>3 DEF PushOrWait, ProducerGoes
  <2>2. LanesOrdered' /\ Everywhere' = Everywhere
    BY <1>1, <2>1, LinesStay
  <2>3. /\ ppc'[p] = "waiting" /\ rec'[p] = rec[p]
        /\ \A q \in Producers \ {p} : ppc'[q] = ppc[q] /\ rec'[q] = rec[q]
    BY <1>2, <2>1
  <2>4. StampsUnique'
    BY <1>1, <2>2, <2>3, ProducerStamps
  <2>5. FlushOrdered'
    BY <1>0, <1>1, <2>1 DEF FlushOrdered, Unpromised
  <2> QED
    BY <2>2, <2>4, <2>5
<1>4. CASE ~ LaneFull(critical, CriticalSlots)
  <2>1. /\ ppc' = [ppc EXCEPT ![p] = "idle"] /\ rec' = [rec EXCEPT ![p] = NoRecord]
        /\ critical' = Append(critical, rec[p])
    BY <1>4 DEF PushOrWait, Returns, ProducerGoes
  <2>2. critical \in Seq(Records) /\ Elements(critical) \subseteq Everywhere
        /\ Elements(sink) \subseteq Everywhere /\ Elements(hand) \subseteq Everywhere
    BY <1>0, ElementsAreRecords DEF Everywhere
  <2>3. Elements(critical') = Elements(critical) \cup {rec[p]}
    BY <1>2, <2>1, <2>2, AppendElements
  <2>4. Before(Elements(critical), {rec[p]}) /\ Before(Elements(sink), {rec[p]})
        /\ Before(Elements(hand), {rec[p]})
    BY <1>1, <2>2, PushOrder
  <2>5. Sorted(critical')
    BY <1>0, <1>2, <2>1, <2>2, <2>4, AppendSorted DEF LanesOrdered
  <2>6. Before(Elements(sink), Elements(critical'))
        /\ Before(Elements(hand), Elements(critical'))
    BY <1>0, <2>3, <2>4 DEF LanesOrdered, Before
  <2>7. \A r \in Elements(critical') : r.level = "critical"
    BY <1>0, <1>2, <2>3 DEF LanesOrdered
  <2>8. LanesOrdered'
    BY <1>0, <1>1, <2>5, <2>6, <2>7 DEF LanesOrdered
  <2>9. StampsUnique'
    <3>1. Everywhere' \subseteq Everywhere \cup {rec[p]}
      BY <1>1, <2>3 DEF Everywhere
    <3>2. ppc'[p] = "idle" /\ \A q \in Producers \ {p} : ppc'[q] = ppc[q] /\ rec'[q] = rec[q]
      BY <1>2, <2>1
    <3> QED
      BY <1>1, <3>1, <3>2, ProducerStamps
  <2>10. FlushOrdered'
    BY <1>0, <1>1, <1>2, <2>3 DEF FlushOrdered, Unpromised
  <2> QED
    BY <2>8, <2>9, <2>10
<1> QED
  BY <1>3, <1>4

LEMMA WakeOrTimeOutOrder ==
    ASSUME OrderInv, NEW p \in Producers, WakeSpuriously(p) \/ TimeOut(p)
    PROVE  StampsUnique' /\ LanesOrdered' /\ FlushOrdered'
<1>0. FlushOrdered /\ ServiceInv
  BY DEF OrderInv
<1>1. /\ ppc[p] \in {"waiting", "notified"}
      /\ UNCHANGED <<general, critical, hand, sink, nextSequence, promised, taken, wpc, hpc,
                     stop, service>>
  BY DEF WakeSpuriously, TimeOut, Returns, ProducerGoes, laneVars, emitVars, sinkVars, hostVars
<1>2. ppc \in [Producers -> ProducerStages] /\ rec \in [Producers -> Records \cup {NoRecord}]
  BY <1>0 DEF ServiceInv, ProducersHold
<1>3. LanesOrdered' /\ Everywhere' = Everywhere
  BY <1>1, LinesStay
<1>4. FlushOrdered'
  BY <1>0, <1>1 DEF FlushOrdered, Unpromised
<1>5. /\ ppc'[p] = "idle" \/ (ppc'[p] = "notified" /\ rec'[p] = rec[p])
      /\ \A q \in Producers \ {p} : ppc'[q] = ppc[q] /\ rec'[q] = rec[q]
  BY <1>2 DEF WakeSpuriously, TimeOut, Returns, ProducerGoes, emitVars
<1>6. StampsUnique'
  BY <1>1, <1>3, <1>5, ProducerStamps
<1> QED
  BY <1>3, <1>4, <1>6

-----------------------------------------------------------------------------
(* The writer.                                                              *)

LEMMA NotifyOneStamps ==
    ASSUME ServiceInv, NotifyOne
    PROVE  \A p \in Producers : Emitting(p)' =>
               Emitting(p) /\ (ppc'[p] = "info" <=> ppc[p] = "info")
<1>1. ppc \in [Producers -> ProducerStages]
  BY DEF ServiceInv, ProducersHold
<1>2. \/ UNCHANGED ppc
      \/ \E p \in Producers : ppc[p] = "waiting" /\ ppc' = [ppc EXCEPT ![p] = "notified"]
  BY DEF NotifyOne
<1>3. CASE UNCHANGED ppc
  BY <1>3 DEF Emitting
<1>4. ASSUME NEW p \in Producers, ppc[p] = "waiting", ppc' = [ppc EXCEPT ![p] = "notified"]
      PROVE  \A q \in Producers : (ppc'[q] # "idle" <=> ppc[q] # "idle")
                                 /\ (ppc'[q] = "info" <=> ppc[q] = "info")
  BY <1>1, <1>4
<1> QED
  BY <1>2, <1>3, <1>4 DEF Emitting

\* The stamps after a step of the writer or of the host that only moves records on.
LEMMA MovedOn ==
    ASSUME OrderInv, UNCHANGED <<nextSequence, rec>>, Everywhere' \subseteq Everywhere,
           Known' \subseteq Known \cup Everywhere,
           \A p \in Producers : Emitting(p)' =>
               Emitting(p) /\ (ppc'[p] = "info" <=> ppc[p] = "info")
    PROVE  StampsUnique'
BY StampsStay

LEMMA TakeCriticalOrder ==
    ASSUME OrderInv, TakeCritical, PollCritical \/ DrainCritical
    PROVE  StampsUnique' /\ LanesOrdered' /\ FlushOrdered'
<1>0. FlushOrdered /\ ServiceInv /\ LanesOrdered
  BY DEF OrderInv
<1>1. /\ critical # <<>> /\ hand' = <<Head(critical)>> /\ critical' = Tail(critical)
      /\ taken' = Noted(taken, Head(critical))
      /\ UNCHANGED <<general, sink, nextSequence, rec, promised, hpc, stop, service>>
  BY DEF TakeCritical, emitVars, sinkVars, hostVars
<1>2. /\ critical \in Seq(Records)
      /\ Head(critical) \in Elements(critical) /\ Elements(critical') \subseteq Elements(critical)
      /\ Sorted(critical') /\ Before({Head(critical)}, Elements(critical'))
  BY <1>0, <1>1, ElementsAreRecords, TailElements, TailSorted DEF LanesOrdered
<1>3. Elements(hand') = {Head(critical)}
  BY <1>1, OneElement
<1>4. Before(Elements(hand'), Elements(general')) /\ \A r \in Elements(critical') : r.level = "critical"
  BY <1>0, <1>1, <1>2, <1>3 DEF LanesOrdered, Before, Same
<1>5. Before(Elements(sink'), Elements(hand')) /\ Before(Elements(sink'), Elements(critical'))
  BY <1>0, <1>1, <1>2, <1>3 DEF LanesOrdered, Before
<1>6. LanesOrdered'
  BY <1>0, <1>1, <1>2, <1>3, <1>4, <1>5 DEF LanesOrdered
<1>7. Everywhere' \subseteq Everywhere /\ Known' \subseteq Known \cup Everywhere
  BY <1>1, <1>2, <1>3 DEF Everywhere, Known, Noted
<1>8. StampsUnique'
  BY <1>0, <1>1, <1>7, MovedOn, NotifyOneStamps DEF TakeCritical
<1>9. FlushOrdered'
  BY <1>0, <1>1 DEF FlushOrdered, PollCritical, DrainCritical, WriterGoes, Noted, ShuttingDown
<1> QED
  BY <1>6, <1>8, <1>9

LEMMA TakeGeneralOrder ==
    ASSUME OrderInv, TakeGeneral, PollGeneral \/ DrainGeneral
    PROVE  StampsUnique' /\ LanesOrdered' /\ FlushOrdered'
<1>0. FlushOrdered /\ ServiceInv /\ LanesOrdered
  BY DEF OrderInv
<1>1. /\ general # <<>> /\ hand' = <<Head(general)>> /\ general' = Tail(general)
      /\ taken' = Noted(taken, Head(general))
      /\ UNCHANGED <<critical, sink, nextSequence, rec, ppc, promised, hpc, stop, service>>
  BY DEF TakeGeneral, emitVars, sinkVars, hostVars
<1>2. /\ general \in Seq(Records)
      /\ Head(general) \in Elements(general) /\ Elements(general') \subseteq Elements(general)
      /\ Sorted(general') /\ Before({Head(general)}, Elements(general'))
  BY <1>0, <1>1, ElementsAreRecords, TailElements, TailSorted DEF LanesOrdered
<1>3. Elements(hand') = {Head(general)}
  BY <1>1, OneElement
<1>4. Before(Elements(hand'), Elements(critical')) /\ \A r \in Elements(general') : r.level = "info"
  BY <1>0, <1>1, <1>2, <1>3 DEF LanesOrdered, Before, Same
<1>5. Before(Elements(sink'), Elements(hand')) /\ Before(Elements(sink'), Elements(general'))
  BY <1>0, <1>1, <1>2, <1>3 DEF LanesOrdered, Before
<1>6. LanesOrdered'
  BY <1>0, <1>1, <1>2, <1>3, <1>4, <1>5 DEF LanesOrdered
<1>7. Everywhere' \subseteq Everywhere /\ Known' \subseteq Known \cup Everywhere
  BY <1>1, <1>2, <1>3 DEF Everywhere, Known, Noted
<1>8. StampsUnique'
  BY <1>1, <1>7, MovedOn DEF Emitting
<1>9. FlushOrdered'
  BY <1>0, <1>1 DEF FlushOrdered, PollGeneral, DrainGeneral, WriterGoes, Noted, ShuttingDown
<1> QED
  BY <1>6, <1>8, <1>9

LEMMA DeliverOrder ==
    ASSUME OrderInv, Deliver("deliver", "critical") \/ Deliver("flush", "drain")
    PROVE  StampsUnique' /\ LanesOrdered' /\ FlushOrdered'
<1>0. FlushOrdered /\ ServiceInv /\ LanesOrdered
  BY DEF OrderInv
<1>1. /\ wpc \in {"deliver", "flush"} /\ hand' = <<>> /\ (sink' = sink \o hand \/ sink' = sink)
      /\ UNCHANGED <<general, critical, nextSequence, rec, ppc, promised, taken, hpc, stop,
                     service>>
  BY DEF Deliver, WriterGoes, laneVars, emitVars, hostVars
<1>2. hand \in Seq(Records) /\ sink \in Seq(Records) /\ Len(hand) = 1
  BY <1>0, <1>1, ElementsAreRecords DEF ServiceInv, WriterHolds
<1>3. Elements(hand') = {}
  BY <1>1, NoElements
<1>4. Sorted(sink') /\ Elements(sink') \subseteq Elements(sink) \cup Elements(hand)
  <2>1. CASE sink' = sink
    BY <1>0, <2>1 DEF LanesOrdered
  <2>2. CASE sink' = sink \o hand
    <3>1. hand[1] \in Records /\ Elements(hand) = {hand[1]} /\ sink' = Append(sink, hand[1])
      BY <1>2, <2>2, ConcatOne
    <3>2. Elements(sink') = Elements(sink) \cup Elements(hand)
      BY <1>2, <3>1, AppendElements
    <3>3. Sorted(sink')
      BY <1>0, <1>2, <3>1, AppendSorted DEF LanesOrdered
    <3> QED
      BY <3>2, <3>3
  <2> QED
    BY <1>1, <2>1, <2>2
<1>5. /\ Before(Elements(sink'), Elements(general')) /\ Before(Elements(sink'), Elements(critical'))
  BY <1>0, <1>1, <1>4 DEF LanesOrdered, Before
<1>6. LanesOrdered'
  BY <1>0, <1>1, <1>3, <1>4, <1>5 DEF LanesOrdered, Before
<1>7. StampsUnique'
  <2>1. Everywhere' \subseteq Everywhere
    BY <1>1, <1>3, <1>4 DEF Everywhere
  <2> QED
    BY <1>1, <2>1, MovedOn DEF Emitting, Known
<1>8. FlushOrdered'
  BY <1>0, <1>1 DEF FlushOrdered, Deliver, WriterGoes
<1> QED
  BY <1>6, <1>7, <1>8

\* The writer's other steps take it nearer to its exit only past an empty lane.
LEMMA WriterMovesOrder ==
    ASSUME OrderInv,
           \/ CriticalEmpty \/ GeneralEmpty \/ CheckStop \/ Park \/ Unpark
           \/ DrainExpired \/ DrainNoCritical \/ DrainEmpty \/ WriterCrashes \/ CrashHistory
    PROVE  StampsUnique' /\ LanesOrdered' /\ FlushOrdered'
<1>0. FlushOrdered /\ ServiceInv
  BY DEF OrderInv
<1>1. /\ UNCHANGED <<general, critical, hand, sink, nextSequence, rec, ppc, promised, taken,
                     hpc, stop, service>>
  BY DEF CriticalEmpty, GeneralEmpty, CheckStop, Park, Unpark, DrainExpired, DrainNoCritical,
         DrainEmpty, WriterCrashes, CrashHistory, WriterOnly, laneVars, emitVars, sinkVars, hostVars
<1>2. LanesOrdered' /\ Everywhere' = Everywhere
  BY <1>1, LinesStay
<1>3. StampsUnique'
  BY <1>1, <1>2, MovedOn DEF Emitting, Known
<1> SUFFICES FlushOrdered'
  BY <1>2, <1>3
<1>4. (critical = <<>> => Unpromised(critical)) /\ (general = <<>> => Unpromised(general))
  BY NoElements DEF Unpromised
<1>5. Unpromised(critical)' = Unpromised(critical) /\ Unpromised(general)' = Unpromised(general)
  BY <1>1 DEF Unpromised
<1>6. CASE CriticalEmpty \/ GeneralEmpty \/ CheckStop \/ Park \/ Unpark
  BY <1>0, <1>1, <1>6 DEF FlushOrdered, CriticalEmpty, GeneralEmpty, CheckStop, OnStop, Park,
                          Unpark, WriterGoes, ServiceInv, FlagsHold
<1>7. CASE DrainExpired \/ WriterCrashes \/ CrashHistory
  BY <1>0, <1>1, <1>7 DEF FlushOrdered, DrainExpired, WriterCrashes, CrashHistory, WriterGoes
<1>8. CASE DrainNoCritical
  BY <1>0, <1>1, <1>4, <1>5, <1>8 DEF FlushOrdered, DrainNoCritical, WriterGoes
<1>9. CASE DrainEmpty
  BY <1>0, <1>1, <1>4, <1>5, <1>9 DEF FlushOrdered, DrainEmpty, WriterGoes
<1> QED
  BY <1>6, <1>7, <1>8, <1>9

LEMMA WriterOrder ==
    ASSUME OrderInv, Writer PROVE StampsUnique' /\ LanesOrdered' /\ FlushOrdered'
<1>1. CASE PollCritical \/ DrainCritical
  BY <1>1, TakeCriticalOrder DEF PollCritical, DrainCritical
<1>2. CASE PollGeneral \/ DrainGeneral
  BY <1>2, TakeGeneralOrder DEF PollGeneral, DrainGeneral
<1> QED
  BY <1>1, <1>2, DeliverOrder, WriterMovesOrder DEF Writer

-----------------------------------------------------------------------------
(* The host.                                                                *)

LEMMA InstallOrder ==
    ASSUME OrderInv, NEW opened \in BOOLEAN, Install(opened)
    PROVE  StampsUnique' /\ LanesOrdered' /\ FlushOrdered'
<1>1. /\ general' = <<>> /\ critical' = <<>> /\ hand' = <<>> /\ sink' = <<>>
      /\ promised' = {} /\ taken' = {} /\ Known' = {}
      /\ wpc' = "critical" /\ ~ stop' /\ hpc' = "idle" /\ UNCHANGED ppc
  BY DEF Install, OrderInv, FlushOrdered, Known
<1>2. \A p \in Producers : ~ Emitting(p)'
  BY <1>1 DEF Install, OrderInv, ServiceInv, HostHolds, Active, Emitting
<1>3. /\ Elements(general') = {} /\ Elements(critical') = {} /\ Elements(hand') = {}
      /\ Elements(sink') = {} /\ Everywhere' = {}
      /\ Sorted(general') /\ Sorted(critical') /\ Sorted(sink')
  BY <1>1, NoElements DEF Everywhere
<1>4. LanesOrdered'
  BY <1>3 DEF LanesOrdered, Before
<1>5. StampsUnique'
  BY <1>1, <1>2, <1>3 DEF StampsUnique
<1>6. FlushOrdered'
  BY <1>1 DEF FlushOrdered
<1> QED
  BY <1>4, <1>5, <1>6

\* What the host promises is queued, hence stamped, and not the record of a running emit;
\* the writer is still far from its flush window.
LEMMA BeginShutdownOrder ==
    ASSUME OrderInv, BeginShutdown PROVE StampsUnique' /\ LanesOrdered' /\ FlushOrdered'
<1>0. FlushOrdered
  BY DEF OrderInv
<1>1. /\ hpc = "idle" /\ hpc' = "called" /\ service = "live"
      /\ UNCHANGED <<general, critical, hand, sink, nextSequence, rec, ppc, wpc, stop, service,
                     taken>>
  BY DEF BeginShutdown, HostGoes, laneVars, emitVars, sinkVars
<1>2. LanesOrdered' /\ Everywhere' = Everywhere
  BY <1>1, LinesStay
<1>3. Known' \subseteq Known \cup Everywhere
  BY RangeIsElements DEF BeginShutdown, Everywhere, Known, OrderInv
<1>4. StampsUnique'
  BY <1>1, <1>2, <1>3, MovedOn DEF Emitting
<1>5. FlushOrdered'
  BY <1>0, <1>1 DEF FlushOrdered
<1> QED
  BY <1>2, <1>4, <1>5

\* Once stop is set the host is past the promise and no longer counts on a busy writer.
LEMMA HostOrder ==
    ASSUME OrderInv, FlushWindowPasses \/ Shutdown
    PROVE  StampsUnique' /\ LanesOrdered' /\ FlushOrdered'
<1>0. FlushOrdered /\ ServiceInv
  BY DEF OrderInv
<1>1. /\ UNCHANGED <<general, critical, hand, sink, nextSequence, rec>>
      /\ UNCHANGED <<promised, taken>> \/ (promised' = {} /\ taken' = {})
  BY DEF FlushWindowPasses, Shutdown, GeneralBefore, DrainedBefore, BaselineOnly, SetStop,
         WakeLanes, NotifyWriter, Join, CountGeneral, CountCritical, Destroy, HostOnly, laneVars,
         emitVars, sinkVars
<1>2. LanesOrdered' /\ Everywhere' = Everywhere
  BY <1>1, LinesStay
<1>3. \A p \in Producers : Emitting(p)' =>
          Emitting(p) /\ (ppc'[p] = "info" <=> ppc[p] = "info")
  <2>1. CASE UNCHANGED ppc
    BY <2>1 DEF Emitting
  <2>2. CASE WakeLanes
    BY <2>2 DEF WakeLanes, Emitting
  <2> QED
    BY <2>1, <2>2
    DEF FlushWindowPasses, Shutdown, GeneralBefore, DrainedBefore, BaselineOnly, SetStop,
        NotifyWriter, Join, CountGeneral, CountCritical, Destroy
<1>4. StampsUnique'
  <2>1. Known' \subseteq Known
    BY <1>1 DEF Known
  <2> QED
    BY <1>1, <1>2, <1>3, <2>1, MovedOn
<1> SUFFICES FlushOrdered'
  BY <1>2, <1>4
<1>5. UNCHANGED promised =>
          Unpromised(critical)' = Unpromised(critical) /\ Unpromised(general)' = Unpromised(general)
  BY <1>1 DEF Unpromised
<1>6. CASE GeneralBefore \/ DrainedBefore \/ FlushWindowPasses
  BY <1>0, <1>5, <1>6
  DEF FlushOrdered, GeneralBefore, DrainedBefore, BaselineOnly, FlushWindowPasses, HostGoes
<1>7. CASE SetStop \/ WakeLanes \/ NotifyWriter
  BY <1>0, <1>5, <1>7 DEF FlushOrdered, SetStop, WakeLanes, NotifyWriter, HostOnly, HostGoes
<1>8. CASE Join \/ CountGeneral \/ CountCritical
  BY <1>0, <1>5, <1>8
  DEF FlushOrdered, Join, CountGeneral, CountCritical, HostOnly, HostGoes
<1>9. CASE Destroy
  BY <1>9 DEF FlushOrdered, Destroy, HostGoes, Unpromised
<1> QED
  BY <1>6, <1>7, <1>8, <1>9 DEF Shutdown

LEMMA UntouchedOrder ==
    ASSUME OrderInv, UNCHANGED vars PROVE StampsUnique' /\ LanesOrdered' /\ FlushOrdered'
<1>1. UNCHANGED <<general, critical, hand, sink, nextSequence, rec, ppc, promised, taken, hpc,
                  stop, service, wpc>>
  BY DEF vars, laneVars, emitVars, sinkVars, hostVars
<1>2. LanesOrdered' /\ Everywhere' = Everywhere
  BY <1>1, LinesStay
<1>3. StampsUnique'
  BY <1>1, <1>2, MovedOn DEF Emitting, Known
<1>4. FlushOrdered'
  BY <1>1 DEF FlushOrdered, Unpromised, OrderInv
<1> QED
  BY <1>2, <1>3, <1>4

-----------------------------------------------------------------------------
LEMMA NextOrder == OrderInv /\ [Next]_vars => OrderInv'
<1> SUFFICES ASSUME OrderInv, [Next]_vars PROVE OrderInv'
  OBVIOUS
<1>0. ServiceInv' /\ HistoryHolds'
  BY NextKeeps, NextHistory DEF OrderInv
<1> SUFFICES StampsUnique' /\ LanesOrdered' /\ FlushOrdered'
  BY <1>0 DEF OrderInv
<1>1. ASSUME NEW p \in Producers, Produce(p) \/ WakeSpuriously(p)
      PROVE  StampsUnique' /\ LanesOrdered' /\ FlushOrdered'
  BY <1>1, PushDropOldestOrder, PushOrWaitOrder, WakeOrTimeOutOrder DEF Produce
<1>2. ASSUME NEW p \in Producers, NEW level \in Levels, BeginEmit(p, level)
      PROVE  StampsUnique' /\ LanesOrdered' /\ FlushOrdered'
  BY <1>2, BeginEmitOrder
<1>3. CASE Writer \/ WriterCrashes \/ CrashHistory
  BY <1>3, WriterOrder, WriterMovesOrder
<1>4. CASE Shutdown \/ BeginShutdown \/ FlushWindowPasses
  BY <1>4, BeginShutdownOrder, HostOrder
<1>5. ASSUME NEW opened \in BOOLEAN, Install(opened)
      PROVE  StampsUnique' /\ LanesOrdered' /\ FlushOrdered'
  BY <1>5, InstallOrder
<1>6. CASE UNCHANGED vars
  BY <1>6, UntouchedOrder
<1> QED
  BY <1>1, <1>2, <1>3, <1>4, <1>5, <1>6 DEF Next

LEMMA InitOrdered == Init => OrderInv
<1> SUFFICES ASSUME Init PROVE OrderInv
  OBVIOUS
<1>1. /\ Elements(general) = {} /\ Elements(critical) = {} /\ Elements(hand) = {}
      /\ Elements(sink) = {} /\ Everywhere = {}
      /\ Sorted(general) /\ Sorted(critical) /\ Sorted(sink)
  BY NoElements DEF Init, Everywhere
<1>2. LanesOrdered
  BY <1>1 DEF LanesOrdered, Before
<1>3. StampsUnique
  BY <1>1 DEF Init, StampsUnique, Emitting, Known
<1>4. FlushOrdered
  BY <1>1 DEF Init, FlushOrdered, Unpromised
<1>5. HistoryHolds
  BY DEF Init, HistoryHolds
<1> QED
  BY <1>2, <1>3, <1>4, <1>5, InitHolds DEF OrderInv

LEMMA OrderFollows == OrderInv => SinkInOrder
BY DEF OrderInv, LanesOrdered, Sorted, Same, SinkInOrder

-----------------------------------------------------------------------------
\* The records of one producer reach the sink in the order it emitted them, each at most
\* once, within each lane, whoever times out, is evicted or fails on the way.
THEOREM DeliveryInOrder == Spec => []SinkInOrder
<1> QED
  BY InitOrdered, NextOrder, OrderFollows, PTL DEF Spec

-----------------------------------------------------------------------------
(* What becomes of the records that were queued at the call of shutdown().  *)

Queued == Elements(general) \cup Elements(critical)

\* A promised record is queued, taken or evicted, from the call on; only an overlapping emit
\* evicts, and only general records; what was taken does not come back to a lane.
HistoryInv ==
    /\ hpc = "idle" => evicted = {} /\ unseen = {}
    /\ ShuttingDown /\ ~ Overlap => Active = {}
    /\ \A r \in evicted : Overlap /\ r.level = "info"
    /\ promised \subseteq Queued \cup (taken \cup evicted)
    /\ taken \cap Queued = {}
    /\ IsFiniteSet(taken) /\ IsFiniteSet(promised)

\* A sequence has at most as many elements as it is long.
LEMMA ElementsCounted ==
    ASSUME NEW q \in Seq(Records)
    PROVE  IsFiniteSet(Elements(q)) /\ Cardinality(Elements(q)) <= Len(q)
<1>1. Len(q) \in Nat /\ DOMAIN q = 1 .. Len(q) /\ \A i \in 1 .. Len(q) : q[i] \in Elements(q)
  BY LenProperties DEF Elements
<1>2. q \in [1 .. Len(q) -> Elements(q)]
  BY <1>1
<1>3. ExistsSurjection(1 .. Len(q), Elements(q))
  BY <1>2 DEF ExistsSurjection, Surjection, Elements
<1> QED
  BY <1>1, <1>3, FS_NatSurjection, FS_SurjCardinalityBound

\* A producer in emit() while shutdown() runs: an overlap.
LEMMA EmitOverlaps ==
    ASSUME HistoryInv, NEW p \in Producers, Emitting(p)
    PROVE  Overlap \/ hpc = "idle"
BY DEF HistoryInv, ShuttingDown, Active

\* A step that leaves lanes and histories alone.
LEMMA HistoryAside ==
    ASSUME HistoryInv, UNCHANGED <<promised, taken, evicted>>, Queued' = Queued,
           hpc' = "idle" => hpc = "idle" /\ UNCHANGED unseen,
           ShuttingDown' /\ ~ Overlap => ShuttingDown /\ Active' \subseteq Active
    PROVE  HistoryInv'
BY DEF HistoryInv

\* A push: the new record is none that was taken, and the one it drops is evicted.
LEMMA PushDropOldestHistory ==
    ASSUME OrderInv, HistoryInv, NEW p \in Producers, PushDropOldest(p)
    PROVE  HistoryInv'
<1>0. ServiceInv /\ StampsUnique /\ LanesOrdered /\ FlushOrdered
  BY DEF OrderInv
<1>1. /\ ppc[p] = "info" /\ ppc' = [ppc EXCEPT ![p] = "idle"]
      /\ UNCHANGED <<critical, promised, taken, unseen, hpc>>
  BY DEF PushDropOldest, Returns, ProducerGoes, hostVars
<1>2. /\ ppc \in [Producers -> ProducerStages] /\ general \in Seq(Records)
      /\ rec[p] \in Records /\ rec[p] \notin taken /\ Emitting(p)
  BY <1>0, <1>1 DEF ServiceInv, ProducersHold, LanesHold, StampsUnique, Known, Emitting
<1>3. Overlap \/ hpc = "idle"
  BY <1>2, EmitOverlaps
<1>4. /\ Elements(general') \subseteq Elements(general) \cup {rec[p]}
      /\ evicted \subseteq evicted'
      /\ \/ Elements(general) \subseteq Elements(general') /\ evicted' = evicted
         \/ \E h \in Elements(general) :
               /\ Elements(general) \subseteq Elements(general') \cup {h}
               /\ evicted' = Noted(evicted, h)
  <2>1. CASE LaneFull(general, GeneralSlots)
    <3>1. general # <<>>
      BY <1>2, <2>1, EmptySeq, SlotsAssumption DEF LaneFull
    <3>2. Tail(general) \in Seq(Records) /\ general' = Append(Tail(general), rec[p])
          /\ evicted' = Noted(evicted, Head(general))
      BY <1>2, <2>1, <3>1, HeadTailProperties DEF PushDropOldest, DropOldest
    <3>3. Elements(general') = Elements(Tail(general)) \cup {rec[p]}
      BY <1>2, <3>2, AppendElements
    <3> QED
      BY <1>2, <3>1, <3>2, <3>3, TailElements DEF Noted
  <2>2. CASE ~ LaneFull(general, GeneralSlots)
    <3>1. general' = Append(general, rec[p]) /\ evicted' = evicted
      BY <2>2 DEF PushDropOldest
    <3>2. Elements(general') = Elements(general) \cup {rec[p]}
      BY <1>2, <3>1, AppendElements
    <3> QED
      BY <3>1, <3>2
  <2> QED
    BY <2>1, <2>2
<1>5. Active' \subseteq Active
  BY <1>1, <1>2 DEF Active, Emitting
<1>6. CASE hpc = "idle"
  BY <1>0, <1>1, <1>4, <1>6 DEF HistoryInv, FlushOrdered, ShuttingDown, Noted
<1>7. CASE hpc # "idle"
  <2>1. \A r \in evicted' : Overlap /\ r.level = "info"
    BY <1>0, <1>3, <1>4, <1>7 DEF HistoryInv, LanesOrdered, Noted
  <2>2. promised' \subseteq Queued' \cup (taken' \cup evicted')
    BY <1>1, <1>4, <1>7 DEF HistoryInv, Queued, Noted, ShuttingDown
  <2>3. taken' \cap Queued' = {}
    BY <1>1, <1>2, <1>4 DEF HistoryInv, Queued
  <2> QED
    BY <1>1, <1>3, <1>5, <1>7, <2>1, <2>2, <2>3 DEF HistoryInv
<1> QED
  BY <1>6, <1>7

LEMMA PushOrWaitHistory ==
    ASSUME OrderInv, HistoryInv, NEW p \in Producers, PushOrWait(p)
    PROVE  HistoryInv'
<1>0. ServiceInv /\ StampsUnique
  BY DEF OrderInv
<1>1. /\ ppc[p] \in {"critical", "notified"}
      /\ UNCHANGED <<general, promised, taken, evicted, unseen, hpc>>
  BY DEF PushOrWait, Returns, ProducerGoes, hostVars
<1>2. /\ ppc \in [Producers -> ProducerStages] /\ critical \in Seq(Records)
      /\ rec[p] \in Records /\ rec[p] \notin taken
  BY <1>0, <1>1 DEF ServiceInv, ProducersHold, LanesHold, StampsUnique, Known, Emitting
<1>3. Active' \subseteq Active
  BY <1>1, <1>2 DEF Active, Emitting, PushOrWait, Returns, ProducerGoes
<1>4. /\ Elements(critical) \subseteq Elements(critical')
      /\ Elements(critical') \subseteq Elements(critical) \cup {rec[p]}
  BY <1>2, AppendElements DEF PushOrWait
<1> QED
  BY <1>1, <1>2, <1>3, <1>4 DEF HistoryInv, Queued, ShuttingDown

\* The writer takes a record from the front of a lane: it is in neither any more.
LEMMA TakeHistory ==
    ASSUME OrderInv, HistoryInv, TakeCritical \/ TakeGeneral,
           NotifyOne \/ UNCHANGED ppc
    PROVE  /\ HistoryInv'
           /\ \E h \in Queued : /\ taken' = Noted(taken, h)
                                /\ TakeGeneral => h.level = "info"
                                /\ TakeCritical => h.level = "critical"
<1>0. ServiceInv /\ LanesOrdered /\ FlushOrdered
  BY DEF OrderInv
<1>1. UNCHANGED <<promised, evicted, unseen, hpc>>
  BY DEF TakeCritical, TakeGeneral, hostVars
<1>2. general \in Seq(Records) /\ critical \in Seq(Records)
  BY <1>0 DEF ServiceInv, LanesHold
<1>3. Active' \subseteq Active
  BY <1>0, NotifyOneStamps DEF Active, Emitting
<1>4. \A q \in Seq(Records) : q # <<>> /\ Sorted(q) =>
          /\ Head(q) \in Elements(q) /\ Head(q) \notin Elements(Tail(q))
          /\ Elements(Tail(q)) \subseteq Elements(q)
          /\ Elements(q) \subseteq Elements(Tail(q)) \cup {Head(q)}
  <2> SUFFICES ASSUME NEW q \in Seq(Records), q # <<>>, Sorted(q)
               PROVE  /\ Head(q) \in Elements(q) /\ Head(q) \notin Elements(Tail(q))
                      /\ Elements(Tail(q)) \subseteq Elements(q)
                      /\ Elements(q) \subseteq Elements(Tail(q)) \cup {Head(q)}
    OBVIOUS
  <2>1. Before({Head(q)}, Elements(Tail(q))) /\ Head(q) \in Records
    BY TailSorted, HeadTailProperties
  <2>2. Head(q).sequence \in Nat
    BY <2>1, SequencesAreNumbers
  <2> QED
    BY <2>1, <2>2, TailElements DEF Before, Same
<1>5. PICK h \in Queued :
          /\ taken' = Noted(taken, h) /\ h \notin Queued'
          /\ Queued' \subseteq Queued /\ Queued \subseteq Queued' \cup {h}
          /\ TakeGeneral => h.level = "info"
          /\ TakeCritical => h.level = "critical"
  <2>1. /\ \A r \in Elements(general) : r.level = "info"
        /\ \A r \in Elements(critical) : r.level = "critical"
        /\ Sorted(general) /\ Sorted(critical)
    BY <1>0 DEF LanesOrdered
  <2>2. CASE TakeCritical
    <3>1. critical # <<>> /\ critical' = Tail(critical) /\ general' = general
          /\ taken' = Noted(taken, Head(critical))
      BY <2>2 DEF TakeCritical
    <3>2. ~ TakeGeneral
      BY <1>2, <3>1, HeadTailProperties, LenProperties DEF TakeGeneral
    <3> QED
      BY <1>2, <1>4, <2>1, <3>1, <3>2 DEF Queued
  <2>3. CASE TakeGeneral
    <3>1. general # <<>> /\ general' = Tail(general) /\ critical' = critical
          /\ taken' = Noted(taken, Head(general))
      BY <2>3 DEF TakeGeneral
    <3>2. ~ TakeCritical
      BY <1>2, <3>1, HeadTailProperties, LenProperties DEF TakeCritical
    <3> QED
      BY <1>2, <1>4, <2>1, <3>1, <3>2 DEF Queued
  <2> QED
    BY <2>2, <2>3
<1>6. IsFiniteSet(taken')
  BY <1>5, FS_AddElement DEF HistoryInv, Noted
<1>7. promised' \subseteq Queued' \cup (taken' \cup evicted')
  BY <1>0, <1>1, <1>5 DEF HistoryInv, Noted, ShuttingDown, FlushOrdered
<1>8. taken' \cap Queued' = {}
  BY <1>5 DEF HistoryInv, Noted
<1>9. HistoryInv'
  BY <1>1, <1>3, <1>6, <1>7, <1>8 DEF HistoryInv, ShuttingDown
<1> QED
  BY <1>5, <1>9

LEMMA BeginShutdownHistory ==
    ASSUME OrderInv, HistoryInv, BeginShutdown PROVE HistoryInv'
<1>0. ServiceInv /\ FlushOrdered
  BY DEF OrderInv
<1>1. /\ hpc = "idle" /\ hpc' = "called" /\ (Overlap \/ Active = {})
      /\ promised' = Queued
      /\ UNCHANGED <<general, critical, ppc, taken, evicted, unseen>>
  BY <1>0, RangeIsElements DEF BeginShutdown, HostGoes, laneVars, Active, Queued
<1>2. taken = {} /\ evicted = {}
  BY <1>0, <1>1 DEF FlushOrdered, HistoryInv
<1>3. IsFiniteSet(Queued)
  BY <1>0, ElementsCounted, FS_Union DEF ServiceInv, LanesHold, Queued
<1>4. Queued' = Queued /\ Active' = Active
  BY <1>1 DEF Queued, Active, Emitting
<1> QED
  BY <1>1, <1>2, <1>3, <1>4, FS_EmptySet DEF HistoryInv, ShuttingDown

LEMMA NextHistoryInv == OrderInv /\ HistoryInv /\ [Next]_vars => HistoryInv'
<1> SUFFICES ASSUME OrderInv, HistoryInv, [Next]_vars PROVE HistoryInv'
  OBVIOUS
<1>0. ServiceInv /\ FlushOrdered
  BY DEF OrderInv
<1>1. ASSUME NEW p \in Producers, Produce(p) \/ WakeSpuriously(p) PROVE HistoryInv'
  <2>1. CASE TimeOut(p) \/ WakeSpuriously(p)
    <3>1. UNCHANGED <<general, critical, promised, taken, evicted, unseen, hpc>>
          /\ ppc[p] # "idle" /\ (ppc' = [ppc EXCEPT ![p] = "idle"]
                                  \/ ppc' = [ppc EXCEPT ![p] = "notified"])
      BY <2>1 DEF TimeOut, WakeSpuriously, Returns, ProducerGoes, laneVars, hostVars
    <3>2. Queued' = Queued /\ Active' \subseteq Active
      BY <1>0, <3>1 DEF Queued, Active, Emitting, ServiceInv, ProducersHold
    <3> QED
      BY <3>1, <3>2, HistoryAside DEF ShuttingDown
  <2> QED
    BY <1>1, <2>1, PushDropOldestHistory, PushOrWaitHistory DEF Produce
<1>2. ASSUME NEW p \in Producers, NEW level \in Levels, BeginEmit(p, level)
      PROVE  HistoryInv'
  <2>1. UNCHANGED <<general, critical, promised, taken, evicted, unseen, hpc>>
        /\ (Overlap \/ hpc = "idle")
    BY <1>2 DEF BeginEmit, laneVars, hostVars
  <2>2. Queued' = Queued
    BY <2>1 DEF Queued
  <2> QED
    BY <2>1, <2>2, HistoryAside DEF ShuttingDown
<1>3. CASE Writer \/ WriterCrashes \/ CrashHistory
  <2>1. CASE PollCritical \/ DrainCritical \/ PollGeneral \/ DrainGeneral
    BY <2>1, TakeHistory
    DEF PollCritical, DrainCritical, PollGeneral, DrainGeneral, TakeCritical, TakeGeneral
  <2>2. CASE UNCHANGED <<general, critical, promised, taken, evicted, unseen, hpc, ppc>>
    BY <2>2, HistoryAside DEF Queued, Active, Emitting, ShuttingDown
  <2> QED
    BY <1>3, <2>1, <2>2
    DEF Writer, WriterCrashes, CrashHistory, CriticalEmpty, GeneralEmpty, Deliver, CheckStop,
        Park, Unpark, DrainExpired, DrainNoCritical, DrainEmpty, WriterOnly, laneVars, hostVars
<1>4. CASE Shutdown \/ FlushWindowPasses
  <2>1. CASE Destroy
    <3>1. /\ promised' = {} /\ taken' = {} /\ evicted' = {} /\ unseen' = {} /\ hpc' = "idle"
      BY <2>1 DEF Destroy, HostGoes
    <3> QED
      BY <3>1, FS_EmptySet DEF HistoryInv, ShuttingDown
  <2>2. CASE ~ Destroy
    <3>1. /\ UNCHANGED <<general, critical, promised, taken, evicted>>
          /\ hpc # "idle" /\ hpc' # "idle"
      BY <1>4, <2>2
      DEF Shutdown, FlushWindowPasses, GeneralBefore, DrainedBefore, BaselineOnly, SetStop,
          WakeLanes, NotifyWriter, Join, CountGeneral, CountCritical, HostOnly, HostGoes, laneVars
    <3>2. UNCHANGED ppc \/ WakeLanes
      BY <1>4, <2>2
      DEF Shutdown, FlushWindowPasses, GeneralBefore, DrainedBefore, BaselineOnly, SetStop,
          NotifyWriter, Join, CountGeneral, CountCritical
    <3>3. Active' = Active
      BY <1>0, <3>2, WakeLanesMoves DEF Active, Emitting
    <3> QED
      BY <3>1, <3>3, HistoryAside DEF Queued, ShuttingDown
  <2> QED
    BY <2>1, <2>2
<1>5. CASE BeginShutdown
  BY <1>5, BeginShutdownHistory
<1>6. ASSUME NEW opened \in BOOLEAN, Install(opened) PROVE HistoryInv'
  <2>1. /\ hpc = "idle" /\ hpc' = "idle" /\ UNCHANGED <<promised, taken, evicted, unseen>>
    BY <1>6 DEF Install
  <2> QED
    BY <1>0, <2>1 DEF HistoryInv, FlushOrdered, ShuttingDown
<1>7. CASE UNCHANGED vars
  <2>1. UNCHANGED <<general, critical, promised, taken, evicted, unseen, hpc, ppc>>
    BY <1>7 DEF vars, laneVars, hostVars
  <2> QED
    BY <2>1, HistoryAside DEF Queued, Active, Emitting, ShuttingDown
<1> QED
  BY <1>1, <1>2, <1>3, <1>4, <1>5, <1>6, <1>7 DEF Next

LEMMA HistoryStarts == Init => HistoryInv
BY FS_EmptySet DEF Init, HistoryInv, ShuttingDown

\* Behind the writer's exit no lane holds a promised record.
LEMMA FlushFollows == OrderInv /\ HistoryInv => FlushCoversQueued
<1> SUFFICES ASSUME OrderInv, HistoryInv, wpc = "exited", NEW r \in promised
             PROVE  r \in taken \/ (Overlap /\ r.level = "info" /\ r \in evicted)
  BY DEF FlushCoversQueued
<1>1. r \notin Queued
  BY DEF OrderInv, FlushOrdered, Unpromised, Queued
<1> QED
  BY <1>1 DEF HistoryInv

\* A shutdown whose flush window did not end has the writer take every record that was
\* queued when shutdown() was called; the only exceptions are general records that an emit
\* overlapping the shutdown evicted from their full lane.
THEOREM FlushIsComplete == Spec => []FlushCoversQueued
<1> QED
  BY InitOrdered, NextOrder, HistoryStarts, NextHistoryInv, FlushFollows, PTL DEF Spec

-----------------------------------------------------------------------------
(* What shutdown() reports.                                                 *)

\* The records that count as drained, and those the result must show as leftovers.
Fresh == taken \ unseen
FreshInfo == {r \in Fresh : r.level = "info"}
LeftIn(level) == {r \in promised \ (taken \cup evicted) : r.level = level}

\* Once a lane's baseline is read, what was drained from it exceeds the baseline by the
\* records taken since; once the writer is joined and a lane's length is read, that covers
\* what is left of the promised records in it, of which a later push can but evict some.
ResultInv ==
    /\ unseen \subseteq taken
    /\ hpc = "before" => drained["general"] = result.drained + Cardinality(FreshInfo)
    /\ hpc \in {"stop", "wake", "notify", "join", "count"} =>
          drained["general"] + drained["critical"] = result.drained + Cardinality(Fresh)
    /\ hpc \in {"countCritical", "destroy"} =>
          /\ result.drained = Cardinality(Fresh)
          /\ Cardinality(LeftIn("info")) <= result.general
    /\ hpc = "destroy" => Cardinality(LeftIn("critical")) <= result.critical
    /\ hpc \in {"count", "countCritical", "destroy"} => WriterLeft

LEMMA ResultNumbers ==
    ASSUME ServiceInv, HistoryInv
    PROVE  /\ drained["general"] \in Nat /\ drained["critical"] \in Nat
           /\ result.drained \in Int /\ result.general \in Nat /\ result.critical \in Nat
           /\ IsFiniteSet(Fresh) /\ Cardinality(Fresh) \in Nat
           /\ IsFiniteSet(FreshInfo) /\ Cardinality(FreshInfo) \in Nat
           /\ \A level \in Levels : IsFiniteSet(LeftIn(level)) /\ Cardinality(LeftIn(level)) \in Nat
<1>1. drained["general"] \in Nat /\ drained["critical"] \in Nat
  BY DEF ServiceInv, LanesHold, Lanes
<1>2. result.drained \in Int /\ result.general \in Nat /\ result.critical \in Nat
  BY DEF ServiceInv, ResultHolds
<1>3. /\ Fresh \subseteq taken /\ FreshInfo \subseteq taken
      /\ \A level \in Levels : LeftIn(level) \subseteq promised
  BY DEF Fresh, FreshInfo, LeftIn
<1>4. /\ IsFiniteSet(Fresh) /\ IsFiniteSet(FreshInfo)
      /\ \A level \in Levels : IsFiniteSet(LeftIn(level))
  BY <1>3, FS_Subset DEF HistoryInv
<1> QED
  BY <1>1, <1>2, <1>4, FS_CardinalityType

\* A step that neither drains nor is the host's: a promised record may be evicted.
LEMMA ResultAsideKeeps ==
    ASSUME ServiceInv, HistoryInv, ResultInv,
           UNCHANGED <<hpc, result, promised, taken, unseen, drained>>,
           evicted \subseteq evicted', WriterLeft => WriterLeft'
    PROVE  ResultInv'
<1>1. Fresh' = Fresh /\ FreshInfo' = FreshInfo
  BY DEF Fresh, FreshInfo
<1>2. ASSUME NEW level \in Levels, NEW n \in Nat, Cardinality(LeftIn(level)) <= n
      PROVE  Cardinality(LeftIn(level)') <= n
  <2>1. LeftIn(level)' \subseteq LeftIn(level)
    BY DEF LeftIn
  <2>2. /\ IsFiniteSet(LeftIn(level)') /\ Cardinality(LeftIn(level)') <= Cardinality(LeftIn(level))
        /\ Cardinality(LeftIn(level)) \in Nat
    BY <2>1, ResultNumbers, FS_Subset
  <2>3. Cardinality(LeftIn(level)') \in Nat
    BY <2>2, FS_CardinalityType
  <2> QED
    BY <1>2, <2>2, <2>3
<1>3. hpc \in {"countCritical", "destroy"} => Cardinality(LeftIn("info")') <= result.general
  BY <1>2, ResultNumbers DEF ResultInv, Levels
<1>4. hpc = "destroy" => Cardinality(LeftIn("critical")') <= result.critical
  BY <1>2, ResultNumbers DEF ResultInv, Levels
<1> QED
  BY <1>1, <1>3, <1>4 DEF ResultInv

\* The writer takes a record: its lane's count and the fresh records grow by one.
LEMMA TakeCounts ==
    ASSUME OrderInv, HistoryInv, ResultInv, ~ WriterLeft,
           TakeCritical \/ TakeGeneral, NotifyOne \/ UNCHANGED ppc
    PROVE  ResultInv'
<1> DEFINE d == drained["general"]
           c == drained["critical"]
           x == result.drained
           F == Cardinality(Fresh)
           I == Cardinality(FreshInfo)
<1>0. ServiceInv
  BY DEF OrderInv
<1>1. UNCHANGED <<hpc, result, promised, unseen>>
  BY DEF TakeCritical, TakeGeneral, hostVars
<1>2. PICK h \in Queued : /\ taken' = Noted(taken, h)
                          /\ TakeGeneral => h.level = "info"
                          /\ TakeCritical => h.level = "critical"
  BY TakeHistory
<1>3. h \notin taken /\ h \notin unseen /\ h \notin Fresh /\ h \notin FreshInfo
  BY DEF HistoryInv, ResultInv, Fresh, FreshInfo
<1>4. /\ d \in Nat /\ c \in Nat /\ x \in Int /\ F \in Nat /\ I \in Nat
      /\ IsFiniteSet(Fresh) /\ IsFiniteSet(FreshInfo)
  BY <1>0, ResultNumbers
<1>5. /\ unseen' \subseteq taken'
      /\ hpc \notin {"count", "countCritical", "destroy"}
  BY <1>1, <1>2 DEF ResultInv, Noted
<1>6. CASE hpc = "idle"
  BY <1>1, <1>5, <1>6 DEF ResultInv
<1>7. CASE hpc # "idle"
  <2>1. taken' = taken \cup {h}
    BY <1>2, <1>7 DEF Noted, ShuttingDown
  <2>2. Fresh' = Fresh \cup {h}
    BY <1>1, <1>3, <2>1 DEF Fresh
  <2>3. Cardinality(Fresh') = F + 1
    BY <1>3, <1>4, <2>2, FS_AddElement
  <2>4. drained \in [Lanes -> Nat]
    BY <1>0 DEF ServiceInv, LanesHold
  <2>5. CASE TakeGeneral
    <3>1. drained'["general"] = d + 1 /\ drained'["critical"] = c
      BY <2>4, <2>5 DEF TakeGeneral, Lanes
    <3>2. FreshInfo' = FreshInfo \cup {h}
      BY <1>2, <2>2, <2>5 DEF FreshInfo
    <3>3. Cardinality(FreshInfo') = I + 1
      BY <1>3, <1>4, <3>2, FS_AddElement
    <3>4. hpc = "before" => d + 1 = x + (I + 1)
      <4>1. hpc = "before" => d = x + I
        BY DEF ResultInv
      <4> HIDE DEF d, x, I
      <4> QED
        BY <1>4, <4>1
    <3>5. hpc \in {"stop", "wake", "notify", "join"} => (d + 1) + c = x + (F + 1)
      <4>1. hpc \in {"stop", "wake", "notify", "join"} => d + c = x + F
        BY DEF ResultInv
      <4> HIDE DEF d, c, x, F
      <4> QED
        BY <1>4, <4>1
    <3> QED
      BY <1>1, <1>5, <2>3, <3>1, <3>3, <3>4, <3>5 DEF ResultInv
  <2>6. CASE TakeCritical
    <3>1. drained'["general"] = d /\ drained'["critical"] = c + 1
      BY <2>4, <2>6 DEF TakeCritical, Lanes
    <3>2. FreshInfo' = FreshInfo
      BY <1>2, <2>2, <2>6 DEF FreshInfo
    <3>3. hpc \in {"stop", "wake", "notify", "join"} => d + (c + 1) = x + (F + 1)
      <4>1. hpc \in {"stop", "wake", "notify", "join"} => d + c = x + F
        BY DEF ResultInv
      <4> HIDE DEF d, c, x, F
      <4> QED
        BY <1>4, <4>1
    <3> QED
      BY <1>1, <1>5, <2>3, <3>1, <3>2, <3>3 DEF ResultInv
  <2> QED
    BY <2>5, <2>6
<1> QED
  BY <1>6, <1>7

\* The baseline: what has been taken from a lane is seen when that lane is read.
LEMMA BaselineCounts ==
    ASSUME OrderInv, HistoryInv, ResultInv, GeneralBefore \/ DrainedBefore
    PROVE  ResultInv'
<1> DEFINE d == drained["general"]
           c == drained["critical"]
           x == result.drained
           I == Cardinality(FreshInfo)
<1>0. ServiceInv /\ HistoryHolds
  BY DEF OrderInv
<1>1. UNCHANGED <<promised, taken, evicted, drained>>
  BY DEF GeneralBefore, DrainedBefore, BaselineOnly, laneVars
<1>2. /\ d \in Nat /\ c \in Nat /\ x \in Int /\ I \in Nat
  BY <1>0, ResultNumbers
<1>3. CASE GeneralBefore
  <2>1. hpc' = "before" /\ result'.drained = d /\ unseen' = {r \in taken : r.level = "info"}
    BY <1>3 DEF GeneralBefore, HostGoes, NoResult
  <2>2. FreshInfo' = {}
    BY <1>1, <2>1 DEF FreshInfo, Fresh
  <2>3. d = d + Cardinality(FreshInfo')
    BY <1>2, <2>2, FS_EmptySet
  <2> QED
    BY <1>1, <2>1, <2>3 DEF ResultInv
<1>4. CASE DrainedBefore
  <2>1. /\ hpc = "before" /\ hpc' = "stop"
        /\ unseen' = unseen \cup {r \in taken : r.level = "critical"}
    BY <1>4 DEF DrainedBefore, HostGoes
  <2>2. result'.drained = x + c
    BY <1>0, <1>4 DEF DrainedBefore, ServiceInv, ResultHolds
  <2>3. Fresh' = FreshInfo
    BY <1>0, <1>1, <2>1 DEF Fresh, FreshInfo, HistoryHolds, Records, Levels
  <2>4. d = x + I
    BY <2>1 DEF ResultInv
  <2>5. d + c = (x + c) + I
    <3> HIDE DEF d, c, x, I
    <3> QED
      BY <1>2, <2>4
  <2> QED
    BY <1>1, <2>1, <2>2, <2>3, <2>5 DEF ResultInv
<1> QED
  BY <1>3, <1>4

\* Stop, wake, join: the count goes on, and after the join nobody drains.
LEMMA StopsAndJoins ==
    ASSUME ResultInv, SetStop \/ WakeLanes \/ NotifyWriter \/ Join
    PROVE  ResultInv'
<1>1. /\ UNCHANGED <<drained, result, promised, taken, unseen>>
      /\ hpc \in {"stop", "wake", "notify", "join"}
      /\ hpc' \in {"wake", "notify", "join", "count"}
      /\ hpc' = "count" => WriterLeft'
  BY DEF SetStop, WakeLanes, NotifyWriter, Join, HostOnly, HostGoes, laneVars, WriterLeft
<1>2. Fresh' = Fresh
  BY <1>1 DEF Fresh
<1> QED
  BY <1>1, <1>2 DEF ResultInv

\* What is promised and neither taken nor evicted waits in the lane of its level.
LEMMA LeftIsQueued ==
    ASSUME OrderInv, HistoryInv
    PROVE  /\ Cardinality(LeftIn("info")) <= Len(general)
           /\ Cardinality(LeftIn("critical")) <= Len(critical)
<1>1. general \in Seq(Records) /\ critical \in Seq(Records)
  BY DEF OrderInv, ServiceInv, LanesHold
<1>2. LeftIn("info") \subseteq Elements(general) /\ LeftIn("critical") \subseteq Elements(critical)
  BY DEF LeftIn, HistoryInv, Queued, OrderInv, LanesOrdered
<1>3. ASSUME NEW q \in Seq(Records), NEW S, S \subseteq Elements(q)
      PROVE  Cardinality(S) <= Len(q)
  <2>1. IsFiniteSet(Elements(q)) /\ Cardinality(Elements(q)) <= Len(q)
    BY ElementsCounted
  <2>2. IsFiniteSet(S) /\ Cardinality(S) <= Cardinality(Elements(q))
    BY <1>3, <2>1, FS_Subset
  <2>3. Cardinality(S) \in Nat /\ Cardinality(Elements(q)) \in Nat /\ Len(q) \in Nat
    BY <2>1, <2>2, FS_CardinalityType, LenProperties
  <2> QED
    BY <2>1, <2>2, <2>3
<1> QED
  BY <1>1, <1>2, <1>3

\* The result is read lane by lane.
LEMMA ReadsResult ==
    ASSUME OrderInv, HistoryInv, ResultInv, CountGeneral \/ CountCritical
    PROVE  ResultInv'
<1> DEFINE d == drained["general"]
           c == drained["critical"]
           x == result.drained
           F == Cardinality(Fresh)
<1>0. ServiceInv
  BY DEF OrderInv
<1>1. UNCHANGED <<promised, taken, evicted, unseen, wpc>>
  BY DEF CountGeneral, CountCritical, HostOnly
<1>2. result \in [drained : Int, general : Nat, critical : Nat, flushed : BOOLEAN]
  BY <1>0 DEF ServiceInv, ResultHolds
<1>3. d \in Nat /\ c \in Nat /\ x \in Int /\ F \in Nat
  BY <1>0, ResultNumbers
<1>4. /\ Fresh' = Fresh /\ LeftIn("info")' = LeftIn("info")
      /\ LeftIn("critical")' = LeftIn("critical") /\ WriterLeft' = WriterLeft
  BY <1>1 DEF Fresh, LeftIn, WriterLeft
<1>5. CASE CountGeneral
  <2>1. hpc = "count" /\ hpc' = "countCritical" /\ result'.drained = d + c - x
        /\ result'.general = Len(general)
    BY <1>2, <1>5 DEF CountGeneral, HostGoes
  <2>2. d + c = x + F
    BY <2>1 DEF ResultInv
  <2>3. d + c - x = F
    <3> HIDE DEF d, c, x, F
    <3> QED
      BY <1>3, <2>2
  <2> QED
    BY <1>1, <1>4, <2>1, <2>3, LeftIsQueued DEF ResultInv
<1>6. CASE CountCritical
  <2>1. hpc = "countCritical" /\ hpc' = "destroy" /\ result'.drained = x
        /\ result'.general = result.general /\ result'.critical = Len(critical)
    BY <1>2, <1>6 DEF CountCritical, HostGoes
  <2> QED
    BY <1>1, <1>4, <2>1, LeftIsQueued DEF ResultInv
<1> QED
  BY <1>5, <1>6

LEMMA NextResult == OrderInv /\ HistoryInv /\ ResultInv /\ [Next]_vars => ResultInv'
<1> SUFFICES ASSUME OrderInv, HistoryInv, ResultInv, [Next]_vars PROVE ResultInv'
  OBVIOUS
<1>0. ServiceInv /\ FlushOrdered
  BY DEF OrderInv
<1>1. ASSUME NEW p \in Producers,
             \/ Produce(p) \/ WakeSpuriously(p) \/ \E level \in Levels : BeginEmit(p, level)
      PROVE  ResultInv'
  <2>1. UNCHANGED <<hpc, result, promised, taken, unseen, drained, wpc>>
    BY <1>1
    DEF Produce, PushDropOldest, PushOrWait, TimeOut, WakeSpuriously, BeginEmit, laneVars,
        hostVars
  <2>2. evicted \subseteq evicted'
    BY <1>1
    DEF Produce, PushDropOldest, PushOrWait, TimeOut, WakeSpuriously, BeginEmit, Noted
  <2> QED
    BY <1>0, <2>1, <2>2, ResultAsideKeeps DEF WriterLeft
<1>2. CASE PollCritical \/ DrainCritical \/ PollGeneral \/ DrainGeneral
  <2>1. ~ WriterLeft /\ (TakeCritical \/ TakeGeneral) /\ (NotifyOne \/ UNCHANGED ppc)
    BY <1>2
    DEF PollCritical, DrainCritical, PollGeneral, DrainGeneral, WriterGoes, WriterLeft,
        TakeCritical, TakeGeneral
  <2> QED
    BY <2>1, TakeCounts
<1>3. ASSUME UNCHANGED <<laneVars, hostVars, taken, evicted>>, WriterLeft => WriterLeft'
      PROVE  ResultInv'
  <2>1. UNCHANGED <<hpc, result, promised, taken, unseen, drained, evicted>>
    BY <1>3 DEF laneVars, hostVars
  <2> QED
    BY <1>0, <1>3, <2>1, ResultAsideKeeps
<1>4. CASE Writer \/ WriterCrashes \/ CrashHistory
  <2>1. CASE ~ (PollCritical \/ DrainCritical \/ PollGeneral \/ DrainGeneral)
    <3>1. UNCHANGED <<laneVars, hostVars, taken, evicted>> /\ ~ WriterLeft
      BY <1>4, <2>1
      DEF Writer, WriterCrashes, CrashHistory, CriticalEmpty, GeneralEmpty, Deliver, CheckStop,
          Park, Unpark, DrainExpired, DrainNoCritical, DrainEmpty, WriterOnly, WriterGoes,
          WriterLeft
    <3> QED
      BY <1>3, <3>1
  <2> QED
    BY <1>2, <2>1
<1>5. CASE FlushWindowPasses \/ UNCHANGED vars
  <2>1. /\ UNCHANGED <<hpc, result, promised, taken, unseen, drained, evicted>>
        /\ WriterLeft' = WriterLeft
    BY <1>5 DEF FlushWindowPasses, vars, laneVars, hostVars, WriterLeft
  <2> QED
    BY <1>0, <2>1, ResultAsideKeeps
<1>6. CASE BeginShutdown
  <2>1. hpc' = "called" /\ UNCHANGED <<taken, unseen>>
    BY <1>6 DEF BeginShutdown, HostGoes
  <2> QED
    BY <2>1 DEF ResultInv
<1>7. CASE Destroy
  <2>1. hpc' = "idle" /\ unseen' = {}
    BY <1>7 DEF Destroy, HostGoes
  <2> QED
    BY <2>1 DEF ResultInv
<1>8. ASSUME NEW opened \in BOOLEAN, Install(opened)
      PROVE  ResultInv'
  <2>1. hpc' = "idle" /\ UNCHANGED <<taken, unseen>>
    BY <1>8 DEF Install
  <2> QED
    BY <2>1 DEF ResultInv
<1> QED
  BY <1>1, <1>4, <1>5, <1>6, <1>7, <1>8, BaselineCounts, StopsAndJoins, ReadsResult
  DEF Next, Shutdown

\* The leftovers of both lanes together.
LEMMA ResultFollows == ServiceInv /\ HistoryHolds /\ HistoryInv /\ ResultInv => ResultCoversQueued
<1> SUFFICES ASSUME ServiceInv, HistoryHolds, HistoryInv, ResultInv, hpc = "destroy"
             PROVE  /\ result.drained = Cardinality(taken \ unseen)
                    /\ Cardinality(promised \ (taken \cup evicted))
                          <= result.general + result.critical
  BY DEF ResultCoversQueued
<1> DEFINE A == LeftIn("info")
           B == LeftIn("critical")
<1>1. promised \ (taken \cup evicted) = A \cup B /\ A \cap B = {}
  BY DEF LeftIn, HistoryHolds, Records, Levels
<1>2. /\ IsFiniteSet(A) /\ IsFiniteSet(B) /\ Cardinality(A) \in Nat /\ Cardinality(B) \in Nat
      /\ result.general \in Nat /\ result.critical \in Nat
  BY ResultNumbers DEF Levels
<1>3. Cardinality(A) <= result.general /\ Cardinality(B) <= result.critical
  BY DEF ResultInv
<1>4. Cardinality(A \cup B) = Cardinality(A) + Cardinality(B)
  <2>1. Cardinality(A \cup B) = Cardinality(A) + Cardinality(B) - Cardinality(A \cap B)
    BY <1>2, FS_Union
  <2>2. Cardinality(A \cap B) = 0
    BY <1>1, FS_EmptySet
  <2> HIDE DEF A, B
  <2> QED
    BY <1>2, <2>1, <2>2
<1>5. Cardinality(promised \ (taken \cup evicted)) <= result.general + result.critical
  <2>1. Cardinality(promised \ (taken \cup evicted)) = Cardinality(A) + Cardinality(B)
    BY <1>1, <1>4
  <2> HIDE DEF A, B
  <2> QED
    BY <1>2, <1>3, <2>1
<1> QED
  BY <1>5 DEF ResultInv, Fresh

\* What shutdown() reports: `drained` is exactly the number of records the writer took since
\* the call but for those it took from a lane before drained_before was read there, and the
\* leftovers are at least as many as the records that were queued at the call and neither
\* taken nor evicted by an overlapping emit (service.cpp:259-286), whatever producers emit
\* meanwhile.
THEOREM ResultIsComplete == Spec => []ResultCoversQueued
<1>1. Init => ResultInv
  BY DEF Init, ResultInv
<1>2. OrderInv => ServiceInv /\ HistoryHolds
  BY DEF OrderInv
<1> QED
  BY InitOrdered, NextOrder, HistoryStarts, NextHistoryInv, NextResult, ResultFollows, <1>1,
     <1>2, PTL DEF Spec
=============================================================================
