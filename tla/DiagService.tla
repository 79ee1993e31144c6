---------------------------- MODULE DiagService ----------------------------
(***************************************************************************)
(* The diagnostics service, src/diag/service.cpp: producers emit records   *)
(* into two bounded lanes, one writer thread delivers them to the sink,    *)
(* and the host installs the service and shuts it down with a flush.       *)
(*                                                                         *)
(* An operation of a lane is one critical section of its mutex, hence one  *)
(* step; a lane is the sequence of its queued records.  Time is left open: *)
(* a wait may time out at any moment.  The write into the crash ring, which *)
(* emit() makes before it pushes and whose outcome it ignores, is          *)
(* CrashRing's; rotation is RotatingSink's.                                *)
(***************************************************************************)
EXTENDS Integers, Sequences, FiniteSets, Functions

CONSTANTS
    Producers,          \* threads that call emit()
    GeneralSlots,       \* service_config::general_lane_slots
    CriticalSlots,      \* service_config::critical_lane_slots
    DevelopmentSink,    \* service_config::stderr_sink or debugger_sink
    Overlap,            \* whether emits may still run while shutdown() does
    MayCrash,           \* whether the writer thread may crash
    MaxEmits,           \* bound: number of emits per installation
    MaxInstalls         \* bound: number of installations

ASSUME SlotsAssumption == GeneralSlots \in Nat \ {0} /\ CriticalSlots \in Nat \ {0}
ASSUME FlagsAssumption == DevelopmentSink \in BOOLEAN /\ Overlap \in BOOLEAN
                           /\ MayCrash \in BOOLEAN
ASSUME BoundAssumption == MaxEmits \in Nat /\ MaxInstalls \in Nat

VARIABLES
    service,        \* g_service: "none" or "live"
    installs,       \* number of installations so far
    general,        \* general_: the queued records, oldest first
    critical,       \* critical_
    emitted,        \* emitted_ of each lane
    drained,        \* drained_ of each lane
    dropped,        \* general_.dropped_
    overflow,       \* critical_.overflow_
    nextSequence,   \* next_sequence_
    ppc,            \* where each producer is in emit()
    rec,            \* its stored_event
    wpc,            \* where the writer thread is in writer_loop()
    hand,           \* the record it holds, as a sequence of at most one
    file,           \* file_: "open", "failed" (never opened) or "closed"
    sink,           \* the records the sink took, in order
    sinkFailures,   \* sink_failures_
    hpc,            \* where the host is in shutdown()
    stop,           \* stop_
    result,         \* shutdown()'s result, with drained_before at first
    promised,       \* history: the records queued when shutdown() was called
    taken,          \* history: the records the writer took since then
    evicted,        \* history: the records a push dropped since then
    unseen,         \* history: of those taken, what drained_before has counted already
    flushExpired,   \* history: shutdown_flush_timeout has passed since shutdown()
    lateRecords     \* history: records the main loop took from a lane after that

laneVars == <<general, critical, emitted, drained, dropped, overflow>>
emitVars == <<nextSequence, rec>>
sinkVars == <<file, sink, sinkFailures>>
hostVars == <<service, installs, hpc, stop, result, flushExpired, promised, unseen>>
vars == <<laneVars, emitVars, ppc, wpc, hand, sinkVars, hostVars, lateRecords, taken,
          evicted>>

Levels == {"info", "critical"}
Records == [producer : Producers, sequence : Nat, level : Levels]
NoRecord == [sequence |-> -1]

-----------------------------------------------------------------------------
(* emit(): stamp, then ride a lane.                                         *)

Emitting(p) == ppc[p] # "idle"

\* The histories of a shutdown: none while no shutdown() runs.
ShuttingDown == hpc # "idle"
Noted(history, r) == IF ShuttingDown THEN history \cup {r} ELSE history
ProducerGoes(p, from, to) == ppc[p] \in from /\ ppc' = [ppc EXCEPT ![p] = to]

\* emit() returns and its stored_event goes out of scope.
Returns(p, from) ==
    /\ ProducerGoes(p, from, "idle")
    /\ rec' = [rec EXCEPT ![p] = NoRecord]

BeginEmit(p, level) ==
    /\ service = "live" /\ (Overlap \/ hpc = "idle")
    /\ nextSequence < MaxEmits
    /\ ProducerGoes(p, {"idle"}, level)
    /\ nextSequence' = nextSequence + 1
    /\ rec' = [rec EXCEPT ![p] =
                  [producer |-> p, sequence |-> nextSequence, level |-> level]]
    /\ UNCHANGED <<laneVars, wpc, hand, sinkVars, hostVars, lateRecords, taken, evicted>>

\* Mutant: one slot too many.
LaneFull_OneMore(lane, slots) == Len(lane) > slots
LaneFull(lane, slots) == Len(lane) = slots

\* The lane after a push that makes room by dropping its oldest record.
\* Mutant: the new record takes the oldest one's place and head_ stays.
DropOldest_InPlace(q, r) == <<r>> \o Tail(q)
DropOldest(q, r) == Append(Tail(q), r)

\* Mutant: the loss is not counted.
Lost_Uncounted == 0
Lost == 1

PushDropOldest(p) ==
    LET full == LaneFull(general, GeneralSlots) IN
    /\ Returns(p, {"info"})
    /\ general' = IF full THEN DropOldest(general, rec[p]) ELSE Append(general, rec[p])
    /\ dropped' = IF full THEN dropped + Lost ELSE dropped
    /\ emitted' = [emitted EXCEPT !["general"] = @ + 1]
    /\ evicted' = IF full THEN Noted(evicted, Head(general)) ELSE evicted
    /\ UNCHANGED <<critical, drained, overflow, nextSequence, wpc, hand, sinkVars, hostVars,
                   lateRecords, taken>>

\* One turn of push_bounded_wait's loop: push, or block on not_full_.
PushOrWait(p) ==
    /\ IF LaneFull(critical, CriticalSlots)
       THEN /\ ProducerGoes(p, {"critical", "notified"}, "waiting")
            /\ UNCHANGED <<critical, emitted, rec>>
       ELSE /\ Returns(p, {"critical", "notified"})
            /\ critical' = Append(critical, rec[p])
            /\ emitted' = [emitted EXCEPT !["critical"] = @ + 1]
    /\ UNCHANGED <<general, drained, dropped, overflow, nextSequence, wpc, hand, sinkVars,
                   hostVars, lateRecords, taken, evicted>>

\* wait_until may return for no reason.
WakeSpuriously(p) ==
    /\ ProducerGoes(p, {"waiting"}, "notified")
    /\ UNCHANGED <<laneVars, emitVars, wpc, hand, sinkVars, hostVars, lateRecords, taken,
                   evicted>>

\* wait_until reports a timeout: the push gives up, even if it was notified and
\* there is room by now.
\* Mutant: the wait has no deadline.
TimeOut_Never(p) == FALSE /\ UNCHANGED vars
TimeOut(p) ==
    /\ Returns(p, {"waiting", "notified"})
    /\ overflow' = overflow + 1
    /\ UNCHANGED <<general, critical, emitted, drained, dropped, nextSequence, wpc, hand,
                   sinkVars, hostVars, lateRecords, taken, evicted>>

\* What a producer does inside emit(), but for waking without a reason.
Produce(p) ==
    PushDropOldest(p) \/ PushOrWait(p) \/ TimeOut(p)

-----------------------------------------------------------------------------
(* writer_loop(): critical first, stop only when both lanes were empty.     *)

WriterGoes(from, to) == wpc = from /\ wpc' = to

\* notify_one on not_full_: some waiter of the critical lane, if there is one.
NotifyOne ==
    LET waiters == {p \in Producers : ppc[p] = "waiting"} IN
    IF waiters = {} THEN UNCHANGED ppc
    ELSE \E p \in waiters : ppc' = [ppc EXCEPT ![p] = "notified"]

\* try_pop that finds a record.
TakeCritical ==
    /\ critical # <<>>
    /\ hand' = <<Head(critical)>> /\ critical' = Tail(critical)
    /\ drained' = [drained EXCEPT !["critical"] = @ + 1]
    /\ taken' = Noted(taken, Head(critical))
    /\ NotifyOne
    /\ UNCHANGED <<general, emitted, dropped, overflow, emitVars, sinkVars, hostVars,
                   evicted>>

TakeGeneral ==
    /\ general # <<>>
    /\ hand' = <<Head(general)>> /\ general' = Tail(general)
    /\ drained' = [drained EXCEPT !["general"] = @ + 1]
    /\ taken' = Noted(taken, Head(general))
    /\ UNCHANGED <<critical, emitted, dropped, overflow, emitVars, ppc, sinkVars,
                   hostVars, evicted>>

WriterOnly == UNCHANGED <<laneVars, emitVars, ppc, hand, sinkVars, hostVars,
                          lateRecords, taken, evicted>>

Late == lateRecords' = IF flushExpired THEN lateRecords + 1 ELSE lateRecords
PollCritical == WriterGoes("critical", "deliver") /\ TakeCritical /\ Late
PollGeneral == WriterGoes("general", "deliver") /\ TakeGeneral /\ Late
CriticalEmpty ==
    critical = <<>> /\ WriterGoes("critical", "general") /\ WriterOnly
GeneralEmpty ==
    general = <<>> /\ WriterGoes("general", "check") /\ WriterOnly

\* Mutant: a stopping writer leaves without a last look at the lanes.
OnStop_Leave == "exited"
OnStop == "drain"

CheckStop ==
    /\ WriterGoes("check", IF stop THEN OnStop ELSE "park")
    /\ WriterOnly

\* Blocking on wakeup_, and coming back from it: notified, timed out after 20 ms
\* or for no reason.  No producer ever notifies wakeup_.
Park == WriterGoes("park", "parked") /\ WriterOnly
\* Mutant: the park has no timeout, so a missed notification is final.
Unpark_Never == FALSE /\ UNCHANGED vars
Unpark == WriterGoes("parked", "critical") /\ WriterOnly

\* write_record(): taken by the file's stream (what that does with the record is
\* RotatingSink's) or by a development sink, or counted as a failure.
Deliver(from, to) ==
    /\ WriterGoes(from, to) /\ hand' = <<>>
    /\ \/ /\ file = "open" \/ DevelopmentSink
          /\ sink' = sink \o hand /\ UNCHANGED sinkFailures
       \/ /\ file = "open" \/ ~ DevelopmentSink
          /\ sinkFailures' = sinkFailures + 1 /\ UNCHANGED sink
    /\ UNCHANGED <<laneVars, emitVars, ppc, file, hostVars, lateRecords, taken, evicted>>

\* The flush window: the deadline is looked at before each record.  It lies at
\* least shutdown_flush_timeout after the call of shutdown().
DrainExpired == flushExpired /\ WriterGoes("drain", "expired") /\ WriterOnly
DrainCritical ==
    WriterGoes("drain", "flush") /\ TakeCritical /\ UNCHANGED lateRecords
DrainNoCritical ==
    critical = <<>> /\ WriterGoes("drain", "drainGeneral") /\ WriterOnly
DrainGeneral ==
    WriterGoes("drainGeneral", "flush") /\ TakeGeneral /\ UNCHANGED lateRecords
DrainEmpty ==
    general = <<>> /\ WriterGoes("drainGeneral", "exited") /\ WriterOnly

Writer ==
    \/ PollCritical \/ CriticalEmpty \/ PollGeneral \/ GeneralEmpty
    \/ Deliver("deliver", "critical") \/ CheckStop \/ Park \/ Unpark
    \/ DrainExpired \/ DrainCritical \/ DrainNoCritical \/ DrainGeneral \/ DrainEmpty
    \/ Deliver("flush", "drain")

\* The writer thread crashes - out of memory in rotate(), which is noexcept, would do -
\* and the crash handler of the host runs on it.
WriterCrashes ==
    /\ MayCrash /\ wpc \notin {"exited", "expired", "crashed", "reported"}
    /\ wpc' = "crashed" /\ WriterOnly

\* The handler asks for the ring with crash_history(), which takes g_service_mutex:
\* shutdown() holds that until the service is destroyed.  The process ends with the
\* handler's report.
CrashHistory == hpc = "idle" /\ WriterGoes("crashed", "reported") /\ WriterOnly

-----------------------------------------------------------------------------
(* install() and shutdown(), serialised by g_service_mutex.                 *)

HostGoes(from, to) == hpc = from /\ hpc' = to

\* A new service_impl, started; the sink may fail to open.  A second install
\* while one is live fails and changes nothing.
Install(opened) ==
    /\ service = "none" /\ hpc = "idle" /\ installs < MaxInstalls
    /\ service' = "live" /\ installs' = installs + 1
    /\ general' = <<>> /\ critical' = <<>>
    /\ emitted' = [l \in {"general", "critical"} |-> 0]
    /\ drained' = [l \in {"general", "critical"} |-> 0]
    /\ dropped' = 0 /\ overflow' = 0 /\ nextSequence' = 0
    /\ wpc' = "critical" /\ hand' = <<>> /\ sink' = <<>>
    /\ file' = IF opened THEN "open" ELSE "failed"
    /\ sinkFailures' = IF opened THEN 0 ELSE 1
    /\ stop' = FALSE /\ flushExpired' = FALSE
    /\ lateRecords' = 0
    /\ UNCHANGED <<ppc, rec, hpc, result, promised, taken, evicted, unseen>>

\* shutdown_result {}, also what shutdown() without a live service returns.
NoResult == [drained |-> 0, general |-> 0, critical |-> 0, flushed |-> FALSE]

\* shutdown() takes g_service_mutex and finds the service: the call, from which its
\* promises count.
BeginShutdown ==
    /\ service = "live" /\ HostGoes("idle", "called")
    /\ Overlap \/ \A p \in Producers : ~ Emitting(p)
    /\ promised' = Range(general) \cup Range(critical)
    /\ UNCHANGED <<laneVars, emitVars, ppc, wpc, hand, sinkVars, service, installs, stop,
                   result, flushExpired, unseen, lateRecords, taken, evicted>>

\* drained_before, read lane by lane while the writer goes on: what it takes from a lane
\* between the call and the read of that lane is counted as drained before.  (The two
\* reads are operands of one sum; they are taken from left to right.)
BaselineOnly == UNCHANGED <<laneVars, emitVars, ppc, wpc, hand, sinkVars, service, installs,
                            stop, promised, flushExpired, lateRecords, taken, evicted>>

GeneralBefore ==
    /\ HostGoes("called", "before")
    /\ result' = [NoResult EXCEPT !.drained = drained["general"]]
    /\ unseen' = {r \in taken : r.level = "info"}
    /\ BaselineOnly

DrainedBefore ==
    /\ HostGoes("before", "stop")
    /\ result' = [result EXCEPT !.drained = @ + drained["critical"]]
    /\ unseen' = unseen \cup {r \in taken : r.level = "critical"}
    /\ BaselineOnly

HostOnly == UNCHANGED <<laneVars, emitVars, hand, service, installs, promised, unseen,
                        lateRecords, taken, evicted>>

SetStop ==
    /\ HostGoes("stop", "wake") /\ stop' = TRUE
    /\ HostOnly /\ UNCHANGED <<ppc, wpc, sinkVars, result, flushExpired>>

\* wake() on both lanes: every waiting producer looks again.
WakeLanes ==
    /\ HostGoes("wake", "notify")
    /\ ppc' = [p \in Producers |-> IF ppc[p] = "waiting" THEN "notified" ELSE ppc[p]]
    /\ HostOnly /\ UNCHANGED <<wpc, sinkVars, stop, result, flushExpired>>

\* wakeup_.notify_all() reaches the writer only while it is parked.
NotifyWriter ==
    /\ HostGoes("notify", "join")
    /\ wpc' = IF wpc = "parked" THEN "critical" ELSE wpc
    /\ HostOnly /\ UNCHANGED <<ppc, sinkVars, stop, result, flushExpired>>

\* What writer_.join() waits for.
\* Mutant: the writer is not joined.
WriterLeft_Unjoined == TRUE
WriterLeft == wpc \in {"exited", "expired"}

Join ==
    /\ HostGoes("join", "count") /\ WriterLeft
    /\ file' = IF file = "open" THEN "closed" ELSE file
    /\ HostOnly /\ UNCHANGED <<ppc, wpc, sink, sinkFailures, stop, result, flushExpired>>

\* The result, read lane by lane from what the writer left.
CountGeneral ==
    /\ HostGoes("count", "countCritical")
    /\ result' = [result EXCEPT
           !.drained = drained["general"] + drained["critical"] - @,
           !.general = Len(general)]
    /\ HostOnly /\ UNCHANGED <<ppc, wpc, sinkVars, stop, flushExpired>>

CountCritical ==
    /\ HostGoes("countCritical", "destroy")
    /\ result' = [result EXCEPT !.critical = Len(critical),
                                !.flushed = result.general = 0 /\ critical = <<>>]
    /\ HostOnly /\ UNCHANGED <<ppc, wpc, sinkVars, stop, flushExpired>>

\* `delete g_service`, and the result goes to the caller.  That no emit is still
\* running is the caller's contract (service.hpp:173-176), not something the code
\* waits for.
Destroy ==
    /\ HostGoes("destroy", "idle")
    /\ \A p \in Producers : ~ Emitting(p)
    /\ service' = "none" /\ result' = NoResult
    /\ promised' = {} /\ taken' = {} /\ evicted' = {} /\ unseen' = {}
    /\ UNCHANGED <<laneVars, emitVars, ppc, wpc, hand, sinkVars, installs, stop,
                   flushExpired, lateRecords>>

\* The host's steps inside shutdown().
Shutdown ==
    \/ GeneralBefore \/ DrainedBefore \/ SetStop \/ WakeLanes \/ NotifyWriter \/ Join
    \/ CountGeneral \/ CountCritical \/ Destroy

\* shutdown_flush_timeout passes, counted from the call of shutdown().
FlushWindowPasses ==
    /\ hpc \notin {"idle", "called", "before", "stop"} /\ ~ flushExpired
    /\ flushExpired' = TRUE
    /\ UNCHANGED <<laneVars, emitVars, ppc, wpc, hand, sinkVars, service, installs, hpc,
                   stop, result, promised, unseen, lateRecords, taken, evicted>>

-----------------------------------------------------------------------------
Init ==
    /\ service = "none" /\ installs = 0 /\ hpc = "idle" /\ stop = FALSE
    /\ general = <<>> /\ critical = <<>>
    /\ emitted = [l \in {"general", "critical"} |-> 0]
    /\ drained = [l \in {"general", "critical"} |-> 0]
    /\ dropped = 0 /\ overflow = 0 /\ nextSequence = 0
    /\ ppc = [p \in Producers |-> "idle"]
    /\ rec = [p \in Producers |-> NoRecord]
    /\ wpc = "exited" /\ hand = <<>>
    /\ file = "closed" /\ sink = <<>> /\ sinkFailures = 0
    /\ result = NoResult
    /\ flushExpired = FALSE /\ lateRecords = 0
    /\ promised = {} /\ taken = {} /\ evicted = {} /\ unseen = {}

Next ==
    /\ wpc # "reported"
    /\ \/ \E p \in Producers :
             \/ Produce(p) \/ WakeSpuriously(p) \/ \E level \in Levels : BeginEmit(p, level)
       \/ Writer \/ WriterCrashes \/ CrashHistory
       \/ Shutdown \/ BeginShutdown \/ FlushWindowPasses
       \/ \E opened \in BOOLEAN : Install(opened)

\* A producer that runs gets on with its emit, and its wait, whose deadline is
\* absolute, times out however often it is woken.  Nothing is assumed here of the
\* writer thread, which may hang in the file system.
Spec ==
    /\ Init /\ [][Next]_vars
    /\ \A p \in Producers : WF_vars(Produce(p)) /\ WF_vars(TimeOut(p))

-----------------------------------------------------------------------------
ProducerStages == {"idle", "info", "critical", "waiting", "notified"}
WriterStages == {"critical", "general", "deliver", "check", "park", "parked", "drain",
                 "drainGeneral", "flush", "exited", "expired", "crashed", "reported"}
HostStages == {"idle", "called", "before", "stop", "wake", "notify", "join", "count",
               "countCritical", "destroy"}
Lanes == {"general", "critical"}

\* Types; no lane ever holds more than its slots, whoever pushes.
TypeOK ==
    /\ service \in {"none", "live"} /\ installs \in 0 .. MaxInstalls
    /\ general \in Seq(Records) /\ Len(general) <= GeneralSlots
    /\ critical \in Seq(Records) /\ Len(critical) <= CriticalSlots
    /\ emitted \in [Lanes -> Nat] /\ drained \in [Lanes -> Nat]
    /\ dropped \in Nat /\ overflow \in Nat
    /\ nextSequence \in 0 .. MaxEmits
    /\ ppc \in [Producers -> ProducerStages]
    /\ rec \in [Producers -> Records \cup {NoRecord}]
    /\ wpc \in WriterStages
    /\ hand \in Seq(Records) /\ Len(hand) <= 1
    /\ file \in {"open", "failed", "closed"} /\ sink \in Seq(Records)
    /\ sinkFailures \in Nat
    /\ hpc \in HostStages /\ stop \in BOOLEAN
    /\ result \in [drained : Int, general : Nat, critical : Nat, flushed : BOOLEAN]
    /\ promised \subseteq Records /\ taken \subseteq Records
    /\ evicted \subseteq Records /\ unseen \subseteq Records
    /\ flushExpired \in BOOLEAN
    /\ lateRecords \in Nat

\* No record disappears silently: every emit is still running, refused and
\* counted, dropped and counted, queued, in the writer's hand, delivered, or a
\* counted sink failure - one of them, once ("overload and loss remain
\* observable", service.hpp:82-83).
RecordFailures == sinkFailures - (IF file = "failed" THEN 1 ELSE 0)
EveryRecordAccounted ==
    /\ nextSequence = Cardinality({p \in Producers : Emitting(p)})
                      + overflow + dropped + Len(general) + Len(critical) + Len(hand)
                      + Len(sink) + RecordFailures
    /\ emitted["general"] = drained["general"] + dropped + Len(general)
    /\ emitted["critical"] = drained["critical"] + Len(critical)

\* The records of one producer reach the sink in the order it emitted them, each
\* at most once, within each lane; only the critical lane may overtake the
\* general one (service.cpp:63-109, 321-323).
SinkInOrder ==
    \A i, j \in 1 .. Len(sink) :
        i < j /\ sink[i].producer = sink[j].producer /\ sink[i].level = sink[j].level
            => sink[i].sequence < sink[j].sequence

\* What was queued when shutdown() was called has been taken by the writer before the
\* service is destroyed, unless the flush window ended (service.hpp:171-172) - but for
\* general records that an emit overlapping the shutdown evicted from a full lane
\* (service.cpp:66-71).
FlushCoversQueued ==
    hpc \in {"count", "countCritical", "destroy"} /\ wpc = "exited" =>
        \A r \in promised :
            r \in taken \/ (Overlap /\ r.level = "info" /\ r \in evicted)

\* shutdown()'s numbers, however the lanes move while they are read.  `drained` is the
\* number of records the writer took since the call, exactly, less those it took from a
\* lane before drained_before was read there (service.cpp:262), which no number shows;
\* the leftovers are at least as many as the records that were queued at the call and
\* neither taken nor evicted.
ResultCoversQueued ==
    hpc = "destroy" =>
        /\ result.drained = Cardinality(taken \ unseen)
        /\ Cardinality(promised \ (taken \cup evicted)) <= result.general + result.critical

\* emit() returns in bounded time even if the writer thread never runs again, having
\* crashed or not ("never blocks unbounded", service.hpp:107).
EmitReturns == \A p \in Producers : Emitting(p) ~> ~ Emitting(p) \/ wpc = "reported"

\* shutdown() returns, given that the writer and the host run and the writer does not
\* crash: it cannot sleep through the notification (service.cpp:351-357).
ShutdownReturns ==
    WF_vars(Writer) /\ WF_vars(Shutdown) =>
        (hpc = "called" ~> service = "none" \/ wpc = "crashed")

\* Claims of the documentation that the code does not keep.

\* service.hpp:171-172: once the timeout has passed the writer stops; at most the
\* record it was about to take is still drained.
FlushIsBounded == lateRecords <= 1

\* service.cpp:13: "nothing on the ring path takes a lock": whoever holds what, a crash
\* handler gets to the ring, given that every thread that can run does.
CrashIsReported ==
    WF_vars(Writer) /\ WF_vars(Shutdown) /\ WF_vars(CrashHistory) =>
        (wpc = "crashed" ~> wpc = "reported")
=============================================================================
