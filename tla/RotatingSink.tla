---------------------------- MODULE RotatingSink ----------------------------
(***************************************************************************)
(* The rotating file family of the diagnostics service: write_record() and *)
(* rotate() of src/diag/service.cpp, as the writer thread runs them.       *)
(*                                                                         *)
(* Each call into the file system is one step, which may fail, and between *)
(* two of them the process may die.  The root path is generation 0 of the  *)
(* family, root.N.log generation N.  The stream's buffer belongs to the C  *)
(* library: fwrite fills it, fflush and fclose write it out or fail to.  A *)
(* torn line left by a failed fwrite is not represented.                   *)
(***************************************************************************)
EXTENDS RecordLine

CONSTANTS
    SizeBound,          \* file_sink_config::size_bound_bytes
    Generations,        \* file_sink_config::generations
    DevelopmentSink,    \* service_config::stderr_sink or debugger_sink
    RecordSizes,        \* the line lengths that occur
    BufferSlots,        \* records that fit in the stream's buffer
    MaxRecords,         \* bound: number of records
    MaxRuns             \* bound: number of times the service is started

ASSUME SizesAssumption ==
    /\ SizeBound \in Nat /\ Generations \in Nat /\ BufferSlots \in Nat \ {0}
    /\ RecordSizes \subseteq LineLengths /\ RecordSizes # {} /\ DevelopmentSink \in BOOLEAN
ASSUME BoundAssumption == MaxRecords \in Nat /\ MaxRuns \in Nat

VARIABLES
    files,          \* the records in each generation's file, or NoFile
    isOpen,         \* whether file_ is an open stream
    buffer,         \* the records in its buffer
    written,        \* written_this_generation
    failures,       \* sink_failures_
    pc,             \* where the writer thread is
    gen,            \* gen, in rotate()'s loop
    next,           \* number of the next record
    base,           \* history: number of the first record of this run
    runs,           \* history: number of runs
    lost            \* history: records fwrite took in this run that no file got

vars == <<files, isOpen, buffer, written, failures, pc, gen, next, base, runs, lost>>
history == <<base, runs>>

\* Even a family of no generations keeps root.1.log.
Oldest == IF Generations > 1 THEN Generations ELSE 1
NoFile == <<[id |-> -1, size |-> 0]>>
Records == [id : Nat, size : RecordSizes]
Exists(g) == files[g] # NoFile
Goes(from, to) == pc = from /\ pc' = to

-----------------------------------------------------------------------------
(* write_record() and the size check after it.                              *)

\* Mutant: the bound itself does not yet rotate.
Full_OffByOne(bytes) == bytes > SizeBound
Full(bytes) == bytes >= SizeBound

\* Where the loop goes after a record of `bytes` accounted bytes: only the main
\* loop looks at the size.
AfterWrite(bytes) ==
    /\ written' = written + bytes
    /\ pc' = IF pc = "main" /\ Full(written + bytes) THEN "rotate" ELSE pc

NextRecord(size) == [id |-> next, size |-> size]

\* The record goes through to the file, with what the buffer still held.
WriteFlushed(size) ==
    /\ isOpen
    /\ files' = [files EXCEPT ![0] = @ \o Append(buffer, NextRecord(size))]
    /\ buffer' = <<>>
    /\ AfterWrite(size) /\ UNCHANGED failures

\* fwrite took the record and fflush failed: its result is not looked at.
WriteUnflushed(size) ==
    /\ isOpen /\ Len(buffer) < BufferSlots
    /\ buffer' = Append(buffer, NextRecord(size))
    /\ AfterWrite(size) /\ UNCHANGED <<files, failures>>

\* fwrite failed, or there is no file and no development sink.
WriteRefused ==
    /\ isOpen \/ ~ DevelopmentSink
    /\ failures' = failures + 1
    /\ AfterWrite(0) /\ UNCHANGED <<files, buffer>>

\* A development sink stands in for the missing file.
WriteElsewhere(size) ==
    /\ ~ isOpen /\ DevelopmentSink
    /\ AfterWrite(size) /\ UNCHANGED <<files, buffer, failures>>

Write ==
    /\ pc \in {"main", "drain"} /\ next < MaxRecords /\ next' = next + 1
    /\ \/ WriteRefused
       \/ \E size \in RecordSizes :
             WriteFlushed(size) \/ WriteUnflushed(size) \/ WriteElsewhere(size)
    /\ UNCHANGED <<isOpen, gen, history, lost>>

-----------------------------------------------------------------------------
(* rotate(): close, shift the generations up from the oldest, reopen.       *)

\* fclose: the last chance of what is still in the buffer.
Close ==
    /\ isOpen' = FALSE /\ buffer' = <<>>
    /\ \/ files' = [files EXCEPT ![0] = @ \o buffer] /\ UNCHANGED lost
       \/ buffer # <<>> /\ lost' = lost + Len(buffer) /\ UNCHANGED files

\* Mutant: the byte count runs on into the next generation.
AfterRotation_Keep == written
AfterRotation == 0

\* Mutant: the loop runs once more than there are numbered generations to move.
MoreToShift_OneMore(g) == g >= 1
MoreToShift(g) == g > 1

\* What follows when the loop's condition is looked at with gen = g.
ShiftFrom(g) ==
    gen' = g /\ pc' = IF MoreToShift(g) THEN "remove" ELSE "clearFirst"

RotateNothing ==
    /\ ~ isOpen /\ Goes("rotate", "main") /\ written' = AfterRotation
    /\ UNCHANGED <<files, isOpen, buffer, failures, gen, next, history, lost>>

BeginRotate ==
    /\ isOpen /\ pc = "rotate"
    /\ Close /\ ShiftFrom(Generations)
    /\ UNCHANGED <<written, failures, next, history>>

\* remove and rename succeed, find no file (ENOENT, which does not count), or
\* fail on one that exists.
Removed(g) == files' = [files EXCEPT ![g] = NoFile]
Renamed(from, to) ==
    files' = IF Exists(from) THEN [files EXCEPT ![to] = files[from], ![from] = NoFile]
                             ELSE files
Fails(g) == Exists(g) /\ UNCHANGED files

RemoveOlder ==
    /\ Goes("remove", "rename")
    /\ \/ Removed(gen) /\ UNCHANGED failures
       \/ Fails(gen) /\ failures' = failures + 1
    /\ UNCHANGED <<isOpen, buffer, written, gen, next, history, lost>>

RenameOlder ==
    /\ pc = "rename"
    /\ \/ Renamed(gen - 1, gen) /\ UNCHANGED failures
       \/ Fails(gen - 1) /\ failures' = failures + 1
    /\ ShiftFrom(gen - 1)
    /\ UNCHANGED <<isOpen, buffer, written, next, history, lost>>

\* The result of this remove is not looked at.
ClearFirst ==
    /\ Goes("clearFirst", "promote")
    /\ Removed(1) \/ Fails(1)
    /\ UNCHANGED <<isOpen, buffer, written, failures, gen, next, history, lost>>

PromoteRoot ==
    /\ Goes("promote", "reopen")
    /\ \/ Renamed(0, 1) /\ UNCHANGED failures
       \/ Fails(0) /\ failures' = failures + 1
    /\ UNCHANGED <<isOpen, buffer, written, gen, next, history, lost>>

\* open_file(root, "wb"), which empties a file that is there.
Open(failuresBefore) ==
    \/ /\ isOpen' = TRUE /\ files' = [files EXCEPT ![0] = <<>>]
       /\ failures' = failuresBefore
    \/ isOpen' = FALSE /\ failures' = failuresBefore + 1 /\ UNCHANGED files

Reopen ==
    /\ Goes("reopen", "main") /\ Open(failures)
    /\ written' = AfterRotation
    /\ UNCHANGED <<buffer, gen, next, history, lost>>

-----------------------------------------------------------------------------
(* start(), the flush window of shutdown(), and the death of the process.   *)

Start ==
    /\ pc \in {"down", "crashed"} /\ runs < MaxRuns /\ pc' = "main"
    /\ Open(0)
    /\ written' = 0 /\ base' = next /\ runs' = runs + 1 /\ lost' = 0
    /\ UNCHANGED <<buffer, gen, next>>

BeginDrain ==
    /\ Goes("main", "drain")
    /\ UNCHANGED <<files, isOpen, buffer, written, failures, gen, next, history, lost>>

EndDrain ==
    /\ Goes("drain", "down") /\ Close
    /\ UNCHANGED <<written, failures, gen, next, history>>

Crash ==
    /\ pc \notin {"down", "crashed"} /\ pc' = "crashed"
    /\ isOpen' = FALSE /\ buffer' = <<>>
    /\ UNCHANGED <<files, written, failures, gen, next, history, lost>>

Rotate ==
    RotateNothing \/ BeginRotate \/ RemoveOlder \/ RenameOlder \/ ClearFirst
    \/ PromoteRoot \/ Reopen

Init ==
    /\ files = [g \in 0 .. Oldest |-> NoFile] /\ isOpen = FALSE /\ buffer = <<>>
    /\ written = 0 /\ failures = 0 /\ pc = "down" /\ gen = Generations
    /\ next = 0 /\ base = 0 /\ runs = 0 /\ lost = 0

Next == Start \/ Write \/ Rotate \/ BeginDrain \/ EndDrain \/ Crash

Spec == Init /\ [][Next]_vars

-----------------------------------------------------------------------------
TypeOK ==
    /\ files \in [0 .. Oldest -> Seq(Records) \cup {NoFile}]
    /\ isOpen \in BOOLEAN /\ buffer \in Seq(Records) /\ Len(buffer) <= BufferSlots
    /\ written \in Nat /\ failures \in Nat /\ lost \in Nat
    /\ pc \in {"down", "crashed", "main", "drain", "rotate", "remove", "rename",
               "clearFirst", "promote", "reopen"}
    /\ gen \in (IF Generations = 0 THEN {0} ELSE 1 .. Generations)
    /\ next \in 0 .. MaxRecords /\ base \in 0 .. next /\ runs \in 0 .. MaxRuns

Content(g) == IF Exists(g) THEN files[g] ELSE <<>>
Bytes(records) == FoldSeq(LAMBDA r, sum : r.size + sum, 0, records)

\* Those of a sequence's records that this run wrote.
OfThisRun(records) ==
    LET kept[n \in 0 .. Len(records)] ==
            IF n = 0 THEN <<>>
            ELSE IF records[n].id >= base THEN Append(kept[n - 1], records[n]) ELSE kept[n - 1]
    IN  kept[Len(records)]

\* The records of this run that can still be read, oldest first.
Family == FlattenSeq([i \in 1 .. Oldest + 1 |-> Content(Oldest + 1 - i)])
Retained == OfThisRun(Family \o buffer)

\* Whatever the rotations did so far, the family holds the newest records of this
\* run without a gap: all of them, or at least size_bound bytes for each generation
\* ("retention = size_bound x generations", service.hpp:63-64).  A failure of the
\* sink that health counts, or a buffer that could not be written, excuses it.
RetainsItsBudget ==
    failures = 0 /\ lost = 0 /\ pc \in {"main", "drain", "down"} =>
        /\ \A i \in 1 .. Len(Retained) : Retained[i].id = next - 1 - Len(Retained) + i
        /\ Len(Retained) < next - base => Bytes(Retained) >= SizeBound * Generations

\* No generation outgrows the bound by more than its last record, until the flush
\* window opens; what that leaves in the root never becomes a numbered generation
\* (service.cpp:326-331, "64 MiB per generation", service.hpp:66).
LongestLine == CHOOSE m \in RecordSizes : \A s \in RecordSizes : s <= m
MaxGeneration == (IF SizeBound = 0 THEN 0 ELSE SizeBound - 1) + LongestLine
GenerationBounded ==
    /\ \A g \in 1 .. Oldest : Bytes(Content(g)) <= MaxGeneration
    /\ isOpen /\ pc # "drain" => Bytes(files[0] \o buffer) <= MaxGeneration

\* No line that reached a file can be that of a message that overran the escape buffer,
\* ended in half an escape, or lost its end although no character of it needs more than
\* a backslash ("worst case every byte doubles, so the escape buffer is 2x",
\* service.cpp:365-367, 398-400).
EscapeFits ==
    \A g \in 0 .. Oldest : \A i \in DOMAIN Content(g) : Content(g)[i].size \notin BadLengths

\* A claim of the documentation that the code does not keep.

\* service.hpp:82-83: "overload and loss remain observable": a record that no file
\* got shows in sink_write_failures.
LossIsObservable == lost > 0 => failures > 0
=============================================================================
