------------------------ MODULE CheckedProgramProofs ------------------------
(***************************************************************************)
(* Theorems about the checked program: the lifetimes of its Results, for   *)
(* any number of cells and either choice of which copies may throw; what   *)
(* standard error has received when a fault ends the process, for any      *)
(* number of threads; that a digest is its message's, for every stream and *)
(* all widths; and, from the three, the types of its variables.            *)
(***************************************************************************)
EXTENDS CheckedProgram, ArithmeticProofs

\* The cells that hold an object.
Holding == {c \in Cells : storage[c] # "none"}

\* The parts of the invariant that LifetimesBalance leaves out: a cell out of scope
\* holds nothing, and there are finitely many others.
ScopesHold ==
    /\ ResultType
    /\ IsFiniteSet(inScope)
    /\ \A c \in Cells \ inScope : storage[c] = "none"

Lifetimes == ScopesHold /\ LifetimesBalance

-----------------------------------------------------------------------------
\* The cells that hold something are in scope, and so finitely many.
LEMMA HoldingFinite ==
    ASSUME ScopesHold PROVE IsFiniteSet(Holding)
<1>1. Holding \subseteq inScope
  BY DEF Holding, ScopesHold, ResultType
<1> QED
  BY <1>1, FS_Subset DEF ScopesHold

\* What putting an object into one cell, or taking it out, does to their number.
LEMMA OneCellChanges ==
    ASSUME ScopesHold, NEW c \in Cells, NEW new \in {"value", "reason", "none"},
           storage' = [storage EXCEPT ![c] = new]
    PROVE  Cardinality(Holding') = Cardinality(Holding) - Lives(storage[c]) + Lives(new)
<1> DEFINE rest == Holding \ {c}
<1>1. IsFiniteSet(Holding) /\ Cardinality(Holding) \in Nat
  BY HoldingFinite, FS_CardinalityType
<1>2. IsFiniteSet(rest) /\ Cardinality(rest) \in Nat
  BY <1>1, FS_RemoveElement, FS_CardinalityType
<1>3. c \notin rest
  OBVIOUS
<1>4. Cardinality(Holding) = Cardinality(rest) + Lives(storage[c])
  <2>1. CASE storage[c] = "none"
    <3>1. rest = Holding
      BY <2>1 DEF Holding
    <3> QED
      BY <3>1, <2>1, <1>1 DEF Lives
  <2>2. CASE storage[c] # "none"
    <3>1. c \in Holding
      BY <2>2 DEF Holding
    <3>2. Cardinality(rest) = Cardinality(Holding) - 1
      BY <3>1, <1>1, FS_RemoveElement
    <3> QED
      BY <3>2, <2>2, <1>1 DEF Lives
  <2> QED
    BY <2>1, <2>2
<1>5. Cardinality(Holding') = Cardinality(rest) + Lives(new)
  <2>0. storage \in [Cells -> {"value", "reason", "none"}]
    BY DEF ScopesHold, ResultType
  <2>1. CASE new = "none"
    <3>1. Holding' = rest
      BY <2>0, <2>1 DEF Holding
    <3> QED
      BY <3>1, <2>1, <1>2 DEF Lives
  <2>2. CASE new # "none"
    <3>1. Holding' = rest \cup {c}
      BY <2>0, <2>2 DEF Holding
    <3>2. Cardinality(rest \cup {c}) = Cardinality(rest) + 1
      BY <1>2, <1>3, FS_AddElement
    <3> QED
      BY <3>1, <3>2, <2>2 DEF Lives
  <2> QED
    BY <2>1, <2>2
<1>6. Lives(storage[c]) \in Nat /\ Lives(new) \in Nat
  BY DEF Lives
<1> HIDE DEF rest
<1> QED
  BY <1>1, <1>2, <1>4, <1>5, <1>6

\* A cell that LifetimesBalance calls intact is one that no exception interrupted, and
\* what it holds is what its flag claims.
LEMMA IntactCell ==
    ASSUME Lifetimes, NEW c \in inScope, Intact(c)
    PROVE  c \in Cells /\ c \notin interrupted /\ storage[c] = Claimed(c)
BY DEF Lifetimes, ScopesHold, LifetimesBalance, ResultType, Intact

LEMMA ObjectsCount ==
    ASSUME Lifetimes PROVE objects = Cardinality(Holding)
BY DEF Lifetimes, LifetimesBalance, Holding

LEMMA AlternativeType ==
    \A flag : Alternative(flag) \in {"value", "reason", "none"}
BY DEF Alternative

-----------------------------------------------------------------------------
(* One lemma for each operation on a cell.                                  *)

LEMMA ConstructKeeps ==
    ASSUME Lifetimes, NEW c \in Cells, NEW flag \in BOOLEAN, Construct(c, flag)
    PROVE  Lifetimes'
<1> USE DEF Construct
<1>0. ScopesHold /\ LifetimesBalance
  BY DEF Lifetimes
<1>1. Alternative(flag) \in {"value", "reason", "none"}
  BY AlternativeType
<1>2. c \notin interrupted /\ storage[c] = "none"
  BY <1>0 DEF ScopesHold, ResultType
<1>3. Cardinality(Holding') = Cardinality(Holding) + Lives(Alternative(flag))
  <2>1. Cardinality(Holding') =
          Cardinality(Holding) - Lives(storage[c]) + Lives(Alternative(flag))
    BY <1>0, <1>1, OneCellChanges
  <2>2. Cardinality(Holding) \in Nat /\ Lives(Alternative(flag)) \in Nat
    BY <1>0, HoldingFinite, FS_CardinalityType DEF Lives
  <2> QED
    BY <2>1, <2>2, <1>2 DEF Lives
<1>4. ScopesHold'
  <2>1. IsFiniteSet(inScope')
    BY <1>0, FS_AddElement DEF ScopesHold
  <2>2. objects' \in Int
    BY <1>0 DEF ScopesHold, ResultType, Lives
  <2> QED
    BY <1>0, <1>1, <2>1, <2>2 DEF ScopesHold, ResultType
<1>5. LifetimesBalance'
  <2>1. objects' = Cardinality(Holding')
    BY <1>3, ObjectsCount
  <2>2. \A d \in inScope' : Intact(d)' <=> d \notin interrupted'
    BY <1>0, <1>1, <1>2
    DEF ScopesHold, ResultType, LifetimesBalance, Intact, Claimed, Alternative
  <2>3. \A d \in interrupted' : storage'[d] = "none"
    BY <1>0, <1>2 DEF ScopesHold, ResultType, LifetimesBalance
  <2> QED
    BY <1>0, <2>1, <2>2, <2>3 DEF LifetimesBalance, Holding
<1> QED
  BY <1>4, <1>5 DEF Lifetimes

\* What both ways to end an assignment share: the flag is the source's, and the cell
\* holds the object `new`.
LEMMA AssignmentCounts ==
    ASSUME Lifetimes, NEW c \in Cells, NEW d \in Cells, BeginAssign(c, d),
           NEW new \in {"value", "reason", "none"},
           storage' = [storage EXCEPT ![c] = new],
           objects' = objects - Destroyed(c, hasValue[d]) + Lives(new)
    PROVE  objects' = Cardinality(Holding') /\ objects' \in Int
<1>1. storage[c] = Claimed(c)
  BY IntactCell DEF BeginAssign
<1>2. objects = Cardinality(Holding)
  BY ObjectsCount
<1>3. Cardinality(Holding') = Cardinality(Holding) - Lives(storage[c]) + Lives(new)
  BY OneCellChanges DEF Lifetimes
<1>4. objects \in Int /\ Lives(new) \in Int /\ Destroyed(c, hasValue[d]) \in Int
  BY DEF Lifetimes, ScopesHold, ResultType, Lives, Destroyed
<1> QED
  BY <1>1, <1>2, <1>3, <1>4 DEF Destroyed

LEMMA AssignKeeps ==
    ASSUME Lifetimes, NEW c \in Cells, NEW d \in Cells, Assign(c, d)
    PROVE  Lifetimes'
<1>0. ScopesHold /\ LifetimesBalance
  BY DEF Lifetimes
<1>1. Claimed(d) \in {"value", "reason", "none"}
  BY AlternativeType DEF Claimed
<1>2. c \in inScope /\ c \notin interrupted
  BY IntactCell DEF Assign, BeginAssign
<1>3. objects' = Cardinality(Holding') /\ objects' \in Int
  BY <1>1, AssignmentCounts DEF Assign
<1>4. ScopesHold'
  BY <1>0, <1>1, <1>2, <1>3 DEF ScopesHold, ResultType, Assign, BeginAssign
<1>5. LifetimesBalance'
  <2>1. \A e \in inScope' : Intact(e)' <=> e \notin interrupted'
    BY <1>0, <1>2 DEF ScopesHold, ResultType, LifetimesBalance, Intact, Claimed,
                      Alternative, Assign, BeginAssign
  <2>2. \A e \in interrupted' : storage'[e] = "none"
    BY <1>0, <1>2 DEF ScopesHold, ResultType, LifetimesBalance, Assign
  <2> QED
    BY <1>0, <1>3, <2>1, <2>2 DEF LifetimesBalance, Holding, Assign, BeginAssign
<1> QED
  BY <1>4, <1>5 DEF Lifetimes

LEMMA AssignThrowsKeeps ==
    ASSUME Lifetimes, NEW c \in Cells, NEW d \in Cells, AssignThrows(c, d)
    PROVE  Lifetimes'
<1>0. ScopesHold /\ LifetimesBalance
  BY DEF Lifetimes
<1>1. Claimed(d) # "none"
  BY ThrowingAssumption DEF AssignThrows
<1>2. c \in inScope /\ c \notin interrupted
  BY IntactCell DEF AssignThrows, BeginAssign
<1>3. objects' = Cardinality(Holding') /\ objects' \in Int
  <2>1. objects \in Int /\ Destroyed(c, hasValue[d]) \in Int
    BY <1>0 DEF ScopesHold, ResultType, Destroyed, Lives
  <2>2. objects' = objects - Destroyed(c, hasValue[d]) + Lives("none")
    BY <2>1 DEF AssignThrows, Lives
  <2> QED
    BY <2>2, AssignmentCounts DEF AssignThrows
<1>4. ScopesHold'
  BY <1>0, <1>2, <1>3 DEF ScopesHold, ResultType, AssignThrows, BeginAssign
<1>5. LifetimesBalance'
  <2>1. \A e \in inScope' : Intact(e)' <=> e \notin interrupted'
    BY <1>0, <1>1, <1>2 DEF ScopesHold, ResultType, LifetimesBalance, Intact, Claimed,
                            Alternative, AssignThrows, BeginAssign
  <2>2. \A e \in interrupted' : storage'[e] = "none"
    BY <1>0, <1>2 DEF ScopesHold, ResultType, LifetimesBalance, AssignThrows
  <2>3. undefined' => interrupted' # {}
    BY <1>0 DEF LifetimesBalance, AssignThrows, BeginAssign
  <2> QED
    BY <1>3, <2>1, <2>2, <2>3 DEF LifetimesBalance, Holding
<1> QED
  BY <1>4, <1>5 DEF Lifetimes

LEMMA EndScopeKeeps ==
    ASSUME Lifetimes, NEW c \in Cells, EndScope(c)
    PROVE  Lifetimes'
<1> USE DEF EndScope
<1>0. ScopesHold /\ LifetimesBalance
  BY DEF Lifetimes
<1>1. c \notin interrupted /\ storage[c] = Claimed(c)
  BY IntactCell
<1>2. objects' = Cardinality(Holding') /\ objects' \in Int
  <2>1. Cardinality(Holding') = Cardinality(Holding) - Lives(storage[c]) + Lives("none")
    BY <1>0, OneCellChanges
  <2>2. objects \in Int /\ Lives(storage[c]) \in Int /\ Lives("none") = 0
    BY <1>0 DEF ScopesHold, ResultType, Lives
  <2> QED
    BY <1>1, <2>1, <2>2, ObjectsCount
<1>3. ScopesHold'
  <2>1. IsFiniteSet(inScope')
    BY <1>0, FS_RemoveElement DEF ScopesHold
  <2> QED
    BY <1>0, <1>1, <1>2, <2>1 DEF ScopesHold, ResultType
<1>4. LifetimesBalance'
  <2>1. \A d \in inScope' : Intact(d)' <=> d \notin interrupted'
    BY <1>0 DEF ScopesHold, ResultType, LifetimesBalance, Intact, Claimed, Alternative
  <2>2. \A d \in interrupted' : storage'[d] = "none"
    BY <1>0 DEF ScopesHold, ResultType, LifetimesBalance
  <2> QED
    BY <1>0, <1>2, <2>1, <2>2 DEF LifetimesBalance, Holding
<1> QED
  BY <1>3, <1>4 DEF Lifetimes

\* Only a cell that an exception interrupted can be used while it is broken.
LEMMA UseBrokenKeeps ==
    ASSUME Lifetimes, NEW c \in Cells, UseBroken(c)
    PROVE  Lifetimes'
<1>0. ScopesHold /\ LifetimesBalance
  BY DEF Lifetimes
<1>1. c \in interrupted
  BY <1>0 DEF UseBroken, LifetimesBalance
<1>2. ScopesHold'
  BY <1>0 DEF ScopesHold, ResultType, UseBroken
<1>3. LifetimesBalance'
  BY <1>0, <1>1 DEF LifetimesBalance, UseBroken, Intact, Claimed, Alternative
<1> QED
  BY <1>2, <1>3 DEF Lifetimes

LEMMA CellsUntouched ==
    ASSUME Lifetimes, UNCHANGED resultVars PROVE Lifetimes'
BY DEF Lifetimes, ScopesHold, LifetimesBalance, ResultType, Intact, Claimed,
       Alternative, resultVars

-----------------------------------------------------------------------------
LEMMA ResultStepKeeps ==
    ASSUME Lifetimes, ResultStep PROVE Lifetimes'
<1>1. ASSUME NEW c \in Cells, NEW flag \in BOOLEAN, Construct(c, flag)
      PROVE  Lifetimes'
  BY <1>1, ConstructKeeps
<1>2. ASSUME NEW c \in Cells, NEW d \in Cells, ConstructFrom(c, d)
      PROVE  Lifetimes'
  <2>1. hasValue[d] \in BOOLEAN
    BY DEF Lifetimes, ScopesHold, ResultType
  <2> QED
    BY <1>2, <2>1, ConstructKeeps DEF ConstructFrom
<1>3. ASSUME NEW c \in Cells, NEW d \in Cells, Assign(c, d) \/ AssignThrows(c, d)
      PROVE  Lifetimes'
  BY <1>3, AssignKeeps, AssignThrowsKeeps
<1>4. ASSUME NEW c \in Cells, EndScope(c) \/ UseBroken(c)
      PROVE  Lifetimes'
  BY <1>4, EndScopeKeeps, UseBrokenKeeps
<1> QED
  BY <1>1, <1>2, <1>3, <1>4 DEF ResultStep

\* With assertions on, a wrong accessor ends in contract_fail() and touches no cell.
LEMMA NextKeeps ==
    ASSUME Asserts, Lifetimes, [Next]_vars PROVE Lifetimes'
<1>1. CASE UseResults
  BY <1>1, ResultStepKeeps DEF UseResults
<1>2. ASSUME NEW c \in Cells, NEW flag \in BOOLEAN, Access(c, flag)
      PROVE  Lifetimes'
  BY <1>2, CellsUntouched DEF Access, vars, resultVars
<1>3. CASE LeaveNoexcept
  BY <1>3, CellsUntouched DEF LeaveNoexcept, AssignTerminates
<1>4. CASE Hash \/ HashTooLong
  BY <1>4, CellsUntouched DEF Hash, HashTooLong
<1>5. ASSUME NEW t \in Threads, FailElsewhere(t) \/ HandleFailure(t)
      PROVE  Lifetimes'
  BY <1>5, CellsUntouched DEF FailElsewhere, HandleFailure
<1>6. CASE UNCHANGED vars
  BY <1>6, CellsUntouched DEF vars
<1> QED
  BY <1>1, <1>2, <1>3, <1>4, <1>5, <1>6 DEF Next

LEMMA InitHolds == Init => Lifetimes
<1> SUFFICES ASSUME Init PROVE Lifetimes
  OBVIOUS
<1> USE DEF Init, ResultInit
<1>1. Holding = {}
  BY DEF Holding
<1>2. Cardinality({}) = 0 /\ IsFiniteSet({})
  BY FS_EmptySet
<1>3. ScopesHold
  <2>1. storage \in [Cells -> {"value", "reason", "none"}] /\ objects \in Int
    OBVIOUS
  <2>2. hasValue \in [Cells -> BOOLEAN]
    OBVIOUS
  <2>3. isVoid \in BOOLEAN /\ undefined \in BOOLEAN /\ inScope \subseteq Cells
        /\ interrupted \subseteq inScope
    OBVIOUS
  <2>4. ResultType
    BY <2>1, <2>2, <2>3 DEF ResultType
  <2> QED
    BY <1>2, <2>4 DEF ScopesHold
<1>4. objects = Cardinality(Holding)
  BY <1>1, <1>2
<1> QED
  BY <1>3, <1>4 DEF Lifetimes, LifetimesBalance, Holding

\* In a build with assertions, through any sequence of copies, moves, assignments and
\* exceptions, objects are constructed and destroyed in pairs, and only an assignment
\* that an exception left can make a Result hold something else than its flag says
\* (result.hpp:93-110, 262-274): LifetimesBalance, for any number of cells.
THEOREM ResultsBalance ==
    ASSUME Asserts PROVE Spec => []LifetimesBalance
<1>1. Init => Lifetimes
  BY InitHolds
<1>2. Lifetimes /\ [Next]_vars => Lifetimes'
  BY NextKeeps
<1>3. Lifetimes => LifetimesBalance
  BY DEF Lifetimes
<1> QED
  BY <1>1, <1>2, <1>3, PTL DEF Spec

-----------------------------------------------------------------------------
(* How the process ends, for any number of threads that fail.               *)

Reporting == {"evidence", "tail", "terminate"}

\* While the process runs, at most one thread is past the guard of the handler, and
\* standard error holds as much of its evidence as it has got to write.
ReporterHolds ==
    Alive =>
        /\ \A t, u \in Threads : fpc[t] \in Reporting /\ fpc[u] \in Reporting => t = u
        /\ \A t \in Threads : fpc[t] \in Reporting => entered
        /\ ~ entered => Evidence = {}
        /\ \A t \in Threads : fpc[t] = "evidence" => hasStderr /\ Evidence = {}
        /\ \A t \in Threads : fpc[t] = "tail" =>
              /\ hasStderr /\ Evidence # {}
              /\ \A i \in Evidence : errors[i].thread = t /\ errors[i].text = "evidence"
        /\ \A t \in Threads : fpc[t] = "terminate" /\ hasStderr =>
              \E i \in Evidence : errors[i].text = "tail"

\* Whoever is at the guard is a fault of its own, and another one if the guard is taken.
FaultsHold ==
    Alive =>
        /\ entered => faults >= 1
        /\ \A t \in Threads : fpc[t] = "enter" => faults >= 1 /\ (entered => faults >= 2)
        /\ \A t, u \in Threads : fpc[t] = "enter" /\ fpc[u] = "enter" /\ t # u => faults >= 2

\* What standard error holds of the handler's lines: EvidenceOnce for a process that runs.
LinesHold ==
    /\ \A i, j \in Evidence :
          /\ errors[i].thread = errors[j].thread
          /\ i < j => errors[i].text = "evidence" /\ errors[j].text = "tail"
    /\ \A j \in Evidence : errors[j].text = "tail" => \E i \in Evidence : i < j

EndHolds ==
    ended = "crt" /\ hasStderr /\ faults = 1 => \E j \in Evidence : errors[j].text = "tail"

FaultInv == FaultType /\ ReporterHolds /\ FaultsHold /\ LinesHold /\ EndHolds

\* A step that writes nothing of the handler's leaves its lines where they are.
LinesKept ==
    Evidence' = Evidence /\ \A i \in Evidence : errors'[i] = errors[i] /\ i \in Nat

LEMMA LinesUntouched ==
    ASSUME FaultType, errors' = errors PROVE LinesKept
<1>1. DOMAIN errors \subseteq Nat
  BY DEF FaultType
<1> QED
  BY <1>1 DEF LinesKept, Evidence

LEMMA ViolationWritten ==
    ASSUME FaultType, NEW t \in Threads, WriteStderr(t, "violation")
    PROVE  LinesKept /\ errors' \in Seq([thread : Threads, text : Texts])
<1>1. errors \in Seq([thread : Threads, text : Texts])
  BY DEF FaultType
<1>2. CASE ~ hasStderr
  BY <1>1, <1>2, LinesUntouched DEF WriteStderr
<1>3. CASE hasStderr
  <2> DEFINE l == Line(t, "violation")
             n == Len(errors)
  <2>1. errors' = Append(errors, l) /\ l.text = "violation"
        /\ l \in [thread : Threads, text : Texts]
    BY <1>3 DEF WriteStderr, Line, Texts
  <2> HIDE DEF l
  <2>2. /\ errors' \in Seq([thread : Threads, text : Texts])
        /\ n \in Nat /\ DOMAIN errors = 1 .. n /\ DOMAIN errors' = 1 .. n + 1
        /\ errors'[n + 1] = l /\ \A i \in 1 .. n : errors'[i] = errors[i]
    BY <1>1, <2>1
  <2> HIDE DEF n
  <2>3. \A i \in 1 .. n + 1 : i \in 1 .. n \/ i = n + 1
    BY <2>2
  <2>4. \A i \in 1 .. n : i \in 1 .. n + 1 /\ i \in Nat
    BY <2>2
  <2>5. Evidence' = Evidence
    BY <2>1, <2>2, <2>3, <2>4 DEF Evidence
  <2> QED
    BY <2>2, <2>4, <2>5 DEF LinesKept, Evidence
<1> QED
  BY <1>2, <1>3

\* A line of the handler comes after all that are there.
LEMMA HandlerWrites ==
    ASSUME FaultType, hasStderr, NEW t \in Threads, NEW text \in {"evidence", "tail"},
           WriteStderr(t, text)
    PROVE  /\ errors' \in Seq([thread : Threads, text : Texts])
           /\ \E n \in Nat : /\ Evidence' = Evidence \cup {n} /\ n \notin Evidence
                             /\ errors'[n] = Line(t, text)
                             /\ \A i \in Evidence : i < n /\ i \in Nat /\ errors'[i] = errors[i]
<1> DEFINE l == Line(t, text)
           n == Len(errors)
<1>1. errors \in Seq([thread : Threads, text : Texts])
  BY DEF FaultType
<1>2. errors' = Append(errors, l) /\ l.text # "violation"
      /\ l \in [thread : Threads, text : Texts]
  BY DEF WriteStderr, Line, Texts
<1> HIDE DEF l
<1>3. /\ errors' \in Seq([thread : Threads, text : Texts])
      /\ n \in Nat /\ DOMAIN errors = 1 .. n /\ DOMAIN errors' = 1 .. n + 1
      /\ errors'[n + 1] = l /\ \A i \in 1 .. n : errors'[i] = errors[i]
  BY <1>1, <1>2
<1> HIDE DEF n
<1>4. /\ \A i \in 1 .. n + 1 : i \in 1 .. n \/ i = n + 1
      /\ \A i \in 1 .. n : i \in 1 .. n + 1 /\ i \in Nat /\ i < n + 1
      /\ n + 1 \in 1 .. n + 1 /\ n + 1 \in Nat /\ n + 1 \notin 1 .. n
  BY <1>3
<1>5. Evidence' = Evidence \cup {n + 1}
  BY <1>2, <1>3, <1>4 DEF Evidence
<1>6. n + 1 \notin Evidence /\ \A i \in Evidence : i \in 1 .. n
  BY <1>3, <1>4 DEF Evidence
<1> QED
  BY <1>3, <1>4, <1>5, <1>6 DEF l

\* The parts of the invariant that the handler's lines alone decide.
LEMMA LinesKeptHold ==
    ASSUME FaultInv, LinesKept PROVE LinesHold'
  BY DEF FaultInv, LinesHold, LinesKept

LEMMA GoesTypes ==
    ASSUME FaultType, NEW t \in Threads, NEW from,
           NEW to \in {"ok", "report", "exit", "enter", "evidence", "tail", "terminate"},
           Goes(t, from, to)
    PROVE  /\ ended = "no" /\ Alive /\ fpc[t] = from /\ fpc'[t] = to
           /\ fpc' \in [Threads -> {"ok", "report", "exit", "enter", "evidence", "tail",
                                    "terminate"}]
           /\ \A u \in Threads : u # t => fpc'[u] = fpc[u]
  BY DEF Goes, Alive, FaultType

\* A thread outside the handler breaks a contract, reports that, or ends the process.
LEMMA ContractKeeps ==
    ASSUME FaultInv, NEW t \in Threads,
           ContractFail(t) \/ ReportViolation(t) \/ ExitViolated(t) \/ Abort(t)
    PROVE  FaultInv'
<1>1. FaultType /\ ReporterHolds /\ FaultsHold
  BY DEF FaultInv
<1>2. /\ entered' = entered /\ hasStderr' = hasStderr /\ faults' = faults
      /\ ended' \in {"no", "contract", "abort"}
  BY <1>1 DEF ContractFail, ReportViolation, ExitViolated, Abort, Ends, Goes, Alive
<1>3. LinesKept /\ errors' \in Seq([thread : Threads, text : Texts])
  <2>1. CASE ReportViolation(t)
    BY <1>1, <2>1, ViolationWritten DEF ReportViolation
  <2>2. CASE ContractFail(t) \/ ExitViolated(t) \/ Abort(t)
    <3>1. errors' = errors
      BY <2>2 DEF ContractFail, ExitViolated, Abort, Ends
    <3> QED
      BY <1>1, <3>1, LinesUntouched DEF FaultType
  <2> QED
    BY <2>1, <2>2
<1>4. /\ Alive /\ fpc[t] \in {"ok", "report", "exit"} /\ fpc'[t] \in {"report", "exit"}
      /\ fpc' \in [Threads -> {"ok", "report", "exit", "enter", "evidence", "tail",
                               "terminate"}]
      /\ \A u \in Threads : u # t => fpc'[u] = fpc[u]
  BY <1>1, GoesTypes DEF ContractFail, ReportViolation, ExitViolated, Abort
<1>5. FaultType'
  BY <1>1, <1>2, <1>3, <1>4 DEF FaultType, Ends3
<1>6. \A u \in Threads : fpc'[u] \in Reporting \cup {"enter"} => fpc'[u] = fpc[u] /\ u # t
  BY <1>4 DEF Reporting
<1>7. ReporterHolds'
  BY <1>1, <1>2, <1>3, <1>4, <1>6 DEF ReporterHolds, LinesKept, Reporting
<1>8. FaultsHold'
  BY <1>1, <1>2, <1>4, <1>6 DEF FaultsHold
<1>9. EndHolds'
  BY <1>2 DEF EndHolds
<1> QED
  BY <1>3, <1>5, <1>7, <1>8, <1>9, LinesKeptHold DEF FaultInv

\* A fault comes to the guard: from the program or from the handler itself.
LEMMA FaultComes ==
    ASSUME FaultInv, NEW t \in Threads, InvalidParameter(t) \/ FaultInHandler(t)
    PROVE  FaultInv'
<1>1. FaultType /\ ReporterHolds /\ FaultsHold
  BY DEF FaultInv
<1>2. /\ ended' = ended /\ entered' = entered /\ hasStderr' = hasStderr
      /\ errors' = errors /\ faults \in 0 .. 2 /\ faults' \in 1 .. 2
      /\ faults >= 1 => faults' = 2
  BY <1>1 DEF InvalidParameter, FaultInHandler, AnotherFault, FaultType
<1>3. LinesKept
  BY <1>1, <1>2, LinesUntouched
<1>4. /\ Alive /\ ended = "no" /\ fpc[t] \in {"ok", "enter", "evidence", "tail"} /\ fpc'[t] = "enter"
      /\ fpc' \in [Threads -> {"ok", "report", "exit", "enter", "evidence", "tail",
                               "terminate"}]
      /\ \A u \in Threads : u # t => fpc'[u] = fpc[u]
  BY <1>1, GoesTypes DEF InvalidParameter, FaultInHandler
<1>5. FaultType'
  BY <1>1, <1>2, <1>4 DEF FaultType
<1>6. \A u \in Threads : fpc'[u] \in Reporting => fpc'[u] = fpc[u] /\ u # t
  BY <1>4 DEF Reporting
<1>7. ReporterHolds'
  BY <1>1, <1>2, <1>3, <1>4, <1>6 DEF ReporterHolds, LinesKept, Reporting
<1>8. FaultsHold'
  <2>1. entered => faults >= 1
    BY <1>1, <1>4 DEF FaultsHold
  <2>2. \A u \in Threads : u # t /\ fpc'[u] = "enter" => faults >= 1
    BY <1>1, <1>4 DEF FaultsHold
  <2>3. (entered => faults' >= 2) /\ faults' >= 1
    BY <1>2, <2>1
  <2>4. \A u, v \in Threads : fpc'[u] = "enter" /\ fpc'[v] = "enter" /\ u # v => faults' >= 2
    BY <1>2, <2>2
  <2> QED
    BY <1>2, <2>3, <2>4 DEF FaultsHold
<1>9. EndHolds'
  BY <1>2, <1>4 DEF EndHolds
<1> QED
  BY <1>3, <1>5, <1>7, <1>8, <1>9, LinesKeptHold DEF FaultInv

\* The first to pass the guard finds nothing written and nobody before it.
LEMMA EnterKeeps ==
    ASSUME FaultInv, NEW t \in Threads, EnterHandler(t)
    PROVE  FaultInv'
<1>1. FaultType /\ ReporterHolds /\ FaultsHold
  BY DEF FaultInv
<1>2. /\ ended' = ended /\ entered' = TRUE /\ ~ entered /\ hasStderr' = hasStderr
      /\ faults' = faults /\ errors' = errors
  BY DEF EnterHandler, MayReport
<1>3. LinesKept
  BY <1>1, <1>2, LinesUntouched
<1>4. FirstStep \in {"evidence", "terminate"} /\ (FirstStep = "evidence" <=> hasStderr)
  BY DEF FirstStep
<1>5. /\ Alive /\ ended = "no" /\ fpc[t] = "enter" /\ fpc'[t] = FirstStep
      /\ fpc' \in [Threads -> {"ok", "report", "exit", "enter", "evidence", "tail",
                               "terminate"}]
      /\ \A u \in Threads : u # t => fpc'[u] = fpc[u]
  BY <1>1, <1>4, GoesTypes DEF EnterHandler
<1>6. FaultType'
  BY <1>1, <1>2, <1>5 DEF FaultType
<1>7. Evidence = {} /\ \A u \in Threads : fpc[u] \notin Reporting
  BY <1>1, <1>2, <1>5 DEF ReporterHolds
<1>8. \A u \in Threads : fpc'[u] \in Reporting => u = t
  BY <1>5, <1>7
<1>9. ReporterHolds'
  BY <1>2, <1>3, <1>4, <1>5, <1>7, <1>8 DEF ReporterHolds, LinesKept, Reporting
<1>10. FaultsHold'
  <2>1. faults >= 1 /\ \A u \in Threads : u # t /\ fpc[u] = "enter" => faults >= 2
    BY <1>1, <1>5 DEF FaultsHold
  <2>2. \A u \in Threads : fpc'[u] = "enter" => u # t /\ fpc[u] = "enter"
    BY <1>4, <1>5
  <2> QED
    BY <1>1, <1>2, <1>5, <2>1, <2>2 DEF FaultsHold
<1>11. EndHolds'
  BY <1>2, <1>5 DEF EndHolds
<1> QED
  BY <1>3, <1>6, <1>9, <1>10, <1>11, LinesKeptHold DEF FaultInv

\* The handler ends the process: with its evidence written, or for a second fault.
LEMMA HandlerEnds ==
    ASSUME FaultInv, NEW t \in Threads, EnterAgain(t) \/ Terminate(t)
    PROVE  FaultInv'
<1>1. FaultType /\ ReporterHolds /\ FaultsHold
  BY DEF FaultInv
<1>2. /\ ended' = "crt" /\ entered' = entered /\ hasStderr' = hasStderr
      /\ faults' = faults /\ errors' = errors /\ faults \in Nat
  BY <1>1 DEF EnterAgain, Terminate, Ends, FaultType
<1>3. LinesKept
  BY <1>1, <1>2, LinesUntouched
<1>4. /\ Alive /\ fpc[t] \in {"enter", "terminate"} /\ (fpc[t] = "enter" => entered)
      /\ fpc' \in [Threads -> {"ok", "report", "exit", "enter", "evidence", "tail",
                               "terminate"}]
  BY <1>1, GoesTypes DEF EnterAgain, Terminate, MayReport
<1>5. FaultType'
  BY <1>1, <1>2, <1>4 DEF FaultType, Ends3
<1>6. ~ Alive'
  BY <1>2 DEF Alive
<1>7. EndHolds'
  <2>1. CASE fpc[t] = "enter"
    <3>1. faults >= 2
      BY <1>1, <1>4, <2>1 DEF FaultsHold
    <3> QED
      BY <1>2, <3>1 DEF EndHolds
  <2>2. CASE fpc[t] = "terminate"
    <3>1. hasStderr => \E i \in Evidence : errors[i].text = "tail"
      BY <1>1, <1>4, <2>2 DEF ReporterHolds
    <3> QED
      BY <1>2, <1>3, <3>1 DEF EndHolds, LinesKept
  <2> QED
    BY <1>4, <2>1, <2>2
<1> QED
  BY <1>3, <1>5, <1>6, <1>7, LinesKeptHold DEF FaultInv, ReporterHolds, FaultsHold

\* The evidence is the first of the handler's lines.
LEMMA EvidenceKeeps ==
    ASSUME FaultInv, NEW t \in Threads, WriteEvidence(t)
    PROVE  FaultInv'
<1>1. FaultType /\ ReporterHolds /\ FaultsHold
  BY DEF FaultInv
<1>2. ended' = ended /\ entered' = entered /\ hasStderr' = hasStderr /\ faults' = faults
  BY DEF WriteEvidence
<1>3. /\ Alive /\ ended = "no" /\ fpc[t] = "evidence" /\ fpc'[t] = "tail"
      /\ fpc' \in [Threads -> {"ok", "report", "exit", "enter", "evidence", "tail",
                               "terminate"}]
      /\ \A u \in Threads : u # t => fpc'[u] = fpc[u]
  BY <1>1, GoesTypes DEF WriteEvidence
<1>4. hasStderr /\ Evidence = {} /\ entered /\ \A u \in Threads : fpc[u] \in Reporting => u = t
  BY <1>1, <1>3 DEF ReporterHolds, Reporting
<1>5. PICK n \in Nat : Evidence' = Evidence \cup {n} /\ errors'[n] = Line(t, "evidence")
  BY <1>1, <1>4, HandlerWrites DEF WriteEvidence
<1>6. errors' \in Seq([thread : Threads, text : Texts])
  BY <1>1, <1>4, HandlerWrites DEF WriteEvidence
<1>7. Evidence' = {n} /\ errors'[n].thread = t /\ errors'[n].text = "evidence"
  BY <1>4, <1>5 DEF Line
<1>8. FaultType'
  BY <1>1, <1>2, <1>3, <1>6 DEF FaultType
<1>9. \A u \in Threads : fpc'[u] \in Reporting => u = t
  BY <1>3, <1>4
<1>10. ReporterHolds'
  BY <1>2, <1>3, <1>4, <1>7, <1>9 DEF ReporterHolds, Reporting
<1>11. FaultsHold'
  <2>1. \A u \in Threads : fpc'[u] = "enter" => fpc[u] = "enter"
    BY <1>3
  <2> QED
    BY <1>1, <1>2, <1>3, <2>1 DEF FaultsHold
<1>12. LinesHold'
  BY <1>7 DEF LinesHold
<1>13. EndHolds'
  BY <1>2, <1>3 DEF EndHolds
<1> QED
  BY <1>8, <1>10, <1>11, <1>12, <1>13 DEF FaultInv

\* The tail comes behind its evidence, and is the last.
LEMMA TailKeeps ==
    ASSUME FaultInv, NEW t \in Threads, WriteTail(t)
    PROVE  FaultInv'
<1>1. FaultType /\ ReporterHolds /\ FaultsHold /\ LinesHold
  BY DEF FaultInv
<1>2. ended' = ended /\ entered' = entered /\ hasStderr' = hasStderr /\ faults' = faults
  BY DEF WriteTail
<1>3. /\ Alive /\ ended = "no" /\ fpc[t] = "tail" /\ fpc'[t] = "terminate"
      /\ fpc' \in [Threads -> {"ok", "report", "exit", "enter", "evidence", "tail",
                               "terminate"}]
      /\ \A u \in Threads : u # t => fpc'[u] = fpc[u]
  BY <1>1, GoesTypes DEF WriteTail
<1>4. /\ hasStderr /\ Evidence # {} /\ entered
      /\ \A u \in Threads : fpc[u] \in Reporting => u = t
      /\ \A i \in Evidence : errors[i].thread = t /\ errors[i].text = "evidence"
  BY <1>1, <1>3 DEF ReporterHolds, Reporting
<1>5. PICK n \in Nat : /\ Evidence' = Evidence \cup {n} /\ n \notin Evidence
                       /\ errors'[n] = Line(t, "tail")
                       /\ \A i \in Evidence : i < n /\ i \in Nat /\ errors'[i] = errors[i]
  BY <1>1, <1>4, HandlerWrites DEF WriteTail
<1>6. errors' \in Seq([thread : Threads, text : Texts])
  BY <1>1, <1>4, HandlerWrites DEF WriteTail
<1>7. errors'[n].thread = t /\ errors'[n].text = "tail" /\ n \in Evidence'
  BY <1>5 DEF Line
<1>8. \A i \in Evidence : errors'[i].thread = t /\ errors'[i].text = "evidence" /\ i < n
  BY <1>4, <1>5
<1>9. FaultType'
  BY <1>1, <1>2, <1>3, <1>6 DEF FaultType
<1>10. \A u \in Threads : fpc'[u] \in Reporting => u = t
  BY <1>3, <1>4
<1>11. ReporterHolds'
  BY <1>2, <1>3, <1>4, <1>7, <1>10 DEF ReporterHolds, Reporting
<1>12. FaultsHold'
  <2>1. \A u \in Threads : fpc'[u] = "enter" => fpc[u] = "enter"
    BY <1>3
  <2> QED
    BY <1>1, <1>2, <1>3, <2>1 DEF FaultsHold
<1>13. LinesHold'
  <2>1. \A i \in Evidence' : i \in Evidence \/ i = n
    BY <1>5
  <2>2. \A i, j \in Evidence : ~ (i < j)
    BY <1>1, <1>4 DEF LinesHold
  <2>3. ASSUME NEW i \in Evidence', NEW j \in Evidence'
        PROVE  /\ errors'[i].thread = errors'[j].thread
               /\ i < j => errors'[i].text = "evidence" /\ errors'[j].text = "tail"
    <3>1. errors'[i].thread = t /\ errors'[j].thread = t
      BY <1>7, <1>8, <2>1
    <3>2. ~ (n < i) /\ ~ (n < j)
      BY <1>5, <2>1
    <3>3. i < j => i \in Evidence /\ j = n
      BY <2>1, <2>2, <3>2
    <3> QED
      BY <1>7, <1>8, <3>1, <3>3
  <2>4. ASSUME NEW j \in Evidence', errors'[j].text = "tail"
        PROVE  \E i \in Evidence' : i < j
    <3>1. j = n
      BY <1>8, <2>1, <2>4
    <3>2. PICK i \in Evidence : i < n
      BY <1>4, <1>8
    <3> QED
      BY <1>5, <3>1, <3>2
  <2> QED
    BY <2>3, <2>4 DEF LinesHold
<1>14. EndHolds'
  BY <1>2, <1>3 DEF EndHolds
<1> QED
  BY <1>9, <1>11, <1>12, <1>13, <1>14 DEF FaultInv

LEMMA FaultUntouched ==
    ASSUME FaultInv, UNCHANGED faultVars PROVE FaultInv'
  BY DEF FaultInv, faultVars, FaultType, ReporterHolds, FaultsHold, LinesHold, EndHolds,
         Evidence, Alive

LEMMA FaultNextKeeps ==
    ASSUME FaultInv, [Next]_vars PROVE FaultInv'
<1>1. ASSUME NEW t \in Threads, ContractFail(t) \/ InvalidParameter(t) \/ Abort(t) \/ Handle(t)
      PROVE  FaultInv'
  BY <1>1, ContractKeeps, FaultComes, EnterKeeps, HandlerEnds, EvidenceKeeps, TailKeeps
  DEF Handle
<1>2. CASE UseResults \/ Hash
  BY <1>2, FaultUntouched DEF UseResults, Hash
<1>3. ASSUME NEW c \in Cells, NEW flag \in BOOLEAN, Access(c, flag)
      PROVE  FaultInv'
  <2>1. ContractFail(Main) \/ UNCHANGED faultVars
    BY <1>3 DEF Access, vars
  <2> QED
    BY <1>1, <2>1, MainAssumption, FaultUntouched
<1>4. CASE LeaveNoexcept \/ HashTooLong
  BY <1>1, <1>4, MainAssumption DEF LeaveNoexcept, HashTooLong
<1>5. ASSUME NEW t \in Threads, FailElsewhere(t) \/ HandleFailure(t)
      PROVE  FaultInv'
  BY <1>1, <1>5 DEF FailElsewhere, HandleFailure
<1>6. CASE UNCHANGED vars
  BY <1>6, FaultUntouched DEF vars
<1> QED
  BY <1>2, <1>3, <1>4, <1>5, <1>6 DEF Next

LEMMA FaultStarts == Init => FaultInv
<1> SUFFICES ASSUME Init PROVE FaultInv
  OBVIOUS
<1>1. errors = <<>> /\ DOMAIN errors = {}
  BY DEF Init, FaultInit
<1>2. Evidence = {}
  BY <1>1 DEF Evidence
<1>3. FaultType
  <2>1. errors \in Seq([thread : Threads, text : Texts])
    BY <1>1
  <2>2. entered \in BOOLEAN /\ hasStderr \in BOOLEAN
    BY Zenon DEF Init, FaultInit
  <2>3. ended \in {"no"} \cup Ends3 /\ faults \in 0 .. 2 /\ fpc = [t \in Threads |-> "ok"]
    BY DEF Init, FaultInit
  <2> QED
    BY <2>1, <2>2, <2>3 DEF FaultType
<1> QED
  BY <1>2, <1>3
  DEF Init, FaultInit, FaultInv, ReporterHolds, FaultsHold, LinesHold, EndHolds, Reporting

\* However many threads fault, and however often, standard error gets the evidence of one
\* of them, once, and its tail behind it; and a process that ends with the handler's exit
\* code for a lone fault has written both (terminate_with_evidence(), crt_failure.cpp:29-31,
\* and the re-entrancy guard before it).
THEOREM EvidenceWrittenOnce == Spec => []EvidenceOnce
<1>1. Init => FaultInv
  BY FaultStarts
<1>2. FaultInv => EvidenceOnce
  BY DEF FaultInv, LinesHold, EndHolds, EvidenceOnce
<1> QED
  BY <1>1, <1>2, FaultNextKeeps, PTL DEF Spec

-----------------------------------------------------------------------------
(* The hasher: what it compresses is the padded message, for any stream and *)
(* any widths.                                                              *)

LEMMA Widths ==
    /\ Block \in Nat \ {0} /\ LengthBytes \in Nat \ {0} /\ LengthBytes < Block
    /\ Room \in Nat \ {0} /\ Room < Block /\ Room + LengthBytes = Block
    /\ ByteSize \in Nat \ {0} /\ 0 \in Bytes /\ Marker \in Bytes
    /\ WordSize \in Nat \ {0} /\ Stream \in Seq(Bytes) /\ Len(Stream) \in Nat
<1>1. Stream \in Seq(Bytes) /\ Len(Stream) \in Nat
  BY StreamAssumption DEF Bytes
<1>2. 0 \in Bytes /\ Marker \in Bytes
  BY WidthsAssumption DEF Bytes, Marker
<1> QED
  BY <1>1, <1>2, WidthsAssumption DEF Room

\* The length field is as wide as it should be.
LEMMA FieldType ==
    ASSUME NEW v \in Nat
    PROVE  LengthField(v) \in Seq(Bytes) /\ Len(LengthField(v)) = LengthBytes
<1>1. LengthBytes \in Nat /\ ByteSize \in Nat \ {0}
  BY Widths
<1>2. IsPowers(Weight, ByteSize, LengthBytes)
  <2>1. Weight = CHOOSE f : IsPowers(f, ByteSize, LengthBytes)
    BY Zenon DEF Weight, IsPowers
  <2>2. \E f : IsPowers(f, ByteSize, LengthBytes)
    BY <1>1, PowersExist
  <2> QED
    BY <2>1, <2>2
<1>3. \A k \in 0 .. LengthBytes : Weight[k] \in Nat \ {0}
  BY <1>1, <1>2, PowersAre
<1>4. \A i \in 1 .. LengthBytes : (v \div Weight[LengthBytes - i]) % ByteSize \in Bytes
  <2> SUFFICES ASSUME NEW i \in 1 .. LengthBytes
               PROVE  (v \div Weight[LengthBytes - i]) % ByteSize \in Bytes
    OBVIOUS
  <2>1. Weight[LengthBytes - i] \in Nat \ {0}
    BY <1>1, <1>3
  <2>2. \A w \in Nat \ {0} : (v \div w) \in Nat
    OBVIOUS
  <2>3. \A x \in Nat : x % ByteSize \in 0 .. ByteSize - 1
    BY <1>1
  <2> QED
    BY <2>1, <2>2, <2>3 DEF Bytes
<1>5. LengthField(v) \in [1 .. LengthBytes -> Bytes]
  BY <1>4 DEF LengthField
<1> QED
  BY <1>1, <1>5

\* The padded message, byte by byte, where it fills whole blocks but for `used` bytes.
Pads(p, m, base, used, end) ==
    /\ \A i \in 1 .. base + used : p[i] = m[i]
    /\ p[base + used + 1] = Marker
    /\ \A i \in base + used + 2 .. end : p[i] = 0
    /\ \A i \in 1 .. LengthBytes : p[end + i] = LengthField(8 * (base + used))[i]

LEMMA PaddedIs ==
    ASSUME NEW m \in Seq(Bytes), NEW k \in Nat, NEW used \in 0 .. Block - 1,
           NEW base, base = Block * k, Len(m) = base + used,
           NEW length, length = base + (IF Spills(used + 1) THEN Block + Block ELSE Block)
    PROVE  Row(Bytes, Padded(m), length) /\ Pads(Padded(m), m, base, used, length - LengthBytes)
<1> DEFINE p == Padded(m)
           n == base + used
           zeros == (Room - 1 - n) % Block
           z == length - LengthBytes - n - 1
           gap == [i \in 1 .. zeros |-> 0]
           field == LengthField(8 * n)
<1>1. base \in Nat /\ n \in Nat /\ length \in Nat
  BY Widths DEF Spills
<1>2. z \in 0 .. Block - 1 /\ zeros = z
  <2>1. CASE Spills(used + 1)
    <3>1. z \in 0 .. Block - 1 /\ (Room - 1 - n) = Block * (-k - 1) + z
      BY <1>1, <2>1, Widths DEF Spills
    <3> HIDE DEF z, n
    <3> DEFINE v == Room - 1 - n
               w == -k - 1
    <3>2. w \in Int /\ v = Block * w + z /\ Block \in Nat \ {0} /\ z \in 0 .. Block - 1
      BY <3>1, Widths
    <3> HIDE DEF v, w
    <3>3. v % Block = z
      BY <3>2, Euclid, Zenon
    <3> QED
      BY <3>1, <3>3 DEF v
  <2>2. CASE ~ Spills(used + 1)
    <3>1. z \in 0 .. Block - 1 /\ (Room - 1 - n) = Block * (-k) + z
      BY <1>1, <2>2, Widths DEF Spills
    <3> HIDE DEF z, n
    <3> DEFINE v == Room - 1 - n
               w == -k
    <3>2. w \in Int /\ v = Block * w + z /\ Block \in Nat \ {0} /\ z \in 0 .. Block - 1
      BY <3>1, Widths
    <3> HIDE DEF v, w
    <3>3. v % Block = z
      BY <3>2, Euclid, Zenon
    <3> QED
      BY <3>1, <3>3 DEF v
  <2> QED
    BY <2>1, <2>2
<1>3. gap \in Seq(Bytes) /\ Len(gap) = z /\ \A i \in 1 .. z : gap[i] = 0
  <2>1. z \in Nat /\ zeros = z
    BY <1>2, Widths
  <2> HIDE DEF z, zeros
  <2>2. gap \in [1 .. z -> Bytes] /\ \A i \in 1 .. z : gap[i] = 0
    BY <2>1, Widths
  <2> HIDE DEF gap
  <2> QED
    BY <2>1, <2>2
<1>4. field \in Seq(Bytes) /\ Len(field) = LengthBytes
  BY <1>1, FieldType
<1>5. p = m \o <<Marker>> \o gap \o field
  BY <1>1 DEF Padded
<1>6. /\ n + 1 + z = length - LengthBytes /\ length - LengthBytes \in Nat /\ z \in Nat
      /\ n + 1 + z + LengthBytes = length
  BY <1>1, <1>2, Widths
<1>7. LengthBytes \in Nat
  BY Widths
<1> DEFINE one == <<Marker>>
<1>8. one \in Seq(Bytes) /\ Len(one) = 1 /\ one[1] = Marker /\ 1 \in Nat
  BY Widths
<1>9. n \in Nat /\ Len(m) = n /\ p = Joined(Joined(Joined(m, one), gap), field)
  BY <1>1, <1>5 DEF Joined
<1> HIDE DEF n, z, zeros, gap, field, one, p
<1>10. Row(Bytes, m, n) /\ Row(Bytes, one, 1) /\ Row(Bytes, gap, z)
       /\ Row(Bytes, field, LengthBytes)
  BY <1>3, <1>4, <1>8, <1>9 DEF Row
<1>11. Row(Bytes, p, n + 1 + z + LengthBytes)
       /\ FollowEachOther(p, m, n, one, 1, gap, z, field, LengthBytes)
  BY <1>6, <1>7, <1>8, <1>9, <1>10, FourJoined
<1>12. /\ Row(Bytes, p, n + 1 + z + LengthBytes)
       /\ \A i \in 1 .. n : p[i] = m[i]
       /\ \A i \in 1 .. 1 : p[n + i] = one[i]
       /\ \A i \in 1 .. z : p[n + 1 + i] = gap[i]
       /\ \A i \in 1 .. LengthBytes : p[n + 1 + z + i] = field[i]
  BY <1>11, Zenon DEF FollowEachOther
<1>13. p[n + 1] = Marker
  BY <1>8, <1>12
<1>14. \A i \in n + 2 .. length - LengthBytes : p[i] = 0
  <2>1. \A i \in n + 2 .. length - LengthBytes :
          i - (n + 1) \in 1 .. z /\ n + 1 + (i - (n + 1)) = i
    BY <1>6, <1>9
  <2> QED
    BY <1>3, <1>12, <2>1
<1>15. Row(Bytes, p, length)
  BY <1>6, <1>12
<1>16. \A i \in 1 .. LengthBytes : p[(length - LengthBytes) + i] = field[i]
  BY <1>6, <1>12
<1> QED
  BY <1>12, <1>13, <1>14, <1>15, <1>16 DEF n, field, p, Pads

-----------------------------------------------------------------------------
\* What finish() compresses behind the full blocks: block b with the bytes that are used.
Marked(b, used) ==
    [i \in Positions |-> IF i <= used THEN b[i] ELSE IF i = used + 1 THEN Marker ELSE 0]
NoBytes == [i \in Positions |-> 0]
Ended(b, v) ==
    [i \in Positions |-> IF i <= Room THEN b[i] ELSE LengthField(v)[i - Room]]
LastBlocks(b, used, v) ==
    IF Spills(used + 1) THEN <<Marked(b, used), Ended(NoBytes, v)>>
    ELSE <<Ended(Marked(b, used), v)>>

LEMMA LastBlocksType ==
    ASSUME NEW b \in Blocks, NEW used \in 0 .. Block - 1, NEW v \in Nat
    PROVE  /\ Marked(b, used) \in Blocks /\ NoBytes \in Blocks
           /\ \A x \in Blocks : Ended(x, v) \in Blocks
           /\ Row(Blocks, LastBlocks(b, used, v), IF Spills(used + 1) THEN 2 ELSE 1)
<1>1. Marked(b, used) \in Blocks /\ NoBytes \in Blocks
  BY Widths DEF Marked, NoBytes, Blocks
<1>2. \A i \in 1 .. LengthBytes : LengthField(v)[i] \in Bytes
  BY FieldType
<1>3. \A i \in Positions : ~ (i <= Room) => i - Room \in 1 .. LengthBytes
  BY Widths DEF Positions
<1>4. ASSUME NEW x \in Blocks PROVE Ended(x, v) \in Blocks
  BY <1>2, <1>3 DEF Ended, Blocks
<1>5. Row(Blocks, LastBlocks(b, used, v), IF Spills(used + 1) THEN 2 ELSE 1)
  BY <1>1, <1>4 DEF Row, LastBlocks
<1> QED
  BY <1>1, <1>4, <1>5

\* A message of whole blocks, cut.
Cuts(s, p, c) == \A j \in 1 .. c, i \in Positions : s[j][i] = p[((j - 1) * Block) + i]

LEMMA CutIs ==
    ASSUME NEW p \in Seq(Bytes), NEW a \in Nat, NEW z \in Nat, z = a + Block, z <= Len(p)
    PROVE  /\ SubSeq(p, a + 1, z) \in Blocks
           /\ \A i \in Positions : SubSeq(p, a + 1, z)[i] = p[a + i]
<1> DEFINE t == SubSeq(p, a + 1, z)
<1>1. Block \in Nat /\ z - a = Block /\ a <= z
  BY Widths
<1>2. t \in Seq(Bytes) /\ Len(t) = z - a /\ \A i \in 1 .. z - a : t[i] = p[a + i]
  BY <1>1, PartIs
<1> HIDE DEF t
<1>3. t \in Seq(Bytes) /\ Len(t) = Block /\ \A i \in 1 .. Block : t[i] = p[a + i]
  BY <1>1, <1>2
<1>4. t \in Blocks
  BY <1>3 DEF Blocks, Positions
<1> QED
  BY <1>3, <1>4 DEF t, Positions

\* Where the blocks are.
LEMMA BlocksInOrder ==
    ASSUME NEW c \in Nat, NEW j \in 1 .. c
    PROVE  /\ (j - 1) * Block \in Nat /\ j * Block = ((j - 1) * Block) + Block
           /\ ((j - 1) * Block) + Block <= Block * c
<1>1. Block \in Nat
  BY Widths
<1>2. j - 1 \in Nat /\ (j - 1) * Block \in Nat /\ j * Block = ((j - 1) * Block) + Block
  BY <1>1
<1>3. j * Block <= c * Block /\ c * Block = Block * c
  BY <1>1
<1> QED
  BY <1>2, <1>3

LEMMA BlocksAre ==
    ASSUME NEW p, NEW c \in Nat, Row(Bytes, p, Block * c)
    PROVE  Row(Blocks, BlocksOf(p), c) /\ Cuts(BlocksOf(p), p, c)
<1>1. Block \in Nat \ {0} /\ 0 \in 0 .. Block - 1 /\ c \in Int
      /\ p \in Seq(Bytes) /\ Len(p) = Block * c
  BY Widths DEF Row
<1>2. Len(p) \div Block = c
  <2>1. Len(p) = Block * c + 0
    BY <1>1
  <2> QED
    BY <1>1, <2>1, Euclid
<1> DEFINE Cut(j) == SubSeq(p, ((j - 1) * Block) + 1, j * Block)
<1>3. BlocksOf(p) = [j \in 1 .. c |-> Cut(j)]
  BY <1>2 DEF BlocksOf
<1>4. ASSUME NEW j \in 1 .. c
      PROVE  Cut(j) \in Blocks /\ \A i \in Positions : Cut(j)[i] = p[((j - 1) * Block) + i]
  <2> DEFINE a == (j - 1) * Block
             z == j * Block
  <2>1. a \in Nat /\ z = a + Block /\ z <= Len(p)
    BY <1>1, BlocksInOrder
  <2>2. z \in Nat
    BY <1>1, <2>1
  <2> HIDE DEF a, z
  <2>3. SubSeq(p, a + 1, z) \in Blocks /\ \A i \in Positions : SubSeq(p, a + 1, z)[i] = p[a + i]
    BY <1>1, <2>1, <2>2, CutIs
  <2> QED
    BY <2>3, Zenon DEF a, z
<1> HIDE DEF Cut
<1>5. Row(Blocks, BlocksOf(p), c)
  BY <1>3, <1>4 DEF Row
<1> QED
  BY <1>3, <1>4, <1>5 DEF Cuts

LEMMA SameBlocks ==
    ASSUME NEW n \in Nat, NEW s, NEW t, Row(Blocks, s, n), Row(Blocks, t, n),
           \A j \in 1 .. n, i \in Positions : s[j][i] = t[j][i]
    PROVE  s = t
<1>1. s \in Seq(Blocks) /\ t \in Seq(Blocks) /\ Len(s) = n /\ Len(t) = n
  BY DEF Row
<1>2. ASSUME NEW j \in 1 .. n PROVE s[j] = t[j]
  <2>1. s[j] \in [Positions -> Bytes] /\ t[j] \in [Positions -> Bytes]
    BY <1>1 DEF Blocks
  <2>2. \A i \in Positions : s[j][i] = t[j][i]
    OBVIOUS
  <2> QED
    BY <2>1, <2>2
<1> QED
  BY <1>1, <1>2, SameSequence

\* The full blocks of a message and the last blocks are the blocks of its padded form.
Holds(b, m, base, used) == \A i \in 1 .. used : b[i] = m[base + i]

LEMMA PaddedBlocks ==
    ASSUME NEW m \in Seq(Bytes), NEW k \in Nat, NEW used \in 0 .. Block - 1,
           NEW base, base = Block * k, Len(m) = base + used,
           NEW full, Row(Blocks, full, k), Cuts(full, m, k),
           NEW b \in Blocks, Holds(b, m, base, used)
    PROVE  Joined(full, LastBlocks(b, used, 8 * (base + used))) = BlocksOf(Padded(m))
<1> DEFINE v == 8 * (base + used)
           c == IF Spills(used + 1) THEN 2 ELSE 1
           last == LastBlocks(b, used, v)
           whole == Joined(full, last)
           length == base + (IF Spills(used + 1) THEN Block + Block ELSE Block)
           p == Padded(m)
           other == BlocksOf(p)
           e == length - LengthBytes
           field == LengthField(v)
<1>1. /\ base \in Nat /\ v \in Nat /\ c \in Nat /\ length = Block * (k + c) /\ k + c \in Nat
      /\ (Spills(used + 1) => c = 2 /\ e = base + Block + Room /\ Room < used + 1)
      /\ (~ Spills(used + 1) => c = 1 /\ e = base + Room /\ used + 1 <= Room)
      /\ e \in Nat
  BY Widths DEF Spills
<1>2. Row(Bytes, p, length) /\ Pads(p, m, base, used, e)
  BY PaddedIs
<1>3. Row(Blocks, last, c)
  BY <1>1, LastBlocksType
<1>4. last = (IF Spills(used + 1) THEN <<Marked(b, used), Ended(NoBytes, v)>>
              ELSE <<Ended(Marked(b, used), v)>>)
  BY DEF LastBlocks
<1> HIDE DEF p, last, c, length, e
<1>5. Row(Blocks, whole, k + c) /\ Follows(whole, full, k, last, c)
  BY <1>1, <1>3, JoinedBehind
<1>6. Row(Blocks, other, k + c) /\ Cuts(other, p, k + c)
  BY <1>1, <1>2, BlocksAre
<1> HIDE DEF whole, other
<1>7. ASSUME NEW j \in 1 .. k, NEW i \in Positions PROVE whole[j][i] = other[j][i]
  <2> DEFINE start0 == (j - 1) * Block
             at == start0 + i
  <2>1. whole[j] = full[j] /\ full[j][i] = m[at]
    BY <1>5, <1>7 DEF Follows, Cuts
  <2>2. at \in 1 .. base + used
    <3>1. start0 \in Nat /\ start0 + Block <= base /\ i \in 1 .. Block
      BY BlocksInOrder DEF Positions
    <3> HIDE DEF start0
    <3> QED
      BY <1>1, <3>1, Widths
  <2>3. j \in 1 .. k + c
    BY <1>1
  <2>4. other[j][i] = p[at]
    BY <1>6, <2>3 DEF Cuts
  <2> HIDE DEF at
  <2>5. p[at] = m[at]
    BY <1>2, <2>2 DEF Pads
  <2> QED
    BY <2>1, <2>4, <2>5
<1>8. /\ whole[k + 1] = last[1] /\ (c = 2 => whole[k + 2] = last[2])
      /\ \A i \in Positions : other[k + 1][i] = p[base + i]
      /\ \A i \in Positions : c = 2 => other[k + 2][i] = p[base + Block + i]
  <2>1. whole[k + 1] = last[1] /\ (c = 2 => whole[k + 2] = last[2])
    <3>1. 1 \in 1 .. c /\ (c = 2 => 2 \in 1 .. c)
      BY <1>1
    <3> QED
      BY <1>5, <3>1 DEF Follows
  <2>2. /\ k + 1 \in 1 .. k + c /\ (c = 2 => k + 2 \in 1 .. k + c)
        /\ ((k + 1) - 1) * Block = base /\ ((k + 2) - 1) * Block = base + Block
    BY <1>1, Widths
  <2> QED
    BY <1>6, <2>1, <2>2 DEF Cuts
<1>9. \A i \in Positions : i \in 1 .. Block
  BY DEF Positions
\* What stands before the length field, in whichever block.
<1>10. /\ \A i \in 1 .. used : p[base + i] = b[i]
       /\ p[base + (used + 1)] = Marker
       /\ \A i \in Int : used + 1 < i /\ base + i <= e => p[base + i] = 0
  <2>0. \A x \in Nat : \A i \in 1 .. used : x + i \in 1 .. x + used
    BY Widths
  <2>1. \A i \in 1 .. used : base + i \in 1 .. base + used
    BY <1>1, <2>0, Zenon
  <2>2. \A i \in Int : used + 1 < i /\ base + i <= e => base + i \in base + used + 2 .. e
    BY <1>1, Widths
  <2>3. base + (used + 1) = base + used + 1
    BY <1>1
  <2> QED
    BY <1>2, <2>1, <2>2, <2>3 DEF Pads, Holds
<1>11. ASSUME NEW i \in Positions, base + i <= e \/ i <= used + 1
       PROVE  Marked(b, used)[i] = p[base + i]
  <2>1. Marked(b, used)[i] = IF i <= used THEN b[i] ELSE IF i = used + 1 THEN Marker ELSE 0
    BY DEF Marked
  <2>2. i \in Int /\ 1 <= i
    BY <1>9, Widths
  <2>3. CASE i <= used
    BY <1>10, <2>1, <2>2, <2>3
  <2>4. CASE i = used + 1
    BY <1>10, <2>1, <2>4
  <2>5. CASE i > used + 1
    BY <1>10, <1>11, <2>1, <2>2, <2>5
  <2> QED
    BY <2>2, <2>3, <2>4, <2>5
<1>12. \A i \in 1 .. LengthBytes : p[e + i] = field[i]
  BY <1>2 DEF Pads
<1> HIDE DEF field
<1>13. ASSUME NEW x \in Blocks, NEW from \in Nat, e = from + Room, NEW i \in Positions,
              i <= Room => x[i] = p[from + i]
       PROVE  Ended(x, v)[i] = p[from + i]
  <2>1. Ended(x, v)[i] = IF i <= Room THEN x[i] ELSE field[i - Room]
    BY DEF Ended, field
  <2>2. CASE ~ (i <= Room)
    <3>1. i - Room \in 1 .. LengthBytes /\ e + (i - Room) = from + i
      <4>1. /\ i \in Nat /\ i <= Block /\ Room \in Nat /\ LengthBytes \in Nat
            /\ Room + LengthBytes = Block
        BY <1>9, Widths
      <4>2. i - Room \in 1 .. LengthBytes
        BY <2>2, <4>1
      <4>3. \A f, r, g \in Nat : (f + r) + (g - r) = f + g
        OBVIOUS
      <4> QED
        BY <1>13, <4>1, <4>2, <4>3, Zenon
    <3> QED
      BY <1>12, <2>1, <2>2, <3>1
  <2> QED
    BY <1>13, <2>1, <2>2
<1>14. Marked(b, used) \in Blocks /\ NoBytes \in Blocks
  BY <1>1, LastBlocksType
<1>15. ASSUME NEW i \in Positions PROVE last[1][i] = p[base + i]
  <2>1. i \in Nat /\ i <= Block
    BY <1>9, Widths
  <2>2. CASE Spills(used + 1)
    <3>1. last[1] = Marked(b, used)
      BY <1>4, <2>2
    <3>2. base + i <= e
      BY <1>1, <2>1, <2>2, Widths
    <3> QED
      BY <1>11, <3>1, <3>2
  <2>3. CASE ~ Spills(used + 1)
    <3>1. last[1] = Ended(Marked(b, used), v)
      BY <1>4, <2>3
    <3>2. i <= Room => base + i <= e
      BY <1>1, <2>1, <2>3, Widths
    <3>3. i <= Room => Marked(b, used)[i] = p[base + i]
      BY <1>11, <3>2
    <3>4. base \in Nat /\ e = base + Room
      BY <1>1, <2>3
    <3>5. Ended(Marked(b, used), v)[i] = p[base + i]
      BY <1>13, <1>14, <3>3, <3>4
    <3> QED
      BY <3>1, <3>5
  <2> QED
    BY <2>2, <2>3
<1>16. ASSUME NEW i \in Positions, c = 2 PROVE last[2][i] = p[base + Block + i]
  <2>1. Spills(used + 1) /\ e = (base + Block) + Room /\ base + Block \in Nat
    BY <1>1, <1>16, Widths
  <2>2. last[2] = Ended(NoBytes, v)
    BY <1>4, <2>1
  <2>3. i <= Room => NoBytes[i] = p[(base + Block) + i]
    <3>1. i <= Room => /\ Block + i \in Int /\ used + 1 < Block + i /\ base + (Block + i) <= e
                       /\ base + (Block + i) = (base + Block) + i
      BY <1>1, <1>9, <2>1, Widths
    <3>2. NoBytes[i] = 0
      BY DEF NoBytes
    <3> QED
      BY <1>10, <3>1, <3>2
  <2> QED
    BY <1>13, <1>14, <2>1, <2>2, <2>3
<1>17. ASSUME NEW j \in 1 .. k + c, NEW i \in Positions PROVE whole[j][i] = other[j][i]
  <2>1. j \in 1 .. k \/ j = k + 1 \/ (c = 2 /\ j = k + 2)
    <3>1. \A l \in 1 .. k + 1 : l \in 1 .. k \/ l = k + 1
      OBVIOUS
    <3>2. \A l \in 1 .. k + 2 : l \in 1 .. k \/ l = k + 1 \/ l = k + 2
      OBVIOUS
    <3> QED
      BY <1>1, <3>1, <3>2, Zenon
  <2> QED
    BY <1>7, <1>8, <1>15, <1>16, <2>1
<1>18. whole = other
  BY <1>1, <1>5, <1>6, <1>17, SameBlocks
<1> QED
  BY <1>18 DEF whole, other, p, last, v

-----------------------------------------------------------------------------
\* Where in Stream the current message begins, how much of Stream is absorbed, and how
\* much compressed.
Begin == IF digest = NoDigest THEN start ELSE taken
Absorbed == taken - Len(data)
Compressed == Begin + (Block * Len(state))

\* What is counted, what update() has still to absorb, the block buffer and the blocks
\* compressed are the parts of Stream from where the message begins.
StreamHolds ==
    /\ Absorbed = Compressed + buffered
    /\ total = (taken - Begin) % WordSize
    /\ \A i \in 1 .. Len(data) : data[i] = Stream[Absorbed + i]
    /\ \A i \in 1 .. buffered : buffer[i] = Stream[Compressed + i]
    /\ \A j \in 1 .. Len(state), i \in Positions :
          state[j][i] = Stream[Begin + (((j - 1) * Block) + i)]

ShaInv == ShaType /\ StreamHolds /\ DigestIsOfMessage

LEMMA Places ==
    ASSUME ShaType
    PROVE  /\ Begin \in 0 .. taken /\ taken \in Nat /\ taken <= Len(Stream)
           /\ Len(data) \in Nat /\ Len(state) \in Nat /\ Block * Len(state) \in Nat
           /\ Absorbed \in Int /\ Compressed \in Nat
           /\ buffered \in Nat /\ buffered < Block /\ Block \in Nat
<1>1. Len(data) \in Nat /\ Len(state) \in Nat /\ Block * Len(state) \in Nat
  BY Widths DEF ShaType
<1>2. Begin \in 0 .. taken /\ taken \in Nat /\ taken <= Len(Stream)
  BY Widths DEF ShaType, Begin
<1>3. buffered \in Nat /\ buffered < Block /\ Block \in Nat
  BY Widths DEF ShaType
<1> QED
  BY <1>1, <1>2, <1>3 DEF Absorbed, Compressed

LEMMA BeginUpdateKeeps ==
    ASSUME ShaInv, NEW n \in Nat, BeginUpdate(n)
    PROVE  ShaInv'
<1>1. /\ data = <<>> /\ n \in 0 .. Len(Stream) - taken
      /\ total' = (total + n) % WordSize /\ data' = SubSeq(Stream, taken + 1, taken + n)
      /\ taken' = taken + n /\ start' = Begin /\ digest' = NoDigest
      /\ state' = state /\ buffer' = buffer /\ buffered' = buffered
  BY Zenon DEF BeginUpdate, Begin
<1>2. /\ ShaType /\ Begin \in 0 .. taken /\ taken \in Nat /\ taken + n <= Len(Stream)
      /\ taken + n \in Nat /\ Len(data) = 0
  <2>1. ShaType /\ Begin \in 0 .. taken /\ taken \in Nat /\ Len(Stream) \in Nat
    BY Places, Widths DEF ShaInv
  <2>2. Len(data) = 0
    BY <1>1
  <2>3. \A t, l \in Nat : n \in 0 .. l - t => t + n <= l /\ t + n \in Nat
    OBVIOUS
  <2> QED
    BY <1>1, <2>1, <2>2, <2>3, Zenon
<1>3. /\ data' \in Seq(Bytes) /\ Len(data') = n
      /\ \A i \in 1 .. n : data'[i] = Stream[taken + i]
  <2> DEFINE z == taken + n
  <2>1. z \in Nat /\ taken <= z /\ z <= Len(Stream) /\ z - taken = n
    BY <1>2
  <2> HIDE DEF z
  <2>2. data' = SubSeq(Stream, taken + 1, z)
    BY <1>1 DEF z
  <2>3. /\ data' \in Seq(Bytes) /\ Len(data') = z - taken
        /\ \A i \in 1 .. z - taken : data'[i] = Stream[taken + i]
    BY <1>2, <2>1, <2>2, Widths, PartIs
  <2> QED
    BY <2>1, <2>3
<1>4. Begin' = Begin /\ Compressed' = Compressed /\ Absorbed' = taken /\ Absorbed = taken
  BY <1>1, <1>2, <1>3 DEF Begin, Compressed, Absorbed
<1>5. total' = (taken' - Begin') % WordSize
  <2> DEFINE r == taken - Begin
  <2>1. r \in Int /\ n \in Int /\ total = r % WordSize /\ r + n = taken' - Begin'
    BY <1>1, <1>2, <1>4 DEF ShaInv, StreamHolds
  <2> HIDE DEF r
  <2>2. ((r % WordSize) + n) % WordSize = (r + n) % WordSize
    BY <2>1, Widths, RemainderAdds
  <2> QED
    BY <1>1, <2>1, <2>2
<1>6. StreamHolds'
  BY <1>1, <1>3, <1>4, <1>5 DEF ShaInv, StreamHolds
<1>7. ShaType'
  <2>1. total' \in 0 .. WordSize - 1
    BY <1>1, <1>2, Widths DEF ShaType
  <2>2. digest' \in Seq(Blocks)
    BY <1>1 DEF NoDigest
  <2>3. taken' \in 0 .. Len(Stream) /\ start' \in 0 .. taken'
    BY <1>1, <1>2, Widths
  <2> QED
    BY <1>1, <1>2, <1>3, <2>1, <2>2, <2>3 DEF ShaType
<1>8. DigestIsOfMessage'
  BY <1>1 DEF DigestIsOfMessage
<1> QED
  BY <1>6, <1>7, <1>8 DEF ShaInv

LEMMA FillKeeps ==
    ASSUME ShaInv, Fill
    PROVE  ShaInv'
<1> DEFINE take == Smaller(Block - buffered, Len(data))
           used == buffered + take
           filled == [i \in Positions |->
                        IF buffered < i /\ i <= buffered + take THEN data[i - buffered]
                        ELSE buffer[i]]
<1>1. /\ data # <<>> /\ buffer' = filled /\ data' = SubSeq(data, take + 1, Len(data))
      /\ IF used = Block THEN state' = Append(state, filled) /\ buffered' = 0
         ELSE buffered' = used /\ state' = state
      /\ total' = total /\ start' = start /\ taken' = taken /\ digest' = digest
  BY Zenon DEF Fill, BlockFull
<1>2. ShaType /\ StreamHolds
  BY DEF ShaInv
<1>3. Len(data) \in Nat \ {0} /\ data \in Seq(Bytes) /\ Block \in Nat \ {0}
      /\ buffered \in 0 .. Block - 1 /\ buffer \in Blocks
  BY <1>1, <1>2, Widths DEF ShaType
<1>4. /\ take \in Nat \ {0} /\ take <= Len(data) /\ used \in Nat /\ used <= Block
      /\ used = buffered + take
  BY <1>3 DEF Smaller
<1> HIDE DEF take
<1>5. /\ data' \in Seq(Bytes) /\ Len(data') = Len(data) - take
      /\ \A i \in 1 .. Len(data) - take : data'[i] = data[take + i]
  BY <1>1, <1>3, <1>4, PartIs
<1>6. filled \in Blocks
  <2>1. \A i \in Positions : buffered < i /\ i <= buffered + take => data[i - buffered] \in Bytes
    <3>1. \A i \in Positions : buffered < i /\ i <= buffered + take => i - buffered \in 1 .. Len(data)
      BY <1>3, <1>4 DEF Positions
    <3> QED
      BY <1>3, <3>1
  <2> QED
    BY <1>3, <2>1 DEF Blocks
<1>7. \A i \in 1 .. used : filled[i] = Stream[Compressed + i]
  <2> SUFFICES ASSUME NEW i \in 1 .. used PROVE filled[i] = Stream[Compressed + i]
    OBVIOUS
  <2>1. i \in Positions /\ i \in Nat /\ 1 <= i /\ i <= buffered + take
    BY <1>3, <1>4 DEF Positions
  <2>2. CASE i <= buffered
    <3>1. filled[i] = buffer[i] /\ i \in 1 .. buffered
      BY <1>3, <2>1, <2>2
    <3> QED
      BY <1>2, <3>1 DEF StreamHolds
  <2>3. CASE buffered < i
    <3>1. filled[i] = data[i - buffered] /\ i - buffered \in 1 .. Len(data)
      BY <1>3, <1>4, <2>1, <2>3
    <3>2. data[i - buffered] = Stream[Absorbed + (i - buffered)]
      BY <1>2, <3>1 DEF StreamHolds
    <3>3. Absorbed + (i - buffered) = Compressed + i
      <4>1. Absorbed = Compressed + buffered
        BY <1>2 DEF StreamHolds
      <4>2. Compressed \in Int /\ buffered \in Int /\ i \in Int
        BY <1>2, <2>1, Places
      <4>3. \A x, y, z \in Int : (x + y) + (z - y) = x + z
        OBVIOUS
      <4> QED
        BY <4>1, <4>2, <4>3, Zenon
    <3> QED
      BY <3>1, <3>2, <3>3
  <2> QED
    BY <1>3, <2>1, <2>2, <2>3
<1> HIDE DEF filled, used
<1>8. Begin' = Begin /\ Absorbed' = Absorbed + take /\ Absorbed + take = Compressed + used
  <2>1. Begin' = Begin
    BY <1>1 DEF Begin
  <2>2. Absorbed = Compressed + buffered /\ buffered \in Nat /\ Compressed \in Nat /\ take \in Nat
    BY <1>2, <1>4, Places DEF StreamHolds
  <2>3. Absorbed + take = Compressed + used
    BY <1>4, <2>2
  <2>4. Absorbed' = Absorbed + take
    <3>1. taken \in Int /\ Len(data) \in Int /\ take \in Int
      BY <1>2, <1>4, Places
    <3>2. Absorbed' = taken - (Len(data) - take)
      BY <1>1, <1>5 DEF Absorbed
    <3>3. \A t, l, x \in Int : t - (l - x) = (t - l) + x
      OBVIOUS
    <3> QED
      BY <3>1, <3>2, <3>3, Zenon DEF Absorbed
  <2> QED
    BY <2>1, <2>3, <2>4
<1>9. \A i \in 1 .. Len(data') : data'[i] = Stream[Absorbed' + i]
  <2> SUFFICES ASSUME NEW i \in 1 .. Len(data) - take PROVE data'[i] = Stream[Absorbed' + i]
    BY <1>5
  <2>1. take + i \in 1 .. Len(data)
    BY <1>3, <1>4
  <2>2. data[take + i] = Stream[Absorbed + (take + i)]
    BY <1>2, <2>1 DEF StreamHolds
  <2>3. Absorbed + (take + i) = Absorbed' + i
    <3>1. Absorbed \in Int
      BY <1>2, Places
    <3> QED
      BY <1>4, <1>8, <3>1
  <2> QED
    BY <1>5, <2>2, <2>3
<1>10. CASE used = Block
  <2>1. state' = Append(state, filled) /\ buffered' = 0
    BY <1>1, <1>10
  <2>2. /\ state' \in Seq(Blocks) /\ Len(state') = Len(state) + 1
        /\ \A j \in 1 .. Len(state) : state'[j] = state[j]
        /\ state'[Len(state) + 1] = filled
    BY <1>2, <1>6, <2>1 DEF ShaType
  <2>3. Compressed' = Compressed + Block
    BY <1>2, <1>3, <1>8, <2>2, Places DEF Compressed
  <2>4. ASSUME NEW j \in 1 .. Len(state'), NEW i \in Positions
        PROVE  state'[j][i] = Stream[Begin' + (((j - 1) * Block) + i)]
    <3>1. CASE j \in 1 .. Len(state)
      BY <1>2, <1>8, <2>2, <3>1 DEF StreamHolds
    <3>2. CASE j = Len(state) + 1
      <4>1. i \in 1 .. used /\ state'[j][i] = filled[i]
        BY <1>10, <2>2, <3>2 DEF Positions
      <4>2. Begin' + (((j - 1) * Block) + i) = Compressed + i
        <5>1. /\ Begin \in Int /\ Len(state) \in Nat /\ Block \in Nat /\ i \in Int
              /\ Block * Len(state) \in Int
          BY <1>2, <4>1, Places DEF Positions
        <5>2. (j - 1) * Block = Block * Len(state)
          BY <3>2, <5>1
        <5>3. \A x, y, z \in Int : x + (y + z) = (x + y) + z
          OBVIOUS
        <5>4. Begin + ((Block * Len(state)) + i) = Compressed + i
          BY <5>1, <5>3, Zenon DEF Compressed
        <5> QED
          BY <1>8, <5>2, <5>4, Zenon
      <4> QED
        BY <1>7, <4>1, <4>2
    <3>3. j \in 1 .. Len(state) \/ j = Len(state) + 1
      BY <1>2, <2>2, Places
    <3> QED
      BY <3>1, <3>2, <3>3
  <2>5. StreamHolds'
    <3>1. Absorbed' = Compressed' + buffered'
      BY <1>2, <1>3, <1>8, <1>10, <2>1, <2>3, Places
    <3>2. total' = (taken' - Begin') % WordSize
      BY <1>1, <1>2, <1>8 DEF StreamHolds
    <3>3. \A i \in 1 .. buffered' : buffer'[i] = Stream[Compressed' + i]
      BY <2>1
    <3> QED
      BY <1>9, <2>4, <3>1, <3>2, <3>3 DEF StreamHolds
  <2>6. ShaType'
    BY <1>1, <1>2, <1>3, <1>5, <1>6, <2>1, <2>2 DEF ShaType
  <2> QED
    BY <1>1, <2>5, <2>6 DEF ShaInv, DigestIsOfMessage
<1>11. CASE used # Block
  <2>1. state' = state /\ buffered' = used /\ buffer' = filled /\ used \in 0 .. Block - 1
    BY <1>1, <1>3, <1>4, <1>11
  <2>2. Compressed' = Compressed
    BY <1>8, <2>1 DEF Compressed
  <2>3. StreamHolds'
    BY <1>1, <1>2, <1>7, <1>8, <1>9, <2>1, <2>2 DEF StreamHolds
  <2>4. ShaType'
    BY <1>1, <1>2, <1>5, <1>6, <2>1 DEF ShaType
  <2> QED
    BY <1>1, <2>3, <2>4 DEF ShaInv, DigestIsOfMessage
<1> QED
  BY <1>10, <1>11

LEMMA FinishKeeps ==
    ASSUME ShaInv, Finish
    PROVE  ShaInv'
<1> DEFINE k == Len(state)
           base == Block * k
           m == SubSeq(Stream, Begin + 1, taken)
           v == (8 * total) % WordSize
           last == LastBlocks(buffer, buffered, v)
<1>1. /\ data = <<>> /\ data' = <<>> /\ state' = <<>> /\ total' = 0 /\ buffered' = 0
      /\ start' = Begin /\ taken' = taken
  BY Zenon DEF Finish, Begin
<1>2. digest' = state \o last
  BY Zenon DEF Finish, LastBlocks, Marked, Ended, NoBytes
<1>3. buffer' = Ended(IF Spills(buffered + 1) THEN NoBytes ELSE Marked(buffer, buffered), v)
  BY Zenon DEF Finish, Marked, Ended, NoBytes
<1>4. ShaType /\ StreamHolds
  BY DEF ShaInv
<1>5. /\ Begin \in 0 .. taken /\ taken \in Nat /\ taken <= Len(Stream)
      /\ k \in Nat /\ base \in Nat /\ base = Block * k /\ buffered \in 0 .. Block - 1
      /\ taken - Begin = base + buffered
  <2>1. Len(data) = 0
    BY <1>1
  <2>2. taken - 0 = (Begin + base) + buffered
    BY <1>4, <2>1 DEF StreamHolds, Absorbed, Compressed
  <2>3. /\ Begin \in 0 .. taken /\ taken \in Nat /\ taken <= Len(Stream)
        /\ k \in Nat /\ base \in Nat /\ buffered \in 0 .. Block - 1
    BY <1>4, Places DEF ShaType
  <2> HIDE DEF k, base
  <2>4. taken - Begin = base + buffered
    BY <2>2, <2>3
  <2> QED
    BY <2>3, <2>4 DEF base
<1>6. v \in Nat
  BY <1>4, Widths DEF ShaType
<1>7. buffer \in Blocks
  BY <1>4 DEF ShaType
<1> HIDE DEF v, base, k
<1>8. /\ Row(Blocks, last, IF Spills(buffered + 1) THEN 2 ELSE 1) /\ buffer' \in Blocks
  BY <1>3, <1>5, <1>6, <1>7, LastBlocksType
<1>9. digest' \in Seq(Blocks) /\ digest' # NoDigest
  <2>1. state \in Seq(Blocks) /\ last \in Seq(Blocks) /\ Len(last) \in {1, 2}
    BY <1>4, <1>8 DEF Row, ShaType
  <2> HIDE DEF last
  <2>2. digest' \in Seq(Blocks) /\ Len(digest') = Len(state) + Len(last) /\ Len(state) \in Nat
    BY <1>2, <2>1, ConcatProperties
  <2> QED
    BY <2>1, <2>2 DEF NoDigest
<1> HIDE DEF last
<1>10. ShaType'
  BY <1>1, <1>5, <1>8, <1>9, Widths DEF ShaType
<1>11. StreamHolds'
  <2>1. Begin' = taken /\ Absorbed' = taken /\ Compressed' = taken
    BY <1>1, <1>5, <1>9, Widths DEF Begin, Absorbed, Compressed
  <2>2. total' = (taken' - Begin') % WordSize
    BY <1>1, <1>5, <2>1, Widths
  <2> QED
    BY <1>1, <1>5, <2>1, <2>2 DEF StreamHolds
<1>12. ASSUME 8 * (taken - Begin) < WordSize PROVE digest' = BlocksOf(Padded(m))
  <2>1. total = base + buffered /\ v = 8 * (base + buffered)
    <3> DEFINE n == base + buffered
    <3>0. n \in Nat /\ n = taken - Begin
      BY <1>5, Widths
    <3>4. total = n % WordSize
      BY <1>4, <3>0 DEF StreamHolds
    <3>5. 8 * n < WordSize
      BY <1>12, <3>0
    <3> HIDE DEF n
    <3>1. n \in Nat /\ n < WordSize /\ 8 * n \in Nat /\ 8 * n < WordSize /\ total = n % WordSize
      BY <3>0, <3>4, <3>5, Widths
    <3> HIDE DEF n
    <3>2. total = n /\ (8 * n) % WordSize = 8 * n
      BY <3>1, Widths, SmallRemainder
    <3> QED
      BY <3>2 DEF n, v
  <2>2. m \in Seq(Bytes) /\ Len(m) = base + buffered
        /\ \A i \in 1 .. base + buffered : m[i] = Stream[Begin + i]
    <3>1. /\ m \in Seq(Bytes) /\ Len(m) = taken - Begin
          /\ \A i \in 1 .. taken - Begin : m[i] = Stream[Begin + i]
      BY <1>5, Widths, PartIs
    <3> QED
      BY <1>5, <3>1
  <2> HIDE DEF m
  <2>3. Row(Blocks, state, k)
    BY <1>4 DEF Row, ShaType, k
  <2>4. Cuts(state, m, k)
    <3> SUFFICES ASSUME NEW j \in 1 .. k, NEW i \in Positions
                 PROVE  state[j][i] = m[((j - 1) * Block) + i]
      BY DEF Cuts
    <3> DEFINE at == ((j - 1) * Block) + i
    <3>1. at \in 1 .. base + buffered
      <4> DEFINE from == (j - 1) * Block
      <4>1. from \in Nat /\ from + Block <= base /\ i \in 1 .. Block
        BY <1>5, BlocksInOrder DEF Positions
      <4> HIDE DEF from
      <4>2. from + i \in 1 .. base + buffered
        <5>1. base \in Nat /\ Block \in Nat /\ buffered \in Nat
          BY <1>5, Widths
        <5> QED
          BY <4>1, <5>1
      <4> QED
        BY <4>2, Zenon DEF from
    <3>2. state[j][i] = Stream[Begin + at]
      BY <1>4 DEF StreamHolds, k
    <3> HIDE DEF at
    <3> QED
      BY <2>2, <3>1, <3>2 DEF at
  <2>5. Holds(buffer, m, base, buffered)
    <3> SUFFICES ASSUME NEW i \in 1 .. buffered PROVE buffer[i] = m[base + i]
      BY DEF Holds
    <3>1. buffer[i] = Stream[(Begin + base) + i]
      BY <1>4 DEF StreamHolds, Compressed, base, k
    <3>2. base + i \in 1 .. base + buffered /\ (Begin + base) + i = Begin + (base + i)
      BY <1>5
    <3> QED
      BY <2>2, <3>1, <3>2
  <2>6. Joined(state, LastBlocks(buffer, buffered, 8 * (base + buffered))) = BlocksOf(Padded(m))
    <3>1. m \in Seq(Bytes) /\ k \in Nat /\ buffered \in 0 .. Block - 1
          /\ base = Block * k /\ Len(m) = base + buffered /\ buffer \in Blocks
      BY <1>5, <1>7, <2>2
    <3> QED
      BY <2>3, <2>4, <2>5, <3>1, PaddedBlocks
  <2> QED
    BY <1>2, <2>1, <2>6 DEF last, Joined
<1>13. DigestIsOfMessage'
  <2>1. (BlocksOf(Padded(SubSeq(Stream, start + 1, taken))))' = BlocksOf(Padded(m))
    BY <1>1 DEF BlocksOf, Padded
  <2> QED
    BY <1>1, <1>12, <2>1, Zenon DEF DigestIsOfMessage
<1> QED
  BY <1>10, <1>11, <1>13 DEF ShaInv

LEMMA ShaUntouched ==
    ASSUME ShaInv, UNCHANGED shaVars PROVE ShaInv'
BY DEF ShaInv, shaVars, ShaType, StreamHolds, DigestIsOfMessage, Begin, Absorbed, Compressed

LEMMA ShaStarts == ShaInit => ShaInv
<1> SUFFICES ASSUME ShaInit PROVE ShaInv
  OBVIOUS
<1>1. /\ state = <<>> /\ total = 0 /\ buffered = 0 /\ data = <<>> /\ start = 0 /\ taken = 0
      /\ digest = NoDigest /\ digest = <<>> /\ buffer \in Blocks
  BY Widths DEF ShaInit, NoDigest, Blocks
<1>2. ShaType
  BY <1>1, Widths DEF ShaType
<1>3. Begin = 0 /\ Absorbed = 0 /\ Compressed = 0
  <2>1. Len(data) = 0 /\ Len(state) = 0 /\ Block * 0 = 0
    BY <1>1, Widths
  <2>2. Begin = 0
    BY <1>1, Zenon DEF Begin
  <2>3. Absorbed = 0
    <3>1. 0 - 0 = 0
      OBVIOUS
    <3> QED
      BY <1>1, <2>1, <3>1, Zenon DEF Absorbed
  <2> QED
    BY <1>1, <2>1, <2>2, <2>3 DEF Compressed
<1>4. 0 % WordSize = 0
  BY Widths
<1>5. StreamHolds
  BY <1>1, <1>3, <1>4 DEF StreamHolds
<1> QED
  BY <1>1, <1>2, <1>5 DEF ShaInv, DigestIsOfMessage

\* Every other action of the program leaves the hasher alone.
LEMMA ShaNextKeeps ==
    ASSUME ShaInv, [Next]_vars PROVE ShaInv'
<1>1. ASSUME ShaStep PROVE ShaInv'
  BY <1>1, BeginUpdateKeeps, FillKeeps, FinishKeeps DEF ShaStep
<1>2. ASSUME ~ ShaStep, [Next]_vars PROVE UNCHANGED shaVars
  BY <1>2 DEF Next, vars, UseResults, Access, LeaveNoexcept, Hash, HashTooLong,
              FailElsewhere, HandleFailure
<1> QED
  BY <1>1, <1>2, ShaUntouched

\* However a message is cut into chunks, whatever was hashed before it and wherever in a
\* block it ends, the digest is of the blocks of the message's padded form
\* (hashing_sha256.hpp:133-197): DigestIsOfMessage, for every stream and all widths.
THEOREM DigestsAreOfMessages == Spec => []DigestIsOfMessage
<1>1. Init => ShaInv
  BY ShaStarts DEF Init
<1>2. ShaInv => DigestIsOfMessage
  BY DEF ShaInv
<1> QED
  BY <1>1, <1>2, ShaNextKeeps, PTL DEF Spec

-----------------------------------------------------------------------------
(* The types of the whole program, with assertions or without.              *)

\* A cell that an exception interrupted is not intact: it holds nothing and claims
\* something.
CellsHold ==
    /\ ResultType
    /\ \A c \in interrupted : storage[c] = "none" /\ Claimed(c) # "none"

LEMMA CellsKept ==
    ASSUME CellsHold, ResultStep PROVE CellsHold'
<1>1. ASSUME NEW c \in Cells, NEW flag \in BOOLEAN, Construct(c, flag)
      PROVE  CellsHold'
  <2>1. c \notin interrupted
    BY <1>1 DEF Construct, CellsHold, ResultType
  <2>2. ResultType'
    BY <1>1, AlternativeType DEF Construct, CellsHold, ResultType, Lives
  <2>3. \A d \in interrupted' : storage'[d] = "none" /\ Claimed(d)' # "none"
    BY <1>1, <2>1 DEF Construct, CellsHold, ResultType, Claimed, Alternative
  <2> QED
    BY <2>2, <2>3 DEF CellsHold
<1>2. ASSUME NEW c \in Cells, NEW d \in Cells, ConstructFrom(c, d)
      PROVE  CellsHold'
  <2>1. hasValue[d] \in BOOLEAN
    BY DEF CellsHold, ResultType
  <2> QED
    BY <1>1, <1>2, <2>1 DEF ConstructFrom
<1>3. ASSUME NEW c \in Cells, NEW d \in Cells, Assign(c, d)
      PROVE  CellsHold'
  <2>1. c \notin interrupted /\ Claimed(d) \in {"value", "reason", "none"}
    BY <1>3, AlternativeType DEF Assign, BeginAssign, CellsHold, ResultType, Intact, Claimed
  <2>2. ResultType'
    BY <1>3, <2>1 DEF Assign, BeginAssign, CellsHold, ResultType, Lives, Destroyed
  <2>3. \A e \in interrupted' : storage'[e] = "none" /\ Claimed(e)' # "none"
    BY <1>3, <2>1 DEF Assign, BeginAssign, CellsHold, ResultType, Claimed, Alternative
  <2> QED
    BY <2>2, <2>3 DEF CellsHold
<1>4. ASSUME NEW c \in Cells, NEW d \in Cells, AssignThrows(c, d)
      PROVE  CellsHold'
  <2>1. Claimed(d) # "none"
    BY <1>4, ThrowingAssumption DEF AssignThrows
  <2>2. ResultType'
    BY <1>4 DEF AssignThrows, BeginAssign, CellsHold, ResultType, Lives, Destroyed
  <2>3. \A e \in interrupted' : storage'[e] = "none" /\ Claimed(e)' # "none"
    BY <1>4, <2>1 DEF AssignThrows, BeginAssign, CellsHold, ResultType, Claimed, Alternative
  <2> QED
    BY <2>2, <2>3 DEF CellsHold
<1>5. ASSUME NEW c \in Cells, EndScope(c)
      PROVE  CellsHold'
  <2>1. c \notin interrupted
    BY <1>5 DEF EndScope, CellsHold, Intact
  <2>2. ResultType'
    BY <1>5, <2>1 DEF EndScope, CellsHold, ResultType, Lives
  <2>3. \A d \in interrupted' : storage'[d] = "none" /\ Claimed(d)' # "none"
    BY <1>5, <2>1 DEF EndScope, CellsHold, ResultType, Claimed, Alternative
  <2> QED
    BY <2>2, <2>3 DEF CellsHold
<1>6. ASSUME NEW c \in Cells, UseBroken(c)
      PROVE  CellsHold'
  BY <1>6 DEF UseBroken, CellsHold, ResultType, Claimed, Alternative
<1> QED
  BY <1>1, <1>2, <1>3, <1>4, <1>5, <1>6 DEF ResultStep

LEMMA CellsNextKept ==
    ASSUME CellsHold, [Next]_vars PROVE CellsHold'
<1>1. CASE UseResults
  BY <1>1, CellsKept DEF UseResults
<1>2. ASSUME NEW c \in Cells, UseOther(c) PROVE CellsHold'
  BY <1>2 DEF UseOther, CellsHold, ResultType, Claimed, Alternative
<1>3. CASE UNCHANGED resultVars
  BY <1>3 DEF resultVars, CellsHold, ResultType, Claimed, Alternative
<1> QED
  BY <1>1, <1>2, <1>3
  DEF Next, vars, Access, LeaveNoexcept, AssignTerminates, Hash, HashTooLong,
      FailElsewhere, HandleFailure, resultVars

\* The variables of the Results, the hasher and the failure handler keep their types,
\* whatever throws, fails or is hashed, in a build with assertions and in one without:
\* TypeOK, for any number of cells and threads and all widths.
THEOREM ProgramTyped == Spec => []TypeOK
<1>1. Init => CellsHold
  BY InitHolds DEF Lifetimes, ScopesHold, CellsHold, Init, ResultInit
<1>2. Init => ShaInv /\ FaultInv
  BY ShaStarts, FaultStarts DEF Init
<1>3. CellsHold /\ ShaInv /\ FaultInv => TypeOK
  BY DEF CellsHold, ShaInv, FaultInv, TypeOK
<1> QED
  BY <1>1, <1>2, <1>3, CellsNextKept, ShaNextKeeps, FaultNextKeeps, PTL DEF Spec
=============================================================================
