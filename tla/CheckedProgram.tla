--------------------------- MODULE CheckedProgram ---------------------------
(***************************************************************************)
(* A program that uses Results and hashes a stream on its main thread,     *)
(* while other threads, or the C runtime under any of them, may fail.  The *)
(* parts meet where the library checks its caller: a wrong accessor of a   *)
(* Result and a message too long to hash end in contract_fail(), and an    *)
(* exception that may not leave an assignment ends in std::terminate.      *)
(***************************************************************************)
EXTENDS ResultCells, Sha256Stream, FailFast

CONSTANT Main           \* the main thread

ASSUME MainAssumption == Main \in Threads

vars == <<resultVars, shaVars, faultVars>>

\* The main thread executes the program's own code.
MainRuns == Alive /\ fpc[Main] = "ok" /\ ~ undefined

\* value(), which a void Result has not, and reason(), and the assertion in them.
\* Mutant: the accessor asserts the opposite flag.
Granted_Flipped(c, flag) == hasValue[c] # flag
Granted(c, flag) == hasValue[c] = flag

Access(c, flag) ==
    /\ MainRuns /\ c \in inScope /\ Intact(c) /\ ~ (isVoid /\ flag)
    /\ IF Granted(c, flag) THEN UNCHANGED vars
       ELSE IF Asserts THEN ContractFail(Main) /\ UNCHANGED <<resultVars, shaVars>>
       ELSE UseOther(c) /\ UNCHANGED <<shaVars, faultVars>>

UseResults == MainRuns /\ ResultStep /\ UNCHANGED <<shaVars, faultVars>>

LeaveNoexcept ==
    /\ MainRuns /\ Abort(Main)
    /\ \E c, d \in Cells : AssignTerminates(c, d)
    /\ UNCHANGED shaVars

Hash == MainRuns /\ ShaStep /\ UNCHANGED <<resultVars, faultVars>>

HashTooLong ==
    /\ MainRuns /\ FinishFails /\ ContractFail(Main)
    /\ UNCHANGED <<resultVars, shaVars>>

\* A thread other than the main one breaks a contract, or a CRT call faults.
FailElsewhere(t) ==
    /\ t # Main \/ MainRuns
    /\ InvalidParameter(t) \/ (t # Main /\ ContractFail(t))
    /\ UNCHANGED <<resultVars, shaVars>>

HandleFailure(t) == Handle(t) /\ UNCHANGED <<resultVars, shaVars>>

Init == ResultInit /\ ShaInit /\ FaultInit

Next ==
    \/ UseResults \/ \E c \in Cells, flag \in BOOLEAN : Access(c, flag)
    \/ LeaveNoexcept
    \/ Hash \/ HashTooLong
    \/ \E t \in Threads : FailElsewhere(t) \/ HandleFailure(t)

Spec == Init /\ [][Next]_vars

-----------------------------------------------------------------------------
\* The variables' types.
TypeOK == ResultType /\ ShaType /\ FaultType
=============================================================================
