------------------------------ MODULE FailFast ------------------------------
(***************************************************************************)
(* How a process ends when something is wrong with it: contract_fail() of  *)
(* src/contracts.cpp, which the QIVEN_ASSERT, QIVEN_VERIFY and             *)
(* QIVEN_UNREACHABLE macros call, and the invalid-parameter handler of     *)
(* src/crt_failure.cpp, installed at the start of main().                  *)
(*                                                                         *)
(* Any thread may fail while others run or fail too; what the process does *)
(* ends with the first call that terminates it.  Texts are formatted into  *)
(* a local buffer and are only named here.  A debugger is not attached.    *)
(***************************************************************************)
EXTENDS Naturals, Sequences, FiniteSets, Functions

CONSTANTS
    Threads,        \* the threads of the process
    Windows         \* QIVEN_PLATFORM_WINDOWS

ASSUME WindowsAssumption == Windows \in BOOLEAN

VARIABLES
    ended,          \* how the process ended: "no" while it runs
    errors,         \* the lines standard error received, with their threads
    entered,        \* g_entered_fault_handler
    fpc,            \* where each thread is in contract_fail() or the handler
    hasStderr,      \* whether the process has a standard error to write to
    faults          \* history: CRT faults that reached the handler, counted up to two

faultVars == <<ended, errors, entered, fpc, hasStderr, faults>>

Alive == ended = "no"
Goes(t, from, to) == Alive /\ fpc[t] = from /\ fpc' = [fpc EXCEPT ![t] = to]
Line(t, text) == [thread |-> t, text |-> text]

\* WriteFile and write(): nothing is retried and no failure is looked at.
WriteStderr(t, text) == errors' = IF hasStderr THEN Append(errors, Line(t, text)) ELSE errors

\* TerminateProcess, _Exit or abort: from here on no thread runs.
Ends(how) == ended' = how /\ UNCHANGED <<errors, entered, hasStderr, faults>>

-----------------------------------------------------------------------------
(* contract_fail(): report, then end without the CRT's dialog.              *)

ContractFail(t) ==
    /\ Goes(t, "ok", "report")
    /\ UNCHANGED <<ended, errors, entered, hasStderr, faults>>

ReportViolation(t) ==
    /\ Goes(t, "report", "exit") /\ WriteStderr(t, "violation")
    /\ UNCHANGED <<ended, entered, hasStderr, faults>>

\* std::_Exit(3), or std::abort().
ExitViolated(t) ==
    /\ Goes(t, "exit", "exit") /\ Ends(IF Windows THEN "contract" ELSE "abort")

\* std::terminate, for an exception that leaves a noexcept function.
Abort(t) == Goes(t, "ok", "exit") /\ Ends("abort")

-----------------------------------------------------------------------------
(* qiven_invalid_parameter() and terminate_with_evidence().                 *)

AnotherFault == faults' = IF faults = 0 THEN 1 ELSE 2

\* The CRT calls the handler; the evidence is formatted.
InvalidParameter(t) ==
    /\ Windows /\ Goes(t, "ok", "enter")
    /\ AnotherFault
    /\ UNCHANGED <<ended, errors, entered, hasStderr>>

\* The re-entrancy guard: whoever comes second ends the process at once.
\* Mutant: the second fault also reports.
MayReport_Again == TRUE
MayReport == ~ entered

\* What comes after the guard, when GetStdHandle has no handle to offer.
FirstStep == IF hasStderr THEN "evidence" ELSE "terminate"

EnterHandler(t) ==
    /\ MayReport /\ Goes(t, "enter", FirstStep)
    /\ entered' = TRUE
    /\ UNCHANGED <<ended, errors, hasStderr, faults>>

EnterAgain(t) == ~ MayReport /\ Goes(t, "enter", "terminate") /\ Ends("crt")

WriteEvidence(t) ==
    /\ Goes(t, "evidence", "tail") /\ WriteStderr(t, "evidence")
    /\ UNCHANGED <<ended, entered, hasStderr, faults>>

WriteTail(t) ==
    /\ Goes(t, "tail", "terminate") /\ WriteStderr(t, "tail")
    /\ UNCHANGED <<ended, entered, hasStderr, faults>>

Terminate(t) == Goes(t, "terminate", "terminate") /\ Ends("crt")

\* A CRT call of the handler (snprintf, strlen) faults in its turn: while it formats the
\* evidence, before the guard, or behind it.  A second activation of the handler
\* comes to the guard; the first is never returned to.
FaultInHandler(t) ==
    /\ fpc[t] \in {"enter", "evidence", "tail"} /\ Goes(t, fpc[t], "enter")
    /\ AnotherFault
    /\ UNCHANGED <<ended, errors, entered, hasStderr>>

-----------------------------------------------------------------------------
Handle(t) ==
    \/ ReportViolation(t) \/ ExitViolated(t)
    \/ EnterHandler(t) \/ EnterAgain(t) \/ WriteEvidence(t) \/ WriteTail(t)
    \/ Terminate(t) \/ FaultInHandler(t)

FaultInit ==
    /\ ended = "no" /\ errors = <<>> /\ entered = FALSE /\ faults = 0
    /\ fpc = [t \in Threads |-> "ok"] /\ hasStderr \in BOOLEAN

FaultNext ==
    \E t \in Threads : ContractFail(t) \/ InvalidParameter(t) \/ Abort(t) \/ Handle(t)

FaultSpec == FaultInit /\ [][FaultNext]_faultVars

-----------------------------------------------------------------------------
Ends3 == {"abort", "contract", "crt"}
Texts == {"violation", "evidence", "tail"}
FaultType ==
    /\ ended \in {"no"} \cup Ends3
    /\ errors \in Seq([thread : Threads, text : Texts])
    /\ entered \in BOOLEAN /\ hasStderr \in BOOLEAN /\ faults \in 0 .. 2
    /\ fpc \in [Threads -> {"ok", "report", "exit", "enter", "evidence", "tail",
                            "terminate"}]

\* Where standard error has the lines of the CRT handler.
Evidence == {i \in DOMAIN errors : errors[i].text # "violation"}

\* Evidence is written once, however many threads fault and however often: what
\* standard error holds of it is one thread's evidence and then the same thread's
\* tail ("without another evidence attempt", crt_failure.cpp:29-31).  A process
\* that ends with the handler's exit code has written both, unless it has no
\* standard error or another fault came while the first was being reported: the
\* "evidence line" of crt_failure.hpp:8-11 is promised to a lone fault only.
EvidenceOnce ==
    /\ \A i, j \in Evidence :
          /\ errors[i].thread = errors[j].thread
          /\ i < j => errors[i].text = "evidence" /\ errors[j].text = "tail"
    /\ \A j \in Evidence : errors[j].text = "tail" => \E i \in Evidence : i < j
    /\ ended = "crt" /\ hasStderr /\ faults = 1 =>
          \E j \in Evidence : errors[j].text = "tail"
=============================================================================
