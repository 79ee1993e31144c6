----------------------------- MODULE ResultCells -----------------------------
(***************************************************************************)
(* Result<T, Reason> and its void specialization, include/qiven/result.hpp:*)
(* a flag, and a union of which the flag says which object lives in it.    *)
(*                                                                         *)
(* The cells are variables of a program that has one kind of Result.  What *)
(* an object holds is left out; what matters is when it is constructed and *)
(* destroyed, and that a copy constructor may leave with an exception      *)
(* (result.hpp:18-19).  Moves do not throw: what T and Reason must be for  *)
(* the move constructor and assignment of the primary template to exist.   *)
(***************************************************************************)
EXTENDS Integers, FiniteSets

CONSTANTS
    Cells,              \* the program's variables of a Result type
    Throwing,           \* alternatives whose copy constructor may throw
    AssignNoexcept      \* std::is_nothrow_copy_assignable_v<Reason>

ASSUME ThrowingAssumption ==
    Throwing \subseteq {"value", "reason"} /\ AssignNoexcept \in BOOLEAN

VARIABLES
    isVoid,         \* whether T is void
    inScope,        \* the cells whose lifetime has begun and not ended
    hasValue,       \* m_has_value of each cell
    storage,        \* the object in m_storage: "value", "reason" or "none"
    objects,        \* history: constructors minus destructors that ran
    interrupted,    \* history: cells whose last assignment ended with an exception
    undefined       \* history: a destructor or copy ran on an object that is not there

resultVars == <<isVoid, inScope, hasValue, storage, objects, interrupted, undefined>>

\* The object that a flag stands for; a void success carries none.
Alternative(flag) == IF ~ flag THEN "reason" ELSE IF isVoid THEN "none" ELSE "value"
Claimed(c) == Alternative(hasValue[c])
Intact(c) == storage[c] = Claimed(c)
Lives(alternative) == IF alternative = "none" THEN 0 ELSE 1

-----------------------------------------------------------------------------
\* Result(T), ok() and fail(): the object is move-constructed in place.
Construct(c, flag) ==
    /\ c \notin inScope /\ inScope' = inScope \cup {c}
    /\ hasValue' = [hasValue EXCEPT ![c] = flag]
    /\ storage' = [storage EXCEPT ![c] = Alternative(flag)]
    /\ objects' = objects + Lives(Alternative(flag))
    /\ UNCHANGED <<isVoid, interrupted, undefined>>

\* The copy and the move constructor; the source stays alive.  A copy constructor
\* that throws leaves no Result behind, and so is no step.
ConstructFrom(c, d) ==
    d \in inScope /\ Intact(d) /\ Construct(c, hasValue[d])

\* Mutant: destroy_active is forgotten.
Destroyed_Never(c, flag) == 0
Destroyed(c, flag) == Lives(Claimed(c))

\* Assignment, but to itself, which does nothing: destroy_active(), then the flag,
\* then the constructor.
BeginAssign(c, d) ==
    /\ {c, d} \subseteq inScope /\ c # d /\ Intact(c) /\ Intact(d)
    /\ hasValue' = [hasValue EXCEPT ![c] = hasValue[d]]
    /\ UNCHANGED <<isVoid, inScope, undefined>>

Assign(c, d) ==
    /\ BeginAssign(c, d)
    /\ storage' = [storage EXCEPT ![c] = Claimed(d)]
    /\ objects' = objects - Destroyed(c, hasValue[d]) + Lives(Claimed(d))
    /\ UNCHANGED interrupted

\* Whether the exception of a copy assignment reaches the caller: the void
\* specialization promises noexcept for a Reason that can be assigned without one.
\* Mutant: the primary template promises as much.
Propagates_Never == FALSE
Propagates == ~ (isVoid /\ AssignNoexcept)

AssignThrows(c, d) ==
    /\ Claimed(d) \in Throwing /\ Propagates
    /\ BeginAssign(c, d)
    /\ storage' = [storage EXCEPT ![c] = "none"]
    /\ objects' = objects - Destroyed(c, hasValue[d])
    /\ interrupted' = interrupted \cup {c}

\* Otherwise std::terminate() ends the process.
AssignTerminates(c, d) ==
    /\ Claimed(d) \in Throwing /\ ~ Propagates
    /\ {c, d} \subseteq inScope /\ c # d /\ Intact(c) /\ Intact(d)
    /\ UNCHANGED resultVars

EndScope(c) ==
    /\ c \in inScope /\ Intact(c) /\ inScope' = inScope \ {c}
    /\ hasValue' = [hasValue EXCEPT ![c] = FALSE]
    /\ storage' = [storage EXCEPT ![c] = "none"]
    /\ objects' = objects - Lives(Claimed(c))
    /\ UNCHANGED <<isVoid, interrupted, undefined>>

\* A cell without the object its flag claims can only be asked is_ok(): to assign
\* to it, copy it, reach into it or end its scope is undefined.
UseBroken(c) ==
    /\ c \in inScope /\ ~ Intact(c) /\ undefined' = TRUE
    /\ UNCHANGED <<isVoid, inScope, hasValue, storage, objects, interrupted>>

\* value() of a failure or reason() of a success, in a build without assertions.
UseOther(c) ==
    /\ c \in inScope /\ undefined' = TRUE
    /\ UNCHANGED <<isVoid, inScope, hasValue, storage, objects, interrupted>>

-----------------------------------------------------------------------------
ResultInit ==
    /\ isVoid \in BOOLEAN /\ inScope = {} /\ objects = 0
    /\ hasValue = [c \in Cells |-> FALSE] /\ storage = [c \in Cells |-> "none"]
    /\ interrupted = {} /\ undefined = FALSE

ResultStep ==
    /\ ~ undefined
    /\ \E c \in Cells :
          \/ \E flag \in BOOLEAN : Construct(c, flag)
          \/ \E d \in Cells : ConstructFrom(c, d) \/ Assign(c, d) \/ AssignThrows(c, d)
          \/ EndScope(c) \/ UseBroken(c)

ResultSpec == ResultInit /\ [][ResultStep]_resultVars

-----------------------------------------------------------------------------
ResultType ==
    /\ isVoid \in BOOLEAN /\ undefined \in BOOLEAN /\ objects \in Int
    /\ inScope \subseteq Cells /\ interrupted \subseteq inScope
    /\ hasValue \in [Cells -> BOOLEAN]
    /\ storage \in [Cells -> {"value", "reason", "none"}]

\* Through any sequence of copies, moves and assignments each Result in scope holds
\* exactly one object, the one its flag claims, and no object is lost or destroyed
\* twice - as long as no copy assignment was left by an exception.  Such a cell holds
\* nothing: its old object is destroyed, once, and the new one was never there
\* (result.hpp:93-110, 262-274, "exactly one of", result.hpp:7).
LifetimesBalance ==
    /\ \A c \in inScope : Intact(c) <=> c \notin interrupted
    /\ \A c \in interrupted : storage[c] = "none"
    /\ objects = Cardinality({c \in Cells : storage[c] # "none"})
    /\ undefined => interrupted # {}

\* A claim of the documentation that the code does not keep.

\* result.hpp:7: a Result "holds exactly one of a success value or a typed reason".
HoldsExactlyOne == \A c \in inScope : Intact(c)
=============================================================================
