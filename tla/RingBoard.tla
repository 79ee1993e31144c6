----------------------------- MODULE RingBoard -----------------------------
(***************************************************************************)
(* What the crash ring promises, without its protocol: a board with one    *)
(* place per slot where records appear whole and only newer ones replace   *)
(* older ones, and inspectors that look at every place once.  A look reads *)
(* a place atomically or misses it, never in part.                         *)
(***************************************************************************)
EXTENDS Integers, FiniteSets

CONSTANTS Slots, Inspectors, WindowBound, Nothing

VARIABLES
    board,      \* board[i]: the record in place i, or Nothing
    pass        \* pass[p]: the inspector's last pass over the board

vars == <<board, pass>>

\* The n newest records of a set of records with distinct sequences.
NewestOf(recs, n) ==
    {r \in recs : Cardinality({q \in recs : q.sequence > r.sequence}) < n}

\* What a pass has come to once every place was looked at.
Verdict(q) ==
    IF q.todo # {} THEN "running"
    ELSE IF q.missed # 0 THEN "partial"
    ELSE IF q.found = {} THEN "empty" ELSE "valid"

Idle(p) == pass[p].status # "running"

Init ==
    /\ board = [i \in Slots |-> Nothing]
    /\ pass = [p \in Inspectors |->
                  [status |-> "empty", todo |-> Slots, window |-> 0, limit |-> 0,
                   found |-> {}, missed |-> 0]]

\* A record appears in place i; it is newer than the one it replaces.
Publish(i) ==
    LET rec == board'[i] IN
    /\ rec # Nothing /\ rec # board[i]
    /\ board' = [board EXCEPT ![i] = rec]
    /\ board[i] # Nothing => rec.sequence > board[i].sequence
    /\ UNCHANGED pass

\* A pass begins; its limit is no lower than any record on the board.
Begin(p) ==
    LET q == pass'[p] IN
    /\ Idle(p)
    /\ q.window \in 0 .. WindowBound
    /\ pass' = [pass EXCEPT ![p] =
                   [status |-> IF q.window = 0 THEN "empty" ELSE "running",
                    todo |-> Slots, window |-> q.window, limit |-> q.limit,
                    found |-> {}, missed |-> 0]]
    /\ \A i \in Slots : q.window # 0 /\ board[i] # Nothing => board[i].sequence <= q.limit
    /\ UNCHANGED board

\* Nothing was reserved when the pass began.
NothingYet(p) ==
    /\ ~ Idle(p) /\ pass[p].limit = 0 /\ pass[p].todo = Slots
    /\ pass' = [pass EXCEPT ![p].status = "empty"]
    /\ UNCHANGED board

Look(p, i, found, missed) ==
    LET q == [pass[p] EXCEPT !.todo = @ \ {i}, !.found = found, !.missed = missed]
    IN  /\ ~ Idle(p) /\ i \in pass[p].todo /\ i \notin pass'[p].todo
        /\ pass' = [pass EXCEPT ![p] = [q EXCEPT !.status = Verdict(q)]]
        /\ UNCHANGED board

See(p, i) ==
    /\ board[i] # Nothing
    /\ board[i].sequence <= pass[p].limit
    /\ Look(p, i, NewestOf(pass[p].found \cup {board[i]}, pass[p].window), pass[p].missed)

FindEmpty(p, i) == board[i] = Nothing /\ Look(p, i, pass[p].found, pass[p].missed)

Miss(p, i) == Look(p, i, pass[p].found, pass[p].missed + 1)

Next ==
    \/ \E i \in Slots : Publish(i)
    \/ \E p \in Inspectors :
          \/ Begin(p) \/ NothingYet(p)
          \/ \E i \in Slots : See(p, i) \/ FindEmpty(p, i) \/ Miss(p, i)

Spec == Init /\ [][Next]_vars
=============================================================================
