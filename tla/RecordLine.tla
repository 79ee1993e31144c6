----------------------------- MODULE RecordLine -----------------------------
(***************************************************************************)
(* How write_record(), src/diag/service.cpp, renders one record: the       *)
(* message is escaped into a buffer of twice its bound, then framed into a *)
(* line buffer.  Both buffers are bounded and both cut what does not fit.  *)
(*                                                                         *)
(* A character is what its escape makes of it: "plain" stays, "short" gets *)
(* a backslash (quote, backslash, newline, return, tab), any other control *)
(* character becomes a backslash, u and four digits.                       *)
(***************************************************************************)
EXTENDS Integers, Sequences, SequencesExt

CONSTANTS
    MaxMessageBytes,    \* max_message_bytes, ring.hpp:27
    LineBytes,          \* sizeof(line)
    Framings            \* how many bytes of a line are not its message

ASSUME LineAssumption ==
    /\ MaxMessageBytes \in Nat \ {0} /\ LineBytes \in Nat \ {0}
    /\ Framings \subseteq Nat \ {0}

Characters == {"plain", "short", "control"}
Width == [plain |-> 1, short |-> 2, control |-> 6]
EscapedSize == 2 * MaxMessageBytes + 1

\* emit() keeps at most this much of a text (service.cpp:228-229).
Messages == SeqOf(Characters, MaxMessageBytes - 1)

\* Whether the loop still takes a character when `used` bytes are escaped.
\* Mutant: the terminator is not thought of.
HasRoom_NoTerminator(used, c) ==
    /\ used + 2 < EscapedSize
    /\ c = "control" => used + 6 <= EscapedSize
HasRoom(used, c) ==
    /\ used + 2 < EscapedSize
    /\ c = "control" => used + 6 < EscapedSize

\* The escape loop after k characters: escaped_len, and how many went into it.  The
\* first character without room is the last that is looked at.
Escaped(message) ==
    LET loop[k \in 0 .. Len(message)] ==
            IF k = 0 THEN [used |-> 0, taken |-> 0]
            ELSE LET before == loop[k - 1] c == message[k] IN
                 IF before.taken = k - 1 /\ HasRoom(before.used, c)
                 THEN [used |-> before.used + Width[c], taken |-> k] ELSE before
    IN  loop[Len(message)]

\* n, the bytes snprintf left in `line`.
LineLength(framing, message) ==
    LET n == framing + Escaped(message).used
    IN  IF n >= LineBytes THEN LineBytes - 1 ELSE n

LengthsOf(messages) == {LineLength(f, m) : f \in Framings, m \in messages}
LineLengths == LengthsOf(Messages)

-----------------------------------------------------------------------------
EscapedWidth(message) ==
    LET sum[k \in 0 .. Len(message)] ==
            IF k = 0 THEN 0 ELSE sum[k - 1] + Width[message[k]]
    IN  sum[Len(message)]

\* Whole characters from the beginning of the message, a byte left for the
\* terminator, and the end dropped only behind a control character.
FaithfulEscape(message, escaped) ==
    /\ escaped.used = EscapedWidth(SubSeq(message, 1, escaped.taken))
    /\ escaped.used < EscapedSize
    /\ \/ escaped.taken = Len(message)
       \/ "control" \in Range(message) /\ escaped.used + Width["control"] >= EscapedSize

BadlyEscaped == {message \in Messages : ~ FaithfulEscape(message, Escaped(message))}
BadLengths == LengthsOf(BadlyEscaped)
=============================================================================
