---------------------------- MODULE Sha256Stream ----------------------------
(***************************************************************************)
(* SHA256Core and SHA256Hasher of include/qiven/hashing_sha256.hpp: chunks *)
(* of a message collect in a block buffer, full blocks are compressed, and *)
(* finish() pads what is left and re-arms the hasher for the next message. *)
(*                                                                         *)
(* The compression of a block is left abstract: the state is the sequence  *)
(* of the blocks compressed so far, so that equal digests mean equal       *)
(* padded messages.  The widths are parameters (in the code 64, 8, 2^64    *)
(* and 256), so that TLC meets every boundary with short messages.         *)
(***************************************************************************)
EXTENDS Integers, Sequences

CONSTANTS
    Block,          \* bytes in a block
    LengthBytes,    \* bytes of the length field
    WordSize,       \* number of values of a u64
    ByteSize,       \* number of values of a byte
    Stream,         \* the bytes the program hashes, one message after the other
    Asserts         \* QIVEN_ENABLE_ASSERTS

ASSUME WidthsAssumption ==
    /\ Block \in Nat /\ LengthBytes \in Nat /\ 0 < LengthBytes /\ LengthBytes < Block
    /\ WordSize \in Nat /\ WordSize >= 8 /\ WordSize % 8 = 0
    /\ ByteSize \in Nat /\ ByteSize >= 2
ASSUME StreamAssumption ==
    Stream \in Seq(0 .. ByteSize - 1) /\ Asserts \in BOOLEAN

VARIABLES
    state,          \* state: the blocks compressed since the initial value
    total,          \* total_bytes
    buffer,         \* buffer
    buffered,       \* how much of it is in use
    data,           \* what update() has still to absorb
    start,          \* history: where in Stream the message begins
    taken,          \* history: how much of Stream update() was given
    digest          \* the digest finish() has returned, or none

shaVars == <<state, total, buffer, buffered, data, start, taken, digest>>

Bytes == 0 .. ByteSize - 1
Positions == 1 .. Block
NoDigest == <<>>
Marker == ByteSize \div 2
Smaller(a, b) == IF a < b THEN a ELSE b

\* What a byte of the length field weighs, with so many behind it.
Weight[k \in 0 .. LengthBytes] == IF k = 0 THEN 1 ELSE ByteSize * Weight[k - 1]

\* The length field with a value, most significant byte first.
LengthField(v) == [i \in 1 .. LengthBytes |-> (v \div Weight[LengthBytes - i]) % ByteSize]

-----------------------------------------------------------------------------
\* update(): the bytes are counted, then absorbed by turns of the loop.
BeginUpdate(n) ==
    /\ data = <<>> /\ n \in 0 .. Len(Stream) - taken
    /\ total' = (total + n) % WordSize
    /\ data' = SubSeq(Stream, taken + 1, taken + n)
    /\ taken' = taken + n
    /\ start' = IF digest = NoDigest THEN start ELSE taken
    /\ digest' = NoDigest
    /\ UNCHANGED <<state, buffer, buffered>>

\* Mutant: the block is compressed one byte later.
BlockFull_Late(used) == used > Block
BlockFull(used) == used = Block

\* One turn: as much as fits goes into the buffer, and a full one is compressed.
Fill ==
    LET take == Smaller(Block - buffered, Len(data))
        filled == [i \in Positions |->
                     IF buffered < i /\ i <= buffered + take THEN data[i - buffered]
                     ELSE buffer[i]]
    IN  /\ data # <<>>
        /\ buffer' = filled
        /\ data' = SubSeq(data, take + 1, Len(data))
        /\ IF BlockFull(buffered + take)
           THEN state' = Append(state, filled) /\ buffered' = 0
           ELSE buffered' = buffered + take /\ UNCHANGED state
        /\ UNCHANGED <<total, start, taken, digest>>

\* finish() asserts that the length in bits fits its word.
LengthFits == total \div (WordSize \div 8) = 0

\* Mutant: the marker may take the last byte in front of the length field without
\* the length fitting behind it any more.
Room == Block - LengthBytes
Spills_OneLate(used) == used > Room + 1
Spills(used) == used > Room

\* finalize(): the marker, zeros up to the length field, in a further block if the
\* field is already taken, then the length, and the hasher is as good as new but
\* for what is still in its buffer.
Finish ==
    LET marked == [i \in Positions |->
                     IF i <= buffered THEN buffer[i]
                     ELSE IF i = buffered + 1 THEN Marker ELSE 0]
        zeros == [i \in Positions |-> 0]
        field == LengthField((8 * total) % WordSize)
        WithLength(b) == [i \in Positions |-> IF i <= Room THEN b[i] ELSE field[i - Room]]
        last == WithLength(IF Spills(buffered + 1) THEN zeros ELSE marked)
    IN  /\ data = <<>> /\ (Asserts => LengthFits)
        /\ digest' = state \o (IF Spills(buffered + 1) THEN <<marked, last>> ELSE <<last>>)
        /\ state' = <<>> /\ total' = 0 /\ buffered' = 0 /\ buffer' = last
        /\ start' = IF digest = NoDigest THEN start ELSE taken
        /\ UNCHANGED <<data, taken>>

\* QIVEN_ASSERT in finish() fails.
FinishFails == Asserts /\ data = <<>> /\ ~ LengthFits

-----------------------------------------------------------------------------
ShaInit ==
    /\ state = <<>> /\ total = 0 /\ buffer = [i \in Positions |-> 0] /\ buffered = 0
    /\ data = <<>> /\ start = 0 /\ taken = 0 /\ digest = NoDigest

ShaStep == (\E n \in 0 .. Len(Stream) : BeginUpdate(n)) \/ Fill \/ Finish

ShaSpec == ShaInit /\ [][ShaStep]_shaVars

-----------------------------------------------------------------------------
Blocks == [Positions -> Bytes]
ShaType ==
    /\ state \in Seq(Blocks) /\ digest \in Seq(Blocks)
    /\ total \in 0 .. WordSize - 1
    /\ buffer \in Blocks /\ buffered \in 0 .. Block - 1
    /\ data \in Seq(Bytes)
    /\ taken \in 0 .. Len(Stream) /\ start \in 0 .. taken

\* The padded message of FIPS 180-4, section 5.1.1: a marker bit, the fewest zeros
\* that leave room for the length, the length in bits; and its blocks.
Padded(m) ==
    LET zeros == (Room - 1 - Len(m)) % Block IN
    m \o <<Marker>> \o [i \in 1 .. zeros |-> 0] \o LengthField(8 * Len(m))
BlocksOf(p) == [j \in 1 .. Len(p) \div Block |-> SubSeq(p, (j - 1) * Block + 1, j * Block)]

\* However a message is cut into chunks, whatever message was hashed before it and
\* wherever in a block it ends, the hasher compresses the blocks of its padded form
\* (hashing_sha256.hpp:133-197, "re-arms the hasher for another message", line 189).
DigestIsOfMessage ==
    digest # NoDigest /\ 8 * (taken - start) < WordSize =>
        digest = BlocksOf(Padded(SubSeq(Stream, start + 1, taken)))
=============================================================================
