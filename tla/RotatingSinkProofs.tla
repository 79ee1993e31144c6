------------------------- MODULE RotatingSinkProofs -------------------------
(***************************************************************************)
(* Theorems about the rotating file sink: what the escape buffer cuts, for *)
(* every message and every bound on it; the types of the sink; how large a *)
(* generation gets and how much of a run the family retains, for every     *)
(* bound, number of generations and set of line lengths, whatever fails    *)
(* and whenever the process dies.                                          *)
(***************************************************************************)
EXTENDS RotatingSink, ArithmeticProofs

-----------------------------------------------------------------------------
(* The escape loop.  It is a recursive function of the number of characters *)
(* looked at; that there is one follows by induction on that number.        *)

After(m, before, k) ==
    IF before.taken = k - 1 /\ HasRoom(before.used, m[k])
    THEN [used |-> before.used + Width[m[k]], taken |-> k] ELSE before
Begin == [used |-> 0, taken |-> 0]

IsLoop(f, m, n) == f = [k \in 0 .. n |-> IF k = 0 THEN Begin ELSE After(m, f[k - 1], k)]
IsWidth(f, m, n) == f = [k \in 0 .. n |-> IF k = 0 THEN 0 ELSE f[k - 1] + Width[m[k]]]

LEMMA EscapedIsLoop ==
    ASSUME NEW m
    PROVE  Escaped(m) = (CHOOSE f : IsLoop(f, m, Len(m)))[Len(m)]
  BY Zenon DEF Escaped, IsLoop, After, Begin

LEMMA WidthIsSum ==
    ASSUME NEW m
    PROVE  EscapedWidth(m) = (CHOOSE f : IsWidth(f, m, Len(m)))[Len(m)]
  BY Zenon DEF EscapedWidth, IsWidth

LEMMA LoopExists ==
    ASSUME NEW m PROVE \A n \in Nat : \E f : IsLoop(f, m, n)
<1> DEFINE S == {n \in Nat : \E f : IsLoop(f, m, n)}
<1>1. 0 \in S
  <2> DEFINE f == [k \in 0 .. 0 |-> Begin]
  <2>1. IsLoop(f, m, 0)
    BY DEF IsLoop
  <2> QED
    BY <2>1
<1>2. ASSUME NEW n \in Nat, n \in S PROVE n + 1 \in S
  <2>1. PICK f : IsLoop(f, m, n)
    BY <1>2
  <2> DEFINE g == [k \in 0 .. n + 1 |-> IF k = n + 1 THEN After(m, f[n], n + 1) ELSE f[k]]
  <2>2. ASSUME NEW k \in 0 .. n + 1
        PROVE  g[k] = IF k = 0 THEN Begin ELSE After(m, g[k - 1], k)
    <3>1. CASE k = n + 1
      BY <3>1
    <3>2. CASE k # n + 1
      <4>1. k \in 0 .. n
        BY <3>2
      <4>2. f[k] = IF k = 0 THEN Begin ELSE After(m, f[k - 1], k)
        BY <2>1, <4>1 DEF IsLoop
      <4>3. g[k] = f[k] /\ (k # 0 => g[k - 1] = f[k - 1])
        BY <4>1
      <4> QED
        BY <4>2, <4>3
    <3> QED
      BY <3>1, <3>2
  <2>3. g = [k \in 0 .. n + 1 |-> g[k]]
    OBVIOUS
  <2> HIDE DEF g
  <2>4. IsLoop(g, m, n + 1)
    BY <2>2, <2>3 DEF IsLoop
  <2> QED
    BY <2>4
<1> HIDE DEF S
<1>3. \A n \in Nat : n \in S
  BY <1>1, <1>2, NatInd
<1> QED
  BY <1>3 DEF S

LEMMA WidthExists ==
    ASSUME NEW m PROVE \A n \in Nat : \E f : IsWidth(f, m, n)
<1> DEFINE S == {n \in Nat : \E f : IsWidth(f, m, n)}
<1>1. 0 \in S
  <2> DEFINE f == [k \in 0 .. 0 |-> 0]
  <2>1. IsWidth(f, m, 0)
    BY DEF IsWidth
  <2> QED
    BY <2>1
<1>2. ASSUME NEW n \in Nat, n \in S PROVE n + 1 \in S
  <2>1. PICK f : IsWidth(f, m, n)
    BY <1>2
  <2> DEFINE g == [k \in 0 .. n + 1 |-> IF k = n + 1 THEN f[n] + Width[m[n + 1]] ELSE f[k]]
  <2>2. ASSUME NEW k \in 0 .. n + 1
        PROVE  g[k] = IF k = 0 THEN 0 ELSE g[k - 1] + Width[m[k]]
    <3>1. CASE k = n + 1
      BY <3>1
    <3>2. CASE k # n + 1
      <4>1. k \in 0 .. n
        BY <3>2
      <4>2. f[k] = IF k = 0 THEN 0 ELSE f[k - 1] + Width[m[k]]
        BY <2>1, <4>1 DEF IsWidth
      <4>3. g[k] = f[k] /\ (k # 0 => g[k - 1] = f[k - 1])
        BY <4>1
      <4> QED
        BY <4>2, <4>3
    <3> QED
      BY <3>1, <3>2
  <2>3. g = [k \in 0 .. n + 1 |-> g[k]]
    OBVIOUS
  <2> HIDE DEF g
  <2>4. IsWidth(g, m, n + 1)
    BY <2>2, <2>3 DEF IsWidth
  <2> QED
    BY <2>4
<1> HIDE DEF S
<1>3. \A n \in Nat : n \in S
  BY <1>1, <1>2, NatInd
<1> QED
  BY <1>3 DEF S

LEMMA WidthsAgree ==
    ASSUME NEW m, NEW p, NEW n \in Nat, NEW j \in 0 .. n, NEW f, NEW g,
           IsWidth(f, m, n), IsWidth(g, p, j), \A i \in 1 .. j : m[i] = p[i]
    PROVE  f[j] = g[j]
<1> DEFINE S == {k \in Nat : k <= j => f[k] = g[k]}
<1>1. 0 \in S
  BY DEF IsWidth
<1>2. ASSUME NEW k \in Nat, k \in S PROVE k + 1 \in S
  <2> SUFFICES ASSUME k + 1 <= j PROVE f[k + 1] = g[k + 1]
    OBVIOUS
  <2>1. f[k + 1] = f[k] + Width[m[k + 1]] /\ g[k + 1] = g[k] + Width[p[k + 1]]
    BY DEF IsWidth
  <2>2. f[k] = g[k] /\ m[k + 1] = p[k + 1]
    BY <1>2
  <2> QED
    BY <2>1, <2>2
<1> HIDE DEF S
<1>3. \A k \in Nat : k \in S
  BY <1>1, <1>2, NatInd
<1> QED
  BY <1>3 DEF S

Widths == {1, 2, 6}

LEMMA WidthType ==
    /\ \A c \in Characters : Width[c] \in Widths
    /\ Width["control"] = 6
    /\ \A c \in Characters : c # "control" => Width[c] <= 2
  BY DEF Characters, Width, Widths

\* What is true of the loop after every number of characters: it has taken a prefix of
\* them, their escapes fit with room for the terminator, and it has stopped only where a
\* control character is to blame.
LoopIsRight(m, w, state, k) ==
    /\ state \in [used : Nat, taken : 0 .. k]
    /\ state.used = w[state.taken] /\ state.used < EscapedSize
    /\ \/ state.taken = k
       \/ "control" \in Range(m) /\ state.used + 6 >= EscapedSize
    /\ "control" \notin Range(m) => state.used <= 2 * k

LEMMA LoopStep ==
    ASSUME NEW n \in Nat, n <= MaxMessageBytes - 1, NEW m \in [1 .. n -> Characters],
           NEW w, IsWidth(w, m, n), NEW k \in 0 .. n - 1, NEW state, LoopIsRight(m, w, state, k)
    PROVE  LoopIsRight(m, w, After(m, state, k + 1), k + 1)
<1> DEFINE c == m[k + 1]
           u == state.used
           E == EscapedSize
           later == After(m, state, k + 1)
<1>1. c \in Characters /\ c \in Range(m)
  BY DEF Range
<1>2. u \in Nat /\ state.taken \in 0 .. k /\ u < E
      /\ E \in Nat /\ E = 2 * MaxMessageBytes + 1 /\ MaxMessageBytes \in Nat
  BY LineAssumption DEF LoopIsRight, EscapedSize
<1>3. CASE state.taken = k /\ HasRoom(u, c)
  <2>1. later = [used |-> u + Width[c], taken |-> k + 1]
    BY <1>3 DEF After
  <2>2. Width[c] \in Widths /\ (c # "control" => Width[c] <= 2) /\ (c = "control" => Width[c] = 6)
    BY <1>1, WidthType
  <2>3. u + 2 < E /\ (c = "control" => u + 6 < E)
    BY <1>3 DEF HasRoom
  <2>4. w[k + 1] = w[k] + Width[c]
    BY DEF IsWidth
  <2>5. u = w[k]
    BY <1>3 DEF LoopIsRight
  <2> DEFINE v == Width[c]
  <2>6. v \in Nat /\ u + v < E
    <3>1. v \in Nat
      BY <2>2 DEF Widths
    <3>2. CASE c = "control"
      BY <2>2, <2>3, <3>2
    <3>3. CASE c # "control"
      <4>1. v <= 2
        BY <2>2, <3>3
      <4> HIDE DEF v, u, E
      <4> QED
        BY <1>2, <2>3, <3>1, <4>1
    <3> QED
      BY <3>1, <3>2, <3>3
  <2>7. "control" \notin Range(m) => u + v <= 2 * (k + 1)
    <3> SUFFICES ASSUME "control" \notin Range(m) PROVE u + v <= 2 * (k + 1)
      OBVIOUS
    <3>1. u <= 2 * k
      BY DEF LoopIsRight
    <3>2. v <= 2
      BY <1>1, <2>2
    <3> HIDE DEF u, v
    <3> QED
      BY <1>2, <2>6, <3>1, <3>2
  <2>8. u + v \in Nat /\ k + 1 \in 0 .. k + 1
    BY <1>2, <2>6
  <2> HIDE DEF v, u, E, later
  <2>9. later \in [used : Nat, taken : 0 .. k + 1]
    BY <2>1, <2>8 DEF v
  <2>10. later.used = u + v /\ later.taken = k + 1
    BY <2>1 DEF v
  <2>11. later.used = w[later.taken]
    BY <2>4, <2>5, <2>10 DEF v
  <2> QED
    BY <2>6, <2>7, <2>9, <2>10, <2>11 DEF LoopIsRight, E, later
<1>4. CASE ~ (state.taken = k /\ HasRoom(u, c))
  <2>1. later = state
    BY <1>4 DEF After
  <2>2. state \in [used : Nat, taken : 0 .. k + 1]
    BY DEF LoopIsRight
  <2>3. "control" \in Range(m) /\ u + 6 >= E
    <3>1. CASE state.taken # k
      BY <3>1 DEF LoopIsRight
    <3>2. CASE ~ HasRoom(u, c)
      <4>1. u + 2 >= E \/ (c = "control" /\ u + 6 >= E)
        BY <1>2, <3>2 DEF HasRoom
      <4>2. CASE c = "control" /\ u + 6 >= E
        BY <1>1, <4>2
      <4>3. CASE u + 2 >= E
        <5>1. u + 6 >= E
          BY <1>2, <4>3
        <5>2. ASSUME "control" \notin Range(m) PROVE FALSE
          <6>1. u <= 2 * k
            BY <5>2 DEF LoopIsRight
          <6>2. k + 2 <= MaxMessageBytes
            BY <1>2
          <6> QED
            BY <1>2, <4>3, <6>1, <6>2
        <5> QED
          BY <5>1, <5>2
      <4> QED
        BY <4>1, <4>2, <4>3
    <3> QED
      BY <1>4, <3>1, <3>2
  <2>4. "control" \notin Range(m) => u <= 2 * (k + 1)
    BY <2>3
  <2> QED
    BY <2>1, <2>2, <2>3, <2>4 DEF LoopIsRight
<1> QED
  BY <1>3, <1>4

LEMMA LoopIsRightAlways ==
    ASSUME NEW n \in Nat, n <= MaxMessageBytes - 1, NEW m \in [1 .. n -> Characters],
           NEW w, IsWidth(w, m, n), NEW f, IsLoop(f, m, n)
    PROVE  LoopIsRight(m, w, f[n], n)
<1> DEFINE S == {k \in Nat : k <= n => LoopIsRight(m, w, f[k], k)}
<1>1. 0 \in S
  <2>1. f[0] = Begin /\ w[0] = 0
    BY DEF IsLoop, IsWidth
  <2>2. EscapedSize > 0
    BY LineAssumption DEF EscapedSize
  <2> QED
    BY <2>1, <2>2 DEF LoopIsRight, Begin
<1>2. ASSUME NEW k \in Nat, k \in S PROVE k + 1 \in S
  <2> SUFFICES ASSUME k + 1 <= n PROVE LoopIsRight(m, w, f[k + 1], k + 1)
    OBVIOUS
  <2>1. f[k + 1] = After(m, f[k], k + 1)
    BY DEF IsLoop
  <2>2. LoopIsRight(m, w, f[k], k) /\ k \in 0 .. n - 1
    BY <1>2
  <2> QED
    BY <2>1, <2>2, LoopStep
<1> HIDE DEF S
<1>3. \A k \in Nat : k \in S
  BY <1>1, <1>2, NatInd
<1> QED
  BY <1>3 DEF S

\* The escape loop cuts a message only behind a control character, keeps whole characters,
\* and leaves a byte for the terminator, for every message that emit() can keep and every
\* bound on messages ("worst case every byte doubles, so the escape buffer is 2x",
\* service.cpp:365-367, 398-400).
THEOREM EscapeIsFaithful ==
    ASSUME NEW message \in Messages
    PROVE  /\ FaithfulEscape(message, Escaped(message))
           /\ Escaped(message).used \in Nat
<1>1. PICK n \in 0 .. MaxMessageBytes - 1 : message \in [1 .. n -> Characters]
  BY DEF Messages, SeqOf
<1>2. n \in Nat /\ n <= MaxMessageBytes - 1
  BY LineAssumption
<1>3. Len(message) = n
  BY <1>1, <1>2
<1> DEFINE f == CHOOSE f : IsLoop(f, message, n)
           e == Escaped(message)
<1>4. IsLoop(f, message, n) /\ e = f[n]
  BY <1>2, <1>3, LoopExists, EscapedIsLoop
<1> HIDE DEF f, e
<1>5. PICK w : IsWidth(w, message, n)
  BY <1>2, WidthExists
<1>6. LoopIsRight(message, w, e, n)
  BY <1>1, <1>2, <1>4, <1>5, LoopIsRightAlways
<1> DEFINE k == e.taken
           prefix == SubSeq(message, 1, k)
<1>7. e.used \in Nat /\ k \in 0 .. n /\ e.used = w[k] /\ e.used < EscapedSize
  BY <1>6 DEF LoopIsRight
<1>8. Len(prefix) = k /\ \A i \in 1 .. k : message[i] = prefix[i]
  <2>1. message \in Seq(Characters)
    BY <1>1, <1>2
  <2> HIDE DEF k
  <2> QED
    BY <1>3, <1>7, <2>1
<1> HIDE DEF prefix, k
<1>9. PICK g : IsWidth(g, prefix, k) /\ EscapedWidth(prefix) = g[k]
  <2> DEFINE h == CHOOSE h : IsWidth(h, prefix, k)
  <2>1. k \in Nat
    BY <1>7
  <2>2. \E h_1 : IsWidth(h_1, prefix, k)
    BY <2>1, WidthExists
  <2>3. IsWidth(h, prefix, k)
    BY Zenon, <2>2
  <2>4. EscapedWidth(prefix) = h[k]
    BY Zenon, <1>8, WidthIsSum
  <2> HIDE DEF h
  <2> QED
    BY <2>3, <2>4
<1>10. w[k] = g[k]
  <2>1. n \in Nat
    BY <1>2
  <2>2. k \in 0 .. n
    BY <1>7
  <2>3. \A i \in 1 .. k : message[i] = prefix[i]
    BY <1>8
  <2>4. IsWidth(w, message, n)
    BY <1>5
  <2>5. IsWidth(g, prefix, k)
    BY <1>9
  <2> QED
    BY Z3, <2>1, <2>2, <2>3, <2>4, <2>5, WidthsAgree
<1>11. e.used = EscapedWidth(SubSeq(message, 1, e.taken))
  BY <1>7, <1>9, <1>10 DEF prefix, k
<1>12. \/ e.taken = Len(message)
       \/ "control" \in Range(message) /\ e.used + Width["control"] >= EscapedSize
  BY <1>3, <1>6, WidthType DEF LoopIsRight
<1> QED
  BY <1>7, <1>11, <1>12 DEF FaithfulEscape, e

\* So no line that reaches a file is that of a message the escape spoiled.
LEMMA NoneIsBad == BadLengths = {}
<1>1. BadlyEscaped = {}
  BY EscapeIsFaithful DEF BadlyEscaped
<1> QED
  BY <1>1 DEF BadLengths, LengthsOf

-----------------------------------------------------------------------------
(* The lengths of lines, and the bytes of a sequence of records.            *)

LEMMA LineLengthsBounded == \A s \in LineLengths : s \in 0 .. LineBytes - 1
<1> SUFFICES ASSUME NEW framing \in Framings, NEW message \in Messages
             PROVE  LineLength(framing, message) \in 0 .. LineBytes - 1
  BY DEF LineLengths, LengthsOf
<1> DEFINE used == Escaped(message).used
<1>1. used \in Nat /\ framing \in Nat /\ LineBytes \in Nat \ {0}
  BY LineAssumption, EscapeIsFaithful
<1>2. LineLength(framing, message) = IF framing + used >= LineBytes THEN LineBytes - 1
                                     ELSE framing + used
  BY DEF LineLength
<1> HIDE DEF used
<1> QED
  BY <1>1, <1>2

LEMMA SizeTypes == \A s \in RecordSizes : s \in Nat /\ s <= LineBytes
<1>1. \A s \in RecordSizes : s \in 0 .. LineBytes - 1
  BY SizesAssumption, LineLengthsBounded
<1> QED
  BY <1>1, LineAssumption

LEMMA LongestIsLongest ==
    LongestLine \in Nat /\ \A s \in RecordSizes : s <= LongestLine
<1> DEFINE T == {LineBytes - s : s \in RecordSizes}
<1>1. LineBytes \in Nat
  BY LineAssumption
<1>2. T \subseteq Nat /\ T # {}
  BY <1>1, SizeTypes, SizesAssumption
<1>3. PICK x \in T : \A y \in T : x <= y
  <2> HIDE DEF T
  <2> QED
    BY <1>2, Least
<1>4. PICK m \in RecordSizes : x = LineBytes - m
  BY <1>3
<1>5. ASSUME NEW s \in RecordSizes PROVE s <= m
  <2>1. LineBytes - m <= LineBytes - s
    BY <1>3, <1>4
  <2> QED
    BY <1>1, <2>1, SizeTypes
<1>6. LongestLine \in RecordSizes /\ \A s \in RecordSizes : s <= LongestLine
  BY <1>5 DEF LongestLine
<1> QED
  BY <1>6, SizeTypes

LEMMA MaxGenerationType ==
    /\ MaxGeneration \in Nat /\ SizeBound \in Nat
    /\ \A n \in Nat : \A s \in RecordSizes :
          n < SizeBound \/ n = 0 => n + s <= MaxGeneration
  BY LongestIsLongest, SizesAssumption, SizeTypes DEF MaxGeneration

SizesOf(s) == [i \in DOMAIN s |-> s[i].size]

LEMMA BytesIsTotal ==
    ASSUME NEW s
    PROVE  Bytes(s) = Total(DOMAIN s, SizesOf(s))
<1> DEFINE Q(g) == g = [t \in SUBSET DOMAIN s |->
                          IF t = {} THEN 0
                          ELSE s[CHOOSE x \in t : TRUE].size + g[t \ {CHOOSE x \in t : TRUE}]]
<1>1. Bytes(s) = (CHOOSE g : Q(g))[DOMAIN s]
  BY Zenon DEF Bytes, FoldSeq, FoldFunction, FoldFunctionOnSet, MapThenFoldSet
<1>2. ASSUME NEW g PROVE Q(g) <=> IsSum(g, DOMAIN s, SizesOf(s))
  <2>1. \A t \in SUBSET DOMAIN s : t # {} => (CHOOSE x \in t : TRUE) \in t
    OBVIOUS
  <2>2. \A t \in SUBSET DOMAIN s : t # {} =>
           SizesOf(s)[CHOOSE x \in t : TRUE] = s[CHOOSE x \in t : TRUE].size
    BY <2>1 DEF SizesOf
  <2> QED
    BY <2>2 DEF IsSum
<1> HIDE DEF Q
<1>3. (CHOOSE g : Q(g)) = CHOOSE g : IsSum(g, DOMAIN s, SizesOf(s))
  BY <1>2
<1> QED
  BY <1>1, <1>3 DEF Total

LEMMA RecordsOf ==
    ASSUME NEW s \in Seq(Records)
    PROVE  /\ DOMAIN s = 1 .. Len(s) /\ IsFiniteSet(DOMAIN s) /\ Len(s) \in Nat
           /\ \A i \in DOMAIN s : SizesOf(s)[i] = s[i].size /\ SizesOf(s)[i] \in Nat
<1>1. DOMAIN s = 1 .. Len(s) /\ Len(s) \in Nat
  OBVIOUS
<1>2. IsFiniteSet(1 .. Len(s))
  BY <1>1, FS_Interval
<1>3. \A i \in DOMAIN s : s[i].size \in RecordSizes
  <2>1. \A i \in DOMAIN s : s[i] \in Records
    OBVIOUS
  <2> QED
    BY <2>1 DEF Records
<1>4. \A i \in DOMAIN s : SizesOf(s)[i] = s[i].size
  BY DEF SizesOf
<1>5. \A i \in DOMAIN s : s[i].size \in Nat
  BY <1>3, SizeTypes
<1> QED
  BY <1>1, <1>2, <1>4, <1>5

LEMMA BytesType ==
    ASSUME NEW s \in Seq(Records)
    PROVE  Bytes(s) \in Nat
  BY RecordsOf, BytesIsTotal, TotalType

LEMMA BytesOfNone == Bytes(<<>>) = 0
<1>1. DOMAIN <<>> = {}
  OBVIOUS
<1> QED
  BY <1>1, BytesIsTotal, FS_EmptySet, TotalChosen

LEMMA BytesOfMore ==
    ASSUME NEW s \in Seq(Records), NEW r \in Records
    PROVE  Bytes(Append(s, r)) = Bytes(s) + r.size
<1> DEFINE t == Append(s, r)
           D == DOMAIN t
           e == Len(s) + 1
<1>1. t \in Seq(Records) /\ D = 1 .. e /\ e \in D /\ t[e] = r /\ D \ {e} = DOMAIN s
      /\ \A i \in DOMAIN s : t[i] = s[i]
  <2>1. DOMAIN s = 1 .. Len(s) /\ Len(s) \in Nat
    OBVIOUS
  <2>2. t \in Seq(Records) /\ Len(t) = e
    OBVIOUS
  <2>3. D = 1 .. e /\ e \in D
    BY <2>1, <2>2
  <2>4. t[e] = r /\ \A i \in 1 .. Len(s) : t[i] = s[i]
    OBVIOUS
  <2>5. D \ {e} = DOMAIN s
    BY <2>1, <2>3
  <2> QED
    BY <2>1, <2>2, <2>3, <2>4, <2>5
<1> HIDE DEF t, e
<1>2. IsFiniteSet(D) /\ \A i \in D : SizesOf(t)[i] = t[i].size /\ SizesOf(t)[i] \in Nat
  BY <1>1, RecordsOf
<1>3. IsFiniteSet(DOMAIN s) /\ \A i \in DOMAIN s : SizesOf(s)[i] = s[i].size
  BY RecordsOf
<1>4. \A i \in DOMAIN s : SizesOf(t)[i] = SizesOf(s)[i]
  BY <1>1, <1>2, <1>3
<1>5. \A i \in D : SizesOf(t)[i] \in Int
  BY <1>2
<1> HIDE DEF D
<1>6. Total(D, SizesOf(t)) = SizesOf(t)[e] + Total(D \ {e}, SizesOf(t))
  BY <1>1, <1>2, <1>5, TotalTakesOut
<1>7. Total(D \ {e}, SizesOf(t)) = Total(DOMAIN s, SizesOf(s))
  BY <1>1, <1>3, <1>4, TotalSame
<1>8. SizesOf(t)[e] = r.size
  BY <1>1, <1>2
<1>9. Bytes(t) = Total(D, SizesOf(t)) /\ Bytes(s) = Total(DOMAIN s, SizesOf(s))
  BY BytesIsTotal DEF D
<1>10. Bytes(t) = r.size + Bytes(s)
  BY <1>6, <1>7, <1>8, <1>9
<1>11. r.size \in Nat /\ Bytes(s) \in Nat
  BY SizeTypes, BytesType DEF Records
<1> QED
  BY <1>10, <1>11 DEF t

\* A nonempty sequence of records is one and a record.
LEMMA LastOne ==
    ASSUME NEW c \in Seq(Records), NEW n \in Nat, Len(c) = n + 1
    PROVE  \E d \in Seq(Records), r \in Records :
              Len(d) = n /\ c = Append(d, r) /\ c[n + 1] = r /\ \A i \in 1 .. n : d[i] = c[i]
<1> DEFINE d == SubSeq(c, 1, n)
           r == c[n + 1]
<1>1. d \in Seq(Records) /\ Len(d) = n /\ r \in Records /\ \A i \in 1 .. n : d[i] = c[i]
  OBVIOUS
<1>2. c = Append(d, r)
  OBVIOUS
<1> HIDE DEF d, r
<1> QED
  BY <1>1, <1>2 DEF r

LEMMA JoinedToMore ==
    ASSUME NEW s \in Seq(Records), NEW d \in Seq(Records), NEW r \in Records
    PROVE  /\ s \o d \in Seq(Records) /\ s \o Append(d, r) = Append(s \o d, r)
           /\ s \o <<>> = s
  OBVIOUS

LEMMA BytesOfBoth ==
    ASSUME NEW s \in Seq(Records), NEW b \in Seq(Records)
    PROVE  s \o b \in Seq(Records) /\ Bytes(s \o b) = Bytes(s) + Bytes(b)
<1> DEFINE Right(n) == \A c \in Seq(Records) : Len(c) = n => Bytes(s \o c) = Bytes(s) + Bytes(c)
           S == {n \in Nat : Right(n)}
<1>1. 0 \in S
  <2> SUFFICES ASSUME NEW c \in Seq(Records), Len(c) = 0 PROVE Bytes(s \o c) = Bytes(s) + Bytes(c)
    OBVIOUS
  <2>1. s \o c = s /\ c = <<>>
    OBVIOUS
  <2>2. Bytes(s) \in Nat
    BY BytesType
  <2> QED
    BY <2>1, <2>2, BytesOfNone
<1>2. ASSUME NEW n \in Nat, n \in S PROVE n + 1 \in S
  <2> SUFFICES ASSUME NEW c \in Seq(Records), Len(c) = n + 1
               PROVE  Bytes(s \o c) = Bytes(s) + Bytes(c)
    OBVIOUS
  <2>1. PICK d \in Seq(Records), r \in Records : Len(d) = n /\ c = Append(d, r)
    BY LastOne
  <2> DEFINE sd == s \o d
  <2>2. Bytes(sd) = Bytes(s) + Bytes(d)
    BY <1>2, <2>1
  <2>3. sd \in Seq(Records) /\ s \o c = Append(sd, r)
    BY <2>1, JoinedToMore
  <2> HIDE DEF sd
  <2>4. Bytes(Append(sd, r)) = Bytes(sd) + r.size /\ Bytes(c) = Bytes(d) + r.size
    BY <2>1, <2>3, BytesOfMore
  <2>5. r.size \in Nat /\ Bytes(sd) \in Nat /\ Bytes(s) \in Nat /\ Bytes(d) \in Nat
    BY <2>3, SizeTypes, BytesType DEF Records
  <2> DEFINE x == Bytes(s)
             y == Bytes(d)
             z == r.size
  <2>6. (x + y) + z = x + (y + z)
    <3>1. x \in Nat /\ y \in Nat /\ z \in Nat
      BY <2>5
    <3> HIDE DEF x, y, z
    <3> QED
      BY <3>1
  <2> QED
    BY Zenon, <2>2, <2>3, <2>4, <2>6
<1> HIDE DEF S
<1>3. \A n \in Nat : n \in S
  BY <1>1, <1>2, NatInd
<1>4. Len(b) \in S
  BY <1>3
<1> QED
  BY <1>4 DEF S

LEMMA BytesOfPart ==
    ASSUME NEW s \in Seq(Records), NEW b \in Seq(Records)
    PROVE  s \o b \in Seq(Records) /\ Bytes(s) <= Bytes(s \o b)
<1> DEFINE x == Bytes(s)
           y == Bytes(b)
<1>1. x \in Nat /\ y \in Nat
  BY BytesType
<1> HIDE DEF x, y
<1>2. x <= x + y
  BY <1>1
<1> QED
  BY Zenon, <1>2, BytesOfBoth DEF x, y

-----------------------------------------------------------------------------
(* What the writer thread knows between two calls into the file system.     *)

\* Only an open stream buffers, there is a root while it is open, and it is open only
\* outside the shifting; the loop of rotate() never moves generation 1 or the root.
SinkStages ==
    /\ isOpen => files[0] # NoFile /\ pc \in {"main", "drain", "rotate"}
    /\ ~ isOpen => buffer = <<>>
    /\ pc \in {"remove", "rename"} => gen > 1

SinkInv == TypeOK /\ SinkStages

\* In the main loop the count covers what the stream took, and is below the bound; from
\* the moment the bound is met until the root has been moved away, the root is one line
\* above it at most; and so is every numbered generation.
Shifting == {"remove", "rename", "clearFirst", "promote"}
BoundInv ==
    /\ isOpen /\ pc = "main" => /\ Bytes(files[0] \o buffer) <= written
                                /\ written < SizeBound \/ written = 0
    /\ isOpen /\ pc = "rotate" => Bytes(files[0] \o buffer) <= MaxGeneration
    /\ pc \in Shifting => Bytes(Content(0)) <= MaxGeneration
    /\ \A g \in 1 .. Oldest : Bytes(Content(g)) <= MaxGeneration

FilesType == [0 .. Oldest -> Seq(Records) \cup {NoFile}]
GensType == IF Generations = 0 THEN {0} ELSE 1 .. Generations

LEMMA OldestType ==
    /\ Oldest \in Nat /\ 0 \in 0 .. Oldest /\ 1 \in 0 .. Oldest /\ Generations \in GensType
    /\ \A g \in GensType : g > 1 => /\ g \in 0 .. Oldest /\ g - 1 \in 0 .. Oldest
                                    /\ g # 0 /\ g - 1 # 0 /\ g - 1 \in GensType
  BY SizesAssumption DEF Oldest, GensType

LEMMA NoFileIsNone == NoFile \notin Seq(Records)
<1> SUFFICES ASSUME NoFile \in Seq(Records) PROVE FALSE
  OBVIOUS
<1>1. NoFile[1] \in Records /\ NoFile[1] = [id |-> -1, size |-> 0]
  <2>1. NoFile[1] = [id |-> -1, size |-> 0] /\ 1 \in DOMAIN NoFile
    BY DEF NoFile
  <2> HIDE DEF NoFile
  <2> QED
    BY <2>1
<1>2. NoFile[1].id \in Nat /\ NoFile[1].id = -1
  BY <1>1 DEF Records
<1> QED
  BY <1>2

\* A file that is there is a sequence of records.
LEMMA ContentType ==
    ASSUME NEW f \in FilesType, NEW g \in 0 .. Oldest
    PROVE  f[g] # NoFile => f[g] \in Seq(Records)
  BY DEF FilesType

\* What the stream took is records.
LEMMA StreamType ==
    ASSUME SinkInv, isOpen
    PROVE  files[0] \in Seq(Records) /\ buffer \in Seq(Records) /\ files[0] \o buffer \in Seq(Records)
<1>1. files \in FilesType /\ buffer \in Seq(Records) /\ files[0] # NoFile
  BY DEF SinkInv, TypeOK, SinkStages, FilesType
<1>2. files[0] \in Seq(Records)
  BY <1>1, ContentType, OldestType
<1> QED
  BY <1>1, <1>2

\* What each way to touch the family does to the files.
LEMMA RemovedKeeps ==
    ASSUME SinkInv, NEW g \in 1 .. Oldest, Removed(g) \/ UNCHANGED files
    PROVE  /\ files' \in FilesType /\ files'[0] = files[0]
           /\ \A h \in 1 .. Oldest : files'[h] = files[h] \/ files'[h] = NoFile
<1>1. files \in FilesType /\ g \in 0 .. Oldest /\ g # 0 /\ 0 \in 0 .. Oldest
      /\ \A h \in 1 .. Oldest : h \in 0 .. Oldest
  BY OldestType DEF SinkInv, TypeOK, FilesType
<1>2. CASE UNCHANGED files
  BY <1>1, <1>2
<1>3. CASE Removed(g)
  <2>1. files' = [files EXCEPT ![g] = NoFile]
    BY <1>3 DEF Removed
  <2> HIDE DEF NoFile
  <2>2. files' \in FilesType /\ files'[g] = NoFile /\ \A h \in 0 .. Oldest : h # g => files'[h] = files[h]
    BY <1>1, <2>1 DEF FilesType
  <2> QED
    BY <1>1, <2>2
<1> QED
  BY <1>2, <1>3

LEMMA RenamedKeeps ==
    ASSUME SinkInv, NEW from \in 0 .. Oldest, NEW to \in 1 .. Oldest, from # to,
           Renamed(from, to) \/ UNCHANGED files
    PROVE  /\ files' \in FilesType
           /\ from # 0 => files'[0] = files[0]
           /\ \A h \in 1 .. Oldest : \/ files'[h] = files[h] \/ files'[h] = NoFile
                                     \/ h = to /\ files'[h] = files[from]
<1>1. files \in FilesType /\ to \in 0 .. Oldest /\ to # 0 /\ 0 \in 0 .. Oldest
      /\ \A h \in 1 .. Oldest : h \in 0 .. Oldest
  BY OldestType DEF SinkInv, TypeOK, FilesType
<1>2. CASE UNCHANGED files
  BY <1>1, <1>2
<1>3. CASE Renamed(from, to) /\ Exists(from)
  <2> DEFINE moved == [files EXCEPT ![to] = files[from]]
  <2>1. files' = [moved EXCEPT ![from] = NoFile]
    BY <1>1, <1>3 DEF Renamed, FilesType
  <2>2. files[from] \in Seq(Records) \cup {NoFile}
    BY <1>1 DEF FilesType
  <2> HIDE DEF NoFile
  <2>3. moved \in FilesType /\ moved[to] = files[from]
        /\ \A h \in 0 .. Oldest : h # to => moved[h] = files[h]
    BY <1>1, <2>2 DEF FilesType
  <2> HIDE DEF moved
  <2>4. files' \in FilesType /\ files'[from] = NoFile
        /\ \A h \in 0 .. Oldest : h # from => files'[h] = moved[h]
    BY <1>1, <2>1, <2>3 DEF FilesType
  <2> QED
    BY <1>1, <2>3, <2>4
<1>4. CASE Renamed(from, to) /\ ~ Exists(from)
  BY <1>1, <1>4 DEF Renamed
<1> QED
  BY <1>2, <1>3, <1>4

LEMMA CloseKeeps ==
    ASSUME SinkInv, isOpen, Close
    PROVE  /\ files' \in FilesType /\ isOpen' = FALSE /\ buffer' = <<>> /\ lost' \in Nat
           /\ files'[0] \in {files[0], files[0] \o buffer}
           /\ \A h \in 1 .. Oldest : files'[h] = files[h]
<1>1. files \in FilesType /\ 0 \in 0 .. Oldest /\ lost \in Nat /\ Len(buffer) \in Nat
      /\ \A h \in 1 .. Oldest : h \in 0 .. Oldest /\ h # 0
  BY OldestType DEF SinkInv, TypeOK, FilesType
<1> DEFINE whole == files[0] \o buffer
<1>2. whole \in Seq(Records)
  BY StreamType
<1>3. isOpen' = FALSE /\ buffer' = <<>>
  BY DEF Close
<1> HIDE DEF whole
<1>4. CASE files' = [files EXCEPT ![0] = whole] /\ UNCHANGED lost
  <2>1. files' \in FilesType /\ files'[0] = whole /\ \A h \in 0 .. Oldest : h # 0 => files'[h] = files[h]
    BY <1>1, <1>2, <1>4 DEF FilesType
  <2> QED
    BY <1>1, <1>3, <1>4, <2>1 DEF whole
<1>5. CASE lost' = lost + Len(buffer) /\ UNCHANGED files
  BY <1>1, <1>3, <1>5
<1> QED
  BY <1>4, <1>5 DEF Close, whole

\* The shutdown closes a stream that may not be there: then nothing happens.
LEMMA NothingToClose ==
    ASSUME SinkInv, ~ isOpen, Close
    PROVE  /\ files' \in FilesType /\ isOpen' = FALSE /\ buffer' = <<>> /\ lost' \in Nat
           /\ \A h \in 0 .. Oldest : files'[h] = files[h]
<1>1. files \in FilesType /\ 0 \in 0 .. Oldest /\ lost \in Nat /\ buffer = <<>>
  BY OldestType DEF SinkInv, TypeOK, SinkStages, FilesType
<1> DEFINE whole == files[0] \o <<>>
<1>2. whole = files[0]
  <2>1. CASE files[0] \in Seq(Records)
    BY <2>1
  <2>2. CASE files[0] = NoFile
    <3>1. NoFile \in Seq({[id |-> -1, size |-> 0]})
      BY DEF NoFile
    <3> HIDE DEF NoFile
    <3>2. NoFile \o <<>> = NoFile
      BY <3>1
    <3> QED
      BY <2>2, <3>2
  <2> QED
    BY <1>1, <2>1, <2>2 DEF FilesType
<1> HIDE DEF whole
<1>3. files' = [files EXCEPT ![0] = whole] /\ lost' = lost
  <2>1. files[0] \o buffer = whole
    BY <1>1 DEF whole
  <2> QED
    BY <1>1, <2>1 DEF Close
<1>4. files' = files
  BY <1>1, <1>2, <1>3 DEF FilesType
<1> QED
  BY <1>1, <1>3, <1>4 DEF Close

LEMMA OpenKeeps ==
    ASSUME SinkInv, NEW n \in Nat, Open(n)
    PROVE  /\ files' \in FilesType /\ isOpen' \in BOOLEAN /\ failures' \in Nat
           /\ isOpen' => files'[0] = <<>>
           /\ \A h \in 1 .. Oldest : files'[h] = files[h]
<1>1. files \in FilesType /\ 0 \in 0 .. Oldest /\ <<>> \in Seq(Records)
      /\ \A h \in 1 .. Oldest : h \in 0 .. Oldest /\ h # 0
  BY OldestType DEF SinkInv, TypeOK, FilesType
<1>2. CASE isOpen' = TRUE /\ files' = [files EXCEPT ![0] = <<>>] /\ failures' = n
  <2>1. files' \in FilesType /\ files'[0] = <<>> /\ \A h \in 0 .. Oldest : h # 0 => files'[h] = files[h]
    BY <1>1, <1>2 DEF FilesType
  <2>2. isOpen' \in BOOLEAN /\ failures' \in Nat
    BY <1>2
  <2>3. \A h \in 1 .. Oldest : files'[h] = files[h]
    BY <1>1, <2>1
  <2> QED
    BY Zenon, <2>1, <2>2, <2>3
<1>3. CASE isOpen' = FALSE /\ failures' = n + 1 /\ UNCHANGED files
  <2>1. isOpen' \in BOOLEAN /\ ~ isOpen'
    BY Zenon, <1>3
  <2>3. failures' \in Nat
    BY <1>3
  <2>2. files' \in FilesType /\ \A h \in 1 .. Oldest : files'[h] = files[h]
    BY <1>1, <1>3
  <2> QED
    BY Zenon, <2>1, <2>2, <2>3
<1> QED
  BY <1>2, <1>3 DEF Open

LEMMA EmptyIsThere == <<>> # NoFile
<1>1. Len(NoFile) = 1
  BY DEF NoFile
<1> QED
  BY <1>1

-----------------------------------------------------------------------------
(* The sink's types.                                                        *)

\* What a step leaves to show when the files and the stream are as they should be.
LEMMA TypesTogether ==
    ASSUME files \in FilesType, isOpen \in BOOLEAN,
           buffer \in Seq(Records), Len(buffer) <= BufferSlots,
           written \in Nat, failures \in Nat, lost \in Nat,
           pc \in {"down", "crashed", "main", "drain", "rotate"} \cup Shifting \cup {"reopen"},
           gen \in GensType, next \in 0 .. MaxRecords, base \in 0 .. next, runs \in 0 .. MaxRuns
    PROVE  TypeOK
  BY DEF TypeOK, FilesType, GensType, Shifting

LEMMA TypesApart ==
    ASSUME SinkInv
    PROVE  /\ files \in FilesType /\ isOpen \in BOOLEAN
           /\ buffer \in Seq(Records) /\ Len(buffer) <= BufferSlots
           /\ written \in Nat /\ failures \in Nat /\ lost \in Nat
           /\ pc \in {"down", "crashed", "main", "drain", "rotate"} \cup Shifting \cup {"reopen"}
           /\ gen \in GensType
           /\ next \in 0 .. MaxRecords /\ base \in 0 .. next /\ runs \in 0 .. MaxRuns
  BY DEF SinkInv, TypeOK, FilesType, GensType, Shifting

LEMMA EmptyType == <<>> \in Seq(Records) /\ Len(<<>>) <= BufferSlots
  BY SizesAssumption

LEMMA SinkStarts == Init => SinkInv
<1> SUFFICES ASSUME Init PROVE SinkInv
  OBVIOUS
<1>1. files \in FilesType
  BY DEF Init, FilesType
<1>2. next \in 0 .. MaxRecords /\ base \in 0 .. next /\ runs \in 0 .. MaxRuns
  BY BoundAssumption DEF Init
<1>3. gen \in GensType
  BY OldestType DEF Init
<1>4. buffer \in Seq(Records) /\ Len(buffer) <= BufferSlots
  BY EmptyType DEF Init
<1>5. TypeOK
  BY <1>1, <1>2, <1>3, <1>4, TypesTogether DEF Init
<1>6. SinkStages
  BY DEF Init, SinkStages
<1> QED
  BY <1>5, <1>6 DEF SinkInv

\* What a write leaves to the stream: an open one stays good, a closed one stays empty.
StreamKept ==
    /\ files' \in FilesType /\ buffer' \in Seq(Records) /\ Len(buffer') <= BufferSlots
    /\ written' \in Nat /\ failures' \in Nat /\ pc' \in {"main", "drain", "rotate"}
    /\ isOpen => files'[0] # NoFile
    /\ ~ isOpen => buffer' = buffer

LEMMA AfterWriteTypes ==
    ASSUME SinkInv, pc \in {"main", "drain"}, NEW n \in Nat, AfterWrite(n)
    PROVE  written' \in Nat /\ pc' \in {"main", "drain", "rotate"}
  BY TypesApart DEF AfterWrite

LEMMA RefusedKeepsStream ==
    ASSUME SinkInv, pc \in {"main", "drain"}, WriteRefused
    PROVE  StreamKept
<1>1. AfterWrite(0) /\ files' = files /\ buffer' = buffer /\ failures' = failures + 1
  BY DEF WriteRefused
<1>2. written' \in Nat /\ pc' \in {"main", "drain", "rotate"}
  BY <1>1, AfterWriteTypes
<1>3. failures' \in Nat
  BY <1>1, TypesApart
<1> QED
  BY <1>1, <1>2, <1>3, TypesApart DEF StreamKept, SinkInv, SinkStages

LEMMA ElsewhereKeepsStream ==
    ASSUME SinkInv, pc \in {"main", "drain"}, NEW size \in RecordSizes, WriteElsewhere(size)
    PROVE  StreamKept
<1>1. AfterWrite(size) /\ files' = files /\ buffer' = buffer /\ failures' = failures
  BY DEF WriteElsewhere
<1>2. written' \in Nat /\ pc' \in {"main", "drain", "rotate"}
  BY <1>1, AfterWriteTypes, SizeTypes
<1> QED
  BY <1>1, <1>2, TypesApart DEF StreamKept, SinkInv, SinkStages

LEMMA NextRecordType == ASSUME SinkInv PROVE \A size \in RecordSizes : NextRecord(size) \in Records
  BY TypesApart DEF NextRecord, Records

LEMMA UnflushedKeepsStream ==
    ASSUME SinkInv, pc \in {"main", "drain"}, NEW size \in RecordSizes, WriteUnflushed(size)
    PROVE  StreamKept
<1> DEFINE r == NextRecord(size)
<1>1. /\ isOpen /\ AfterWrite(size) /\ files' = files /\ failures' = failures
      /\ buffer' = Append(buffer, r) /\ Len(buffer) < BufferSlots
  BY DEF WriteUnflushed
<1>2. written' \in Nat /\ pc' \in {"main", "drain", "rotate"}
  BY <1>1, AfterWriteTypes, SizeTypes
<1>3. r \in Records /\ buffer \in Seq(Records) /\ BufferSlots \in Nat
  BY NextRecordType, TypesApart, SizesAssumption
<1> HIDE DEF r
<1>4. buffer' \in Seq(Records) /\ Len(buffer') = Len(buffer) + 1 /\ Len(buffer) \in Nat
  BY <1>1, <1>3
<1>5. Len(buffer') <= BufferSlots
  BY <1>1, <1>3, <1>4
<1> QED
  BY <1>1, <1>2, <1>4, <1>5, TypesApart DEF StreamKept, SinkInv, SinkStages

\* What went through to the root.
LEMMA FlushedGrows ==
    ASSUME SinkInv, NEW size \in RecordSizes, WriteFlushed(size)
    PROVE  /\ files' \in FilesType /\ files'[0] \in Seq(Records)
           /\ files'[0] = files[0] \o Append(buffer, NextRecord(size))
           /\ \A h \in 1 .. Oldest : files'[h] = files[h]
<1> DEFINE r == NextRecord(size)
           more == files[0] \o Append(buffer, r)
<1>1. files' = [files EXCEPT ![0] = more] /\ isOpen
  BY DEF WriteFlushed
<1>2. r \in Records /\ buffer \in Seq(Records) /\ files \in FilesType /\ files[0] \in Seq(Records)
  BY <1>1, NextRecordType, TypesApart, StreamType
<1>3. more \in Seq(Records)
  <2> HIDE DEF r
  <2>1. Append(buffer, r) \in Seq(Records)
    BY <1>2
  <2> QED
    BY <1>2, <2>1
<1> HIDE DEF more
<1>4. \A h \in 1 .. Oldest : h \in 0 .. Oldest /\ h # 0
  BY OldestType
<1>5. 0 \in 0 .. Oldest
  BY OldestType
<1>6. files' \in FilesType /\ files'[0] = more /\ \A h \in 0 .. Oldest : h # 0 => files'[h] = files[h]
  BY <1>1, <1>2, <1>3, <1>5 DEF FilesType
<1> QED
  BY <1>3, <1>4, <1>6 DEF more

LEMMA FlushedKeepsStream ==
    ASSUME SinkInv, pc \in {"main", "drain"}, NEW size \in RecordSizes, WriteFlushed(size)
    PROVE  StreamKept
<1>1. AfterWrite(size) /\ isOpen /\ buffer' = <<>> /\ failures' = failures
  BY DEF WriteFlushed
<1>2. written' \in Nat /\ pc' \in {"main", "drain", "rotate"}
  BY <1>1, AfterWriteTypes, SizeTypes
<1>3. files' \in FilesType /\ files'[0] # NoFile
  BY FlushedGrows, NoFileIsNone
<1> QED
  BY <1>1, <1>2, <1>3, EmptyType, TypesApart DEF StreamKept

LEMMA WriteKeepsTypes ==
    ASSUME SinkInv, Write
    PROVE  SinkInv'
<1>1. /\ isOpen' = isOpen /\ gen' = gen /\ base' = base /\ runs' = runs /\ lost' = lost
      /\ pc \in {"main", "drain"} /\ next < MaxRecords /\ next' = next + 1
  BY DEF Write, history
<1>2. next' \in 0 .. MaxRecords /\ base' \in 0 .. next'
  BY <1>1, BoundAssumption, TypesApart
<1>3. StreamKept
  <2>1. CASE WriteRefused
    BY <1>1, <2>1, RefusedKeepsStream
  <2>2. ASSUME NEW size \in RecordSizes,
               WriteFlushed(size) \/ WriteUnflushed(size) \/ WriteElsewhere(size)
        PROVE  StreamKept
    BY <1>1, <2>2, FlushedKeepsStream, UnflushedKeepsStream, ElsewhereKeepsStream
  <2> QED
    BY <2>1, <2>2 DEF Write
<1>4. TypeOK'
  <2>1. isOpen' \in BOOLEAN /\ gen' \in GensType /\ lost' \in Nat /\ runs' \in 0 .. MaxRuns
    BY <1>1, TypesApart
  <2> QED
    BY <1>2, <1>3, <2>1 DEF StreamKept, TypeOK, FilesType, GensType
<1>5. SinkStages'
  BY <1>1, <1>3 DEF StreamKept, SinkStages, SinkInv
<1> QED
  BY <1>4, <1>5 DEF SinkInv

LEMMA ShiftFromTypes ==
    ASSUME NEW g \in GensType, ShiftFrom(g)
    PROVE  /\ gen' \in GensType /\ pc' \in {"remove", "clearFirst"}
           /\ pc' \in {"remove", "rename"} => gen' > 1
  BY DEF ShiftFrom, MoreToShift

\* A step of the shifting leaves the stream closed.
LEMMA ShiftKeepsTypes ==
    ASSUME SinkInv, RemoveOlder \/ RenameOlder \/ ClearFirst \/ PromoteRoot
    PROVE  SinkInv'
<1> USE TypesApart, OldestType
<1>1. ~ isOpen /\ buffer = <<>>
  BY DEF SinkInv, SinkStages, RemoveOlder, RenameOlder, ClearFirst, PromoteRoot, Goes
<1>2. /\ isOpen' = isOpen /\ buffer' = buffer /\ written' = written /\ lost' = lost
      /\ next' = next /\ base' = base /\ runs' = runs
  BY DEF RemoveOlder, RenameOlder, ClearFirst, PromoteRoot, history
<1>3. /\ files' \in FilesType /\ failures' \in Nat /\ gen' \in GensType
      /\ pc' \in {"remove", "rename", "clearFirst", "promote", "reopen"}
      /\ pc' \in {"remove", "rename"} => gen' > 1
  <2>1. CASE RemoveOlder
    <3>1. pc = "remove" /\ pc' = "rename" /\ gen' = gen /\ gen > 1
      BY <2>1 DEF RemoveOlder, Goes, SinkInv, SinkStages
    <3>2. gen \in 1 .. Oldest
      BY <3>1
    <3>3. files' \in FilesType
      BY <2>1, <3>2, RemovedKeeps DEF RemoveOlder, Fails
    <3>4. failures' \in Nat
      BY <2>1 DEF RemoveOlder
    <3> QED
      BY <3>1, <3>3, <3>4
  <2>2. CASE RenameOlder
    <3>1. pc = "rename" /\ gen > 1 /\ ShiftFrom(gen - 1)
      BY <2>2 DEF RenameOlder, SinkInv, SinkStages
    <3>2. gen \in 1 .. Oldest /\ gen - 1 \in 0 .. Oldest /\ gen - 1 # gen /\ gen - 1 \in GensType
      BY <3>1
    <3>3. files' \in FilesType
      BY <2>2, <3>2, RenamedKeeps DEF RenameOlder, Fails
    <3>4. failures' \in Nat
      BY <2>2 DEF RenameOlder
    <3>5. /\ gen' \in GensType /\ pc' \in {"remove", "clearFirst"}
          /\ pc' \in {"remove", "rename"} => gen' > 1
      BY <3>1, <3>2, ShiftFromTypes
    <3> QED
      BY <3>3, <3>4, <3>5
  <2>3. CASE ClearFirst
    <3>1. pc' = "promote" /\ gen' = gen /\ failures' = failures
      BY <2>3 DEF ClearFirst, Goes
    <3>2. 1 \in 1 .. Oldest
      OBVIOUS
    <3>3. files' \in FilesType
      BY <2>3, <3>2, RemovedKeeps DEF ClearFirst, Fails
    <3> QED
      BY <3>1, <3>3
  <2>4. CASE PromoteRoot
    <3>1. pc' = "reopen" /\ gen' = gen
      BY <2>4 DEF PromoteRoot, Goes
    <3>2. 1 \in 1 .. Oldest /\ 0 \in 0 .. Oldest /\ 0 # 1
      OBVIOUS
    <3>3. files' \in FilesType
      BY <2>4, <3>2, RenamedKeeps DEF PromoteRoot, Fails
    <3>4. failures' \in Nat
      BY <2>4 DEF PromoteRoot
    <3> QED
      BY <3>1, <3>3, <3>4
  <2> QED
    BY <2>1, <2>2, <2>3, <2>4
<1>4. TypeOK'
  BY <1>1, <1>2, <1>3, EmptyType DEF TypeOK, FilesType, GensType
<1>5. SinkStages'
  BY <1>1, <1>2, <1>3 DEF SinkStages
<1> QED
  BY <1>4, <1>5 DEF SinkInv

LEMMA OtherStepsKeepTypes ==
    ASSUME SinkInv, RotateNothing \/ BeginRotate \/ Reopen \/ Start \/ BeginDrain \/ EndDrain \/ Crash
    PROVE  SinkInv'
<1> USE TypesApart
<1>1. CASE RotateNothing \/ BeginDrain
  <2>1. /\ files' = files /\ isOpen' = isOpen /\ buffer' = buffer /\ failures' = failures
        /\ gen' = gen /\ next' = next /\ base' = base /\ runs' = runs /\ lost' = lost
    BY <1>1 DEF RotateNothing, BeginDrain, history
  <2>2. written' \in Nat /\ pc' \in {"main", "drain"}
    BY <1>1 DEF RotateNothing, BeginDrain, AfterRotation, Goes
  <2>3. TypeOK'
    BY <2>1, <2>2 DEF TypeOK, FilesType, GensType
  <2>4. SinkStages'
    BY <2>1, <2>2 DEF SinkStages, SinkInv
  <2> QED
    BY <2>3, <2>4 DEF SinkInv
<1>2. CASE BeginRotate
  <2>1. /\ written' = written /\ failures' = failures
        /\ next' = next /\ base' = base /\ runs' = runs
        /\ isOpen /\ Close /\ ShiftFrom(Generations)
    BY <1>2 DEF BeginRotate, history
  <2>2. /\ gen' \in GensType /\ pc' \in {"remove", "clearFirst"}
        /\ pc' \in {"remove", "rename"} => gen' > 1
    BY <2>1, ShiftFromTypes, OldestType
  <2>3. files' \in FilesType /\ isOpen' = FALSE /\ buffer' = <<>> /\ lost' \in Nat
    BY <2>1, CloseKeeps
  <2>4. TypeOK'
    BY <2>1, <2>2, <2>3, EmptyType DEF TypeOK, FilesType, GensType
  <2>5. SinkStages'
    BY <2>2, <2>3 DEF SinkStages
  <2> QED
    BY <2>4, <2>5 DEF SinkInv
<1>3. CASE EndDrain
  <2>1. /\ written' = written /\ failures' = failures /\ gen' = gen
        /\ next' = next /\ base' = base /\ runs' = runs /\ pc' = "down" /\ Close
    BY <1>3 DEF EndDrain, history, Goes
  <2>2. files' \in FilesType /\ isOpen' = FALSE /\ buffer' = <<>> /\ lost' \in Nat
    <3>1. CASE isOpen
      BY <2>1, <3>1, CloseKeeps
    <3>2. CASE ~ isOpen
      BY <2>1, <3>2, NothingToClose
    <3> QED
      BY <3>1, <3>2
  <2>3. TypeOK'
    BY <2>1, <2>2, EmptyType DEF TypeOK, FilesType, GensType
  <2>4. SinkStages'
    BY <2>1, <2>2 DEF SinkStages
  <2> QED
    BY <2>3, <2>4 DEF SinkInv
<1>4. CASE Reopen \/ Start
  <2>1. Open(failures) \/ Open(0)
    BY <1>4 DEF Reopen, Start
  <2>2. /\ files' \in FilesType /\ isOpen' \in BOOLEAN /\ failures' \in Nat
        /\ isOpen' => files'[0] = <<>>
    BY <2>1, OpenKeeps
  <2>3. /\ pc' = "main" /\ written' = 0 /\ buffer' = buffer /\ gen' = gen /\ next' = next
        /\ lost' \in Nat
    BY <1>4 DEF Reopen, Start, Goes, AfterRotation
  <2>4. base' \in 0 .. next' /\ runs' \in 0 .. MaxRuns
    BY <1>4, BoundAssumption DEF Reopen, Start, history
  <2>5. ~ isOpen /\ buffer = <<>>
    BY <1>4 DEF SinkInv, SinkStages, Reopen, Start, Goes
  <2>6. TypeOK'
    BY <2>2, <2>3, <2>4, <2>5, EmptyType DEF TypeOK, FilesType, GensType
  <2>7. SinkStages'
    <3>1. isOpen' => files'[0] # NoFile
      BY <2>2, EmptyIsThere
    <3> QED
      BY <2>3, <2>5, <3>1 DEF SinkStages
  <2> QED
    BY <2>6, <2>7 DEF SinkInv
<1>5. CASE Crash
  <2>1. /\ files' = files /\ isOpen' = FALSE /\ buffer' = <<>> /\ failures' = failures
        /\ gen' = gen /\ next' = next /\ base' = base /\ runs' = runs /\ lost' = lost
        /\ written' = written /\ pc' = "crashed"
    BY <1>5 DEF Crash, history
  <2>2. TypeOK'
    BY <2>1, EmptyType DEF TypeOK, FilesType, GensType
  <2>3. SinkStages'
    BY <2>1 DEF SinkStages
  <2> QED
    BY <2>2, <2>3 DEF SinkInv
<1> QED
  BY <1>1, <1>2, <1>3, <1>4, <1>5

LEMMA SinkInvAlways == Spec => []SinkInv
<1>1. SinkInv /\ [Next]_vars => SinkInv'
  <2> SUFFICES ASSUME SinkInv, [Next]_vars PROVE SinkInv'
    OBVIOUS
  <2>1. CASE Write
    BY <2>1, WriteKeepsTypes
  <2>2. CASE RemoveOlder \/ RenameOlder \/ ClearFirst \/ PromoteRoot
    BY <2>2, ShiftKeepsTypes
  <2>3. CASE RotateNothing \/ BeginRotate \/ Reopen \/ Start \/ BeginDrain \/ EndDrain \/ Crash
    BY <2>3, OtherStepsKeepTypes
  <2>4. CASE UNCHANGED vars
    BY <2>4 DEF vars, SinkInv, TypeOK, SinkStages
  <2> QED
    BY <2>1, <2>2, <2>3, <2>4 DEF Next, Rotate
<1> QED
  BY SinkStarts, <1>1, PTL DEF Spec

\* The sink's state stays what its declarations say, whatever fails and whenever the
\* process dies: no more in the buffer than it has room for, no generation outside the
\* family, and never a record without a root to go to (service.cpp:326-363).
THEOREM SinkTyped == Spec => []TypeOK
<1>1. SinkInv => TypeOK
  BY DEF SinkInv
<1> QED
  BY <1>1, SinkInvAlways, PTL

-----------------------------------------------------------------------------
(* How large a generation gets.                                             *)

\* What a step may make of the numbered generations: keep, lose or replace by one within
\* the bound.
LEMMA FamilyBounded ==
    ASSUME BoundInv,
           \A h \in 1 .. Oldest : \/ files'[h] = files[h] \/ files'[h] = NoFile
                                  \/ \E g \in 0 .. Oldest : /\ files'[h] = files[g]
                                                            /\ Bytes(Content(g)) <= MaxGeneration
    PROVE  \A h \in 1 .. Oldest : Bytes(Content(h)') <= MaxGeneration
<1> SUFFICES ASSUME NEW h \in 1 .. Oldest PROVE Bytes(Content(h)') <= MaxGeneration
  OBVIOUS
<1>1. CASE files'[h] = NoFile
  <2>1. Content(h)' = <<>>
    BY <1>1 DEF Content, Exists
  <2> QED
    BY <2>1, BytesOfNone, MaxGenerationType
<1>2. ASSUME NEW g \in 0 .. Oldest, files'[h] = files[g], Bytes(Content(g)) <= MaxGeneration
      PROVE  Bytes(Content(h)') <= MaxGeneration
  <2>1. Content(h)' = Content(g)
    BY <1>2 DEF Content, Exists
  <2> QED
    BY <1>2, <2>1
<1>3. CASE files'[h] = files[h]
  <2>1. Bytes(Content(h)) <= MaxGeneration /\ h \in 0 .. Oldest
    BY OldestType DEF BoundInv
  <2> QED
    BY <1>2, <1>3, <2>1
<1> QED
  BY <1>1, <1>2, <1>3

\* The whole of an open stream: its root and its buffer.
Stream == files[0] \o buffer

LEMMA WithinBound ==
    ASSUME SinkInv, BoundInv, isOpen, pc \in {"main", "rotate"}
    PROVE  Bytes(Stream) \in Nat /\ Bytes(Stream) <= MaxGeneration
<1>1. Bytes(Stream) \in Nat
  BY StreamType, BytesType DEF Stream
<1>2. CASE pc = "main"
  <2> DEFINE b == Bytes(Stream)
  <2>1. b <= written /\ (written < SizeBound \/ written = 0) /\ written \in Nat
    BY <1>2 DEF BoundInv, Stream, SinkInv, TypeOK
  <2>2. PICK s \in RecordSizes : TRUE
    BY SizesAssumption
  <2>3. written + s <= MaxGeneration /\ s \in Nat /\ MaxGeneration \in Nat
    BY <2>1, SizeTypes, MaxGenerationType
  <2> HIDE DEF b
  <2>4. b \in Nat
    BY <1>1 DEF b
  <2>5. b <= MaxGeneration
    BY <2>1, <2>3, <2>4
  <2> QED
    BY <2>4, <2>5 DEF b
<1>3. CASE pc = "rotate"
  BY <1>1, <1>3 DEF BoundInv, Stream
<1> QED
  BY <1>2, <1>3

\* What the stream took.
LEMMA StreamAppends ==
    ASSUME SinkInv, isOpen, NEW size \in RecordSizes, WriteFlushed(size) \/ WriteUnflushed(size)
    PROVE  /\ files'[0] \in Seq(Records)
           /\ files'[0] \o buffer' = Append(files[0] \o buffer, NextRecord(size))
<1> DEFINE r == NextRecord(size)
           f == files[0]
<1>1. r \in Records
  BY NextRecordType
<1>2. f \in Seq(Records) /\ buffer \in Seq(Records)
  BY StreamType
<1>3. CASE WriteFlushed(size)
  <2> DEFINE w == files'[0]
  <2>1. w = f \o Append(buffer, r) /\ w \in Seq(Records) /\ buffer' = <<>>
    BY <1>3, FlushedGrows DEF WriteFlushed
  <2> HIDE DEF w, r, f
  <2>2. w \o <<>> = w
    BY <2>1
  <2>3. f \o Append(buffer, r) = Append(f \o buffer, r)
    BY <1>1, <1>2
  <2> QED
    BY <2>1, <2>2, <2>3 DEF w, r, f
<1>4. CASE WriteUnflushed(size)
  <2>1. files'[0] = f /\ buffer' = Append(buffer, r)
    BY <1>4 DEF WriteUnflushed
  <2> HIDE DEF r, f
  <2>2. f \o Append(buffer, r) = Append(f \o buffer, r)
    BY <1>1, <1>2
  <2> QED
    BY <1>2, <2>1, <2>2 DEF r, f
<1> QED
  BY <1>3, <1>4

\* A record that fwrite took adds its length to the stream.
LEMMA StreamGrows ==
    ASSUME SinkInv, isOpen, NEW size \in RecordSizes,
           WriteFlushed(size) \/ WriteUnflushed(size)
    PROVE  Bytes(files'[0] \o buffer') = Bytes(Stream) + size
<1> DEFINE r == NextRecord(size)
           s == files[0] \o buffer
<1>1. r \in Records /\ r.size = size /\ s \in Seq(Records)
  BY NextRecordType, StreamType DEF NextRecord
<1>2. files'[0] \o buffer' = Append(s, r)
  BY StreamAppends
<1> HIDE DEF r, s
<1>3. Bytes(Append(s, r)) = Bytes(s) + r.size
  BY <1>1, BytesOfMore
<1> QED
  BY Zenon, <1>1, <1>2, <1>3 DEF s, Stream

LEMMA WriteKeepsBound ==
    ASSUME SinkInv, BoundInv, Write
    PROVE  BoundInv'
<1>1. isOpen' = isOpen /\ pc \in {"main", "drain"}
  BY DEF Write
<1>2. written \in Nat /\ SizeBound \in Nat
  BY SizesAssumption DEF SinkInv, TypeOK
<1>3. \A h \in 1 .. Oldest : files'[h] = files[h]
  <2>1. ASSUME NEW size \in RecordSizes, WriteFlushed(size)
        PROVE  \A h \in 1 .. Oldest : files'[h] = files[h]
    BY <2>1, FlushedGrows
  <2>2. WriteRefused \/ (\E size \in RecordSizes : WriteUnflushed(size) \/ WriteElsewhere(size))
            => files' = files
    BY DEF WriteRefused, WriteUnflushed, WriteElsewhere
  <2> QED
    BY <2>1, <2>2 DEF Write
<1>4. \A h \in 1 .. Oldest : Bytes(Content(h)') <= MaxGeneration
  BY <1>3, FamilyBounded
<1>5. pc' \in {"main", "drain", "rotate"}
  BY <1>1 DEF Write, AfterWrite, WriteRefused, WriteFlushed, WriteUnflushed, WriteElsewhere
<1>6. ASSUME isOpen, pc = "main"
      PROVE  \E n \in RecordSizes \cup {0} :
                AfterWrite(n) /\ Bytes(files'[0] \o buffer') = Bytes(Stream) + n
  <2>1. CASE WriteRefused
    <3>1. AfterWrite(0) /\ files'[0] \o buffer' = Stream
      BY <2>1 DEF WriteRefused, Stream
    <3>2. Bytes(Stream) \in Nat
      BY <1>6, WithinBound
    <3> QED
      BY <3>1, <3>2
  <2>2. ASSUME NEW size \in RecordSizes, WriteFlushed(size) \/ WriteUnflushed(size)
        PROVE  AfterWrite(size) /\ Bytes(files'[0] \o buffer') = Bytes(Stream) + size
    BY <1>6, <2>2, StreamGrows DEF WriteFlushed, WriteUnflushed
  <2> QED
    BY <1>6, <2>1, <2>2 DEF Write, WriteElsewhere
<1>7. ASSUME isOpen, pc = "main"
      PROVE  /\ pc' = "main" => /\ Bytes(files'[0] \o buffer') <= written'
                                /\ written' < SizeBound \/ written' = 0
             /\ pc' = "rotate" => Bytes(files'[0] \o buffer') <= MaxGeneration
  <2> DEFINE b == Bytes(Stream)
             c == Bytes(files'[0] \o buffer')
  <2>1. PICK n \in RecordSizes \cup {0} : AfterWrite(n) /\ c = b + n
    BY <1>6, <1>7
  <2>2. b <= written /\ (written < SizeBound \/ written = 0) /\ b \in Nat
    BY <1>7, WithinBound DEF BoundInv, Stream
  <2>3. n \in Nat /\ MaxGeneration \in Nat /\ written + n <= MaxGeneration
    <3>1. n \in Nat /\ MaxGeneration \in Nat
      BY SizeTypes, MaxGenerationType
    <3>2. PICK s \in RecordSizes : n <= s
      BY SizesAssumption, SizeTypes
    <3>3. written + s <= MaxGeneration /\ s \in Nat
      BY <1>2, <2>2, <3>2, SizeTypes, MaxGenerationType
    <3> QED
      BY <1>2, <3>1, <3>2, <3>3
  <2> HIDE DEF b, c
  <2>4. c <= written + n
    BY <1>2, <2>1, <2>2, <2>3
  <2>5. /\ written' = written + n
        /\ pc' = IF written + n >= SizeBound THEN "rotate" ELSE "main"
    BY <1>7, <2>1 DEF AfterWrite, Full
  <2>6. pc' = "main" => c <= written' /\ written' < SizeBound
    BY <1>2, <2>3, <2>4, <2>5
  <2>7. c <= MaxGeneration
    <3>1. c \in Nat
      BY <2>1, <2>2, <2>3
    <3> QED
      BY <1>2, <2>3, <2>4, <3>1
  <2> QED
    BY <2>6, <2>7 DEF c
<1>8. pc # "main" => pc' = "drain"
  BY <1>1 DEF Write, AfterWrite, WriteRefused, WriteFlushed, WriteUnflushed, WriteElsewhere
<1>9. pc' \notin Shifting
  BY <1>5 DEF Shifting
<1> QED
  BY <1>1, <1>4, <1>7, <1>8, <1>9 DEF BoundInv

LEMMA ShiftKeepsBound ==
    ASSUME SinkInv, BoundInv, RemoveOlder \/ RenameOlder \/ ClearFirst \/ PromoteRoot
    PROVE  BoundInv'
<1> USE TypesApart, OldestType
<1>1. ~ isOpen /\ isOpen' = isOpen /\ pc \in Shifting
  BY DEF SinkInv, SinkStages, RemoveOlder, RenameOlder, ClearFirst, PromoteRoot, Goes, Shifting
<1>2. Bytes(Content(0)) <= MaxGeneration
  BY <1>1 DEF BoundInv
<1>3. \A g \in 0 .. Oldest : Bytes(Content(g)) <= MaxGeneration
  <2>1. \A g \in 0 .. Oldest : g = 0 \/ g \in 1 .. Oldest
    OBVIOUS
  <2> QED
    BY <1>2, <2>1 DEF BoundInv
<1>4. /\ pc' \in Shifting => files'[0] = files[0]
      /\ \A h \in 1 .. Oldest : \/ files'[h] = files[h] \/ files'[h] = NoFile
                                \/ \E g \in 0 .. Oldest : files'[h] = files[g]
  <2>1. CASE RemoveOlder
    <3>1. gen > 1
      BY <2>1 DEF RemoveOlder, Goes, SinkInv, SinkStages
    <3>2. gen \in 1 .. Oldest
      BY <3>1
    <3> QED
      BY <2>1, <3>2, RemovedKeeps DEF RemoveOlder, Fails
  <2>2. CASE RenameOlder
    <3>1. gen > 1
      BY <2>2 DEF RenameOlder, SinkInv, SinkStages
    <3>2. gen \in 1 .. Oldest /\ gen - 1 \in 0 .. Oldest /\ gen - 1 # gen /\ gen - 1 # 0
      BY <3>1
    <3> QED
      BY <2>2, <3>2, RenamedKeeps DEF RenameOlder, Fails
  <2>3. CASE ClearFirst
    <3>1. 1 \in 1 .. Oldest
      OBVIOUS
    <3> QED
      BY <2>3, <3>1, RemovedKeeps DEF ClearFirst, Fails
  <2>4. CASE PromoteRoot
    <3>1. 1 \in 1 .. Oldest /\ 0 \in 0 .. Oldest /\ 0 # 1
      OBVIOUS
    <3>2. pc' \notin Shifting
      BY <2>4 DEF PromoteRoot, Goes, Shifting
    <3> QED
      BY <2>4, <3>1, <3>2, RenamedKeeps DEF PromoteRoot, Fails
  <2> QED
    BY <2>1, <2>2, <2>3, <2>4
<1>5. \A h \in 1 .. Oldest : Bytes(Content(h)') <= MaxGeneration
  BY <1>3, <1>4, FamilyBounded
<1>6. pc' \in Shifting => Bytes(Content(0)') <= MaxGeneration
  <2> SUFFICES ASSUME pc' \in Shifting PROVE Bytes(Content(0)') <= MaxGeneration
    OBVIOUS
  <2>1. Content(0)' = Content(0)
    BY <1>4 DEF Content, Exists
  <2> QED
    BY <1>2, <2>1
<1> QED
  BY <1>1, <1>5, <1>6 DEF BoundInv

LEMMA OtherStepsKeepBound ==
    ASSUME SinkInv, SinkInv', BoundInv,
           RotateNothing \/ BeginRotate \/ Reopen \/ Start \/ BeginDrain \/ EndDrain \/ Crash
    PROVE  BoundInv'
<1> USE OldestType
<1>1. CASE RotateNothing \/ BeginDrain \/ Crash
  <2>1. files' = files /\ pc' \in {"main", "drain", "crashed"} /\ (isOpen' => pc' = "drain")
    BY <1>1 DEF RotateNothing, BeginDrain, Crash, Goes
  <2>2. \A h \in 1 .. Oldest : Bytes(Content(h)') <= MaxGeneration
    BY <2>1, FamilyBounded
  <2> QED
    BY <2>1, <2>2 DEF BoundInv, Shifting
<1>2. CASE BeginRotate
  <2>1. isOpen /\ pc = "rotate" /\ Close /\ pc' \in {"remove", "clearFirst"}
    BY <1>2 DEF BeginRotate, ShiftFrom
  <2>2. isOpen' = FALSE /\ files'[0] \in {files[0], files[0] \o buffer}
        /\ \A h \in 1 .. Oldest : files'[h] = files[h]
    BY <2>1, CloseKeeps
  <2>3. \A h \in 1 .. Oldest : Bytes(Content(h)') <= MaxGeneration
    BY <2>2, FamilyBounded
  <2>4. Bytes(Content(0)') <= MaxGeneration
    <3> DEFINE f == files[0]
               w == files'[0]
    <3>1. f \in Seq(Records) /\ buffer \in Seq(Records) /\ f \o buffer \in Seq(Records)
      BY <2>1, StreamType
    <3>2. Bytes(f) <= Bytes(f \o buffer) /\ Bytes(f) \in Nat /\ Bytes(f \o buffer) \in Nat
      BY <3>1, BytesOfPart, BytesType
    <3>3. Bytes(f \o buffer) <= MaxGeneration /\ MaxGeneration \in Nat
      BY <2>1, WithinBound, MaxGenerationType DEF Stream
    <3> HIDE DEF f
    <3>4. Bytes(w) <= MaxGeneration
      <4>1. w = f \/ w = f \o buffer
        BY <2>2 DEF f
      <4>2. Bytes(f) <= MaxGeneration
        <5> DEFINE x == Bytes(f)
                   y == Bytes(f \o buffer)
        <5>1. x <= y /\ x \in Nat /\ y \in Nat /\ y <= MaxGeneration /\ MaxGeneration \in Nat
          BY <3>2, <3>3
        <5> HIDE DEF x, y
        <5>2. x <= MaxGeneration
          BY <5>1
        <5> QED
          BY <5>2 DEF x
      <4> QED
        BY <3>3, <4>1, <4>2
    <3>5. Content(0)' = w \/ Content(0)' = <<>>
      BY DEF Content, Exists
    <3> QED
      BY <3>3, <3>4, <3>5, BytesOfNone
  <2> QED
    BY <2>1, <2>2, <2>3, <2>4 DEF BoundInv
<1>3. CASE EndDrain
  <2>1. pc' = "down" /\ Close
    BY <1>3 DEF EndDrain, Goes
  <2>2. isOpen' = FALSE /\ \A h \in 1 .. Oldest : files'[h] = files[h]
    <3>1. CASE isOpen
      BY <2>1, <3>1, CloseKeeps
    <3>2. CASE ~ isOpen
      <4>1. \A h \in 1 .. Oldest : h \in 0 .. Oldest
        OBVIOUS
      <4> QED
        BY <2>1, <3>2, <4>1, NothingToClose
    <3> QED
      BY <3>1, <3>2
  <2>3. \A h \in 1 .. Oldest : Bytes(Content(h)') <= MaxGeneration
    BY <2>2, FamilyBounded
  <2> QED
    BY <2>1, <2>2, <2>3 DEF BoundInv, Shifting
<1>4. CASE Reopen \/ Start
  <2>1. /\ pc' = "main" /\ written' = 0 /\ buffer' = buffer /\ buffer = <<>>
        /\ Open(failures) \/ Open(0)
    BY <1>4 DEF Reopen, Start, AfterRotation, Goes, SinkInv, SinkStages
  <2>2. /\ isOpen' => files'[0] = <<>>
        /\ \A h \in 1 .. Oldest : files'[h] = files[h]
    BY <2>1, OpenKeeps DEF SinkInv, TypeOK
  <2>3. \A h \in 1 .. Oldest : Bytes(Content(h)') <= MaxGeneration
    BY <2>2, FamilyBounded
  <2>4. isOpen' => Bytes(files'[0] \o buffer') <= written'
    <3> SUFFICES ASSUME isOpen' PROVE Bytes(files'[0] \o buffer') <= written'
      OBVIOUS
    <3>1. files'[0] \o buffer' = <<>>
      BY <2>1, <2>2
    <3> QED
      BY <2>1, <3>1, BytesOfNone
  <2> QED
    BY <2>1, <2>3, <2>4 DEF BoundInv, Shifting
<1> QED
  BY <1>1, <1>2, <1>3, <1>4

LEMMA BoundInvAlways == Spec => []BoundInv
<1>1. Init => BoundInv
  <2> SUFFICES ASSUME Init PROVE BoundInv
    OBVIOUS
  <2>1. \A g \in 1 .. Oldest : Content(g) = <<>>
    BY OldestType DEF Init, Content, Exists
  <2> QED
    BY <2>1, BytesOfNone, MaxGenerationType DEF Init, BoundInv, Shifting
<1>2. SinkInv /\ SinkInv' /\ BoundInv /\ [Next]_vars => BoundInv'
  <2> SUFFICES ASSUME SinkInv, SinkInv', BoundInv, [Next]_vars PROVE BoundInv'
    OBVIOUS
  <2>1. CASE Write
    BY <2>1, WriteKeepsBound
  <2>2. CASE RemoveOlder \/ RenameOlder \/ ClearFirst \/ PromoteRoot
    BY <2>2, ShiftKeepsBound
  <2>3. CASE RotateNothing \/ BeginRotate \/ Reopen \/ Start \/ BeginDrain \/ EndDrain \/ Crash
    BY <2>3, OtherStepsKeepBound
  <2>4. CASE UNCHANGED vars
    BY <2>4 DEF vars, BoundInv, Content, Exists
  <2> QED
    BY <2>1, <2>2, <2>3, <2>4 DEF Next, Rotate
<1> QED
  BY <1>1, <1>2, SinkInvAlways, PTL DEF Spec

\* No generation outgrows the bound by more than its last record, whatever fails and
\* whenever the process dies, for every bound, family and set of line lengths
\* (write_record() and rotate(), service.cpp:326-363, 447-461).
THEOREM GenerationsBounded == Spec => []GenerationBounded
<1>1. SinkInv /\ BoundInv => GenerationBounded
  <2> SUFFICES ASSUME SinkInv, BoundInv PROVE GenerationBounded
    OBVIOUS
  <2>1. isOpen /\ pc # "drain" => Bytes(files[0] \o buffer) <= MaxGeneration
    BY WithinBound DEF Stream, SinkInv, SinkStages
  <2> QED
    BY <2>1 DEF GenerationBounded, BoundInv
<1> QED
  BY <1>1, SinkInvAlways, BoundInvAlways, PTL

\* No line that reaches a file is that of a message the escape buffer spoiled, since it
\* spoils none (service.cpp:365-367, 398-400).
THEOREM NoLineIsSpoiled == Spec => []EscapeFits
<1>1. EscapeFits
  BY NoneIsBad DEF EscapeFits
<1> QED
  BY <1>1, PTL

-----------------------------------------------------------------------------
(* The records of this run, filtered from a sequence of records.            *)

Kept(before, r) == IF r.id >= base THEN Append(before, r) ELSE before
IsKept(f, s, n) == f = [k \in 0 .. n |-> IF k = 0 THEN <<>> ELSE Kept(f[k - 1], s[k])]

LEMMA KeptIs ==
    ASSUME NEW s
    PROVE  OfThisRun(s) = (CHOOSE f : IsKept(f, s, Len(s)))[Len(s)]
  BY Zenon DEF OfThisRun, IsKept, Kept

LEMMA KeptExists ==
    ASSUME NEW s PROVE \A n \in Nat : \E f : IsKept(f, s, n)
<1> DEFINE S == {n \in Nat : \E f : IsKept(f, s, n)}
<1>1. 0 \in S
  <2> DEFINE f == [k \in 0 .. 0 |-> <<>>]
  <2>1. IsKept(f, s, 0)
    BY DEF IsKept
  <2> QED
    BY <2>1
<1>2. ASSUME NEW n \in Nat, n \in S PROVE n + 1 \in S
  <2>1. PICK f : IsKept(f, s, n)
    BY <1>2
  <2> DEFINE g == [k \in 0 .. n + 1 |-> IF k = n + 1 THEN Kept(f[n], s[n + 1]) ELSE f[k]]
  <2>2. \A k \in 0 .. n : f[k] = IF k = 0 THEN <<>> ELSE Kept(f[k - 1], s[k])
    BY <2>1 DEF IsKept
  <2>3. ASSUME NEW k \in 0 .. n + 1
        PROVE  g[k] = IF k = 0 THEN <<>> ELSE Kept(g[k - 1], s[k])
    <3>1. CASE k = n + 1
      BY <3>1
    <3>2. CASE k # n + 1
      <4>1. k \in 0 .. n
        BY <3>2
      <4>2. g[k] = f[k] /\ (k # 0 => g[k - 1] = f[k - 1])
        BY <4>1
      <4> QED
        BY <2>2, <4>1, <4>2
    <3> QED
      BY <3>1, <3>2
  <2>4. g = [k \in 0 .. n + 1 |-> g[k]]
    OBVIOUS
  <2> HIDE DEF g
  <2>5. IsKept(g, s, n + 1)
    BY <2>3, <2>4 DEF IsKept
  <2> QED
    BY <2>5
<1> HIDE DEF S
<1>3. \A n \in Nat : n \in S
  BY <1>1, <1>2, NatInd
<1> QED
  BY <1>3 DEF S

LEMMA KeptAgree ==
    ASSUME NEW s, NEW t, NEW n \in Nat, NEW m \in Nat, n <= m, NEW f, NEW g,
           IsKept(f, s, n), IsKept(g, t, m), \A i \in 1 .. n : s[i] = t[i]
    PROVE  f[n] = g[n]
<1> DEFINE S == {k \in Nat : k <= n => f[k] = g[k]}
<1>1. 0 \in S
  BY DEF IsKept
<1>2. ASSUME NEW k \in Nat, k \in S PROVE k + 1 \in S
  <2> SUFFICES ASSUME k + 1 <= n PROVE f[k + 1] = g[k + 1]
    OBVIOUS
  <2>1. f[k + 1] = Kept(f[k], s[k + 1]) /\ g[k + 1] = Kept(g[k], t[k + 1])
    BY DEF IsKept
  <2>2. f[k] = g[k] /\ s[k + 1] = t[k + 1]
    BY <1>2
  <2> QED
    BY <2>1, <2>2
<1> HIDE DEF S
<1>3. \A k \in Nat : k \in S
  BY <1>1, <1>2, NatInd
<1> QED
  BY <1>3 DEF S

LEMMA KeptOfNone == OfThisRun(<<>>) = <<>>
<1>1. PICK f : IsKept(f, <<>>, 0) /\ OfThisRun(<<>>) = f[0]
  <2> DEFINE f == CHOOSE f : IsKept(f, <<>>, 0)
  <2>1. \E g : IsKept(g, <<>>, 0)
    BY KeptExists
  <2>2. IsKept(f, <<>>, 0)
    BY Zenon, <2>1
  <2>3. Len(<<>>) = 0
    OBVIOUS
  <2>4. OfThisRun(<<>>) = f[0]
    BY Zenon, <2>3, KeptIs
  <2> HIDE DEF f
  <2> QED
    BY <2>2, <2>4
<1> QED
  BY <1>1 DEF IsKept

\* One record more.
LEMMA KeptOfMore ==
    ASSUME NEW s \in Seq(Records), NEW r \in Records
    PROVE  OfThisRun(Append(s, r)) = IF r.id >= base THEN Append(OfThisRun(s), r) ELSE OfThisRun(s)
<1> DEFINE t == Append(s, r)
           n == Len(s)
           f == CHOOSE f : IsKept(f, s, n)
           g == CHOOSE g : IsKept(g, t, n + 1)
<1>1. n \in Nat /\ n + 1 \in Nat /\ Len(t) = n + 1 /\ t[n + 1] = r /\ \A i \in 1 .. n : s[i] = t[i]
  OBVIOUS
<1> HIDE DEF n, t
<1>2. (\E h : IsKept(h, s, n)) /\ \E h : IsKept(h, t, n + 1)
  BY <1>1, KeptExists
<1>3. IsKept(f, s, n) /\ IsKept(g, t, n + 1)
  BY Zenon, <1>2
<1>4. OfThisRun(s) = f[n]
  BY Zenon, KeptIs DEF n
<1>5. OfThisRun(t) = g[n + 1]
  BY Zenon, <1>1, KeptIs
<1> HIDE DEF f, g
<1>6. f[n] = g[n]
  <2>1. n + 1 \in Nat /\ n <= n + 1
    BY <1>1
  <2> QED
    BY <1>1, <1>3, <2>1, KeptAgree
<1>7. g[n + 1] = Kept(g[n], t[n + 1])
  BY <1>1, <1>3 DEF IsKept
<1>8. OfThisRun(t) = IF r.id >= base THEN Append(OfThisRun(s), r) ELSE OfThisRun(s)
  BY Zenon, <1>1, <1>4, <1>5, <1>6, <1>7 DEF Kept
<1> QED
  BY <1>8 DEF t

\* Records of an earlier run add nothing.
LEMMA EarlierAddNothing ==
    ASSUME NEW s \in Seq(Records), NEW c \in Seq(Records),
           \A i \in 1 .. Len(c) : ~ (c[i].id >= base)
    PROVE  OfThisRun(s \o c) = OfThisRun(s)
<1> DEFINE Right(n) == \A e \in Seq(Records) :
                          Len(e) = n /\ (\A i \in 1 .. n : ~ (e[i].id >= base))
                             => OfThisRun(s \o e) = OfThisRun(s)
           S == {n \in Nat : Right(n)}
<1>1. 0 \in S
  <2> SUFFICES ASSUME NEW e \in Seq(Records), Len(e) = 0 PROVE OfThisRun(s \o e) = OfThisRun(s)
    OBVIOUS
  <2>1. s \o e = s
    OBVIOUS
  <2> QED
    BY <2>1
<1>2. ASSUME NEW n \in Nat, n \in S PROVE n + 1 \in S
  <2> SUFFICES ASSUME NEW e \in Seq(Records), Len(e) = n + 1,
                      \A i \in 1 .. n + 1 : ~ (e[i].id >= base)
               PROVE  OfThisRun(s \o e) = OfThisRun(s)
    OBVIOUS
  <2>1. PICK d \in Seq(Records), r \in Records :
           Len(d) = n /\ e = Append(d, r) /\ e[n + 1] = r /\ \A i \in 1 .. n : d[i] = e[i]
    BY LastOne
  <2> DEFINE sd == s \o d
  <2>2. ~ (r.id >= base) /\ \A i \in 1 .. n : ~ (d[i].id >= base)
    BY <2>1
  <2>3. OfThisRun(sd) = OfThisRun(s)
    BY <1>2, <2>1, <2>2
  <2>4. sd \in Seq(Records) /\ s \o e = Append(sd, r)
    BY <2>1, JoinedToMore
  <2> HIDE DEF sd
  <2>5. OfThisRun(Append(sd, r)) = OfThisRun(sd)
    BY <2>2, <2>4, KeptOfMore
  <2> QED
    BY <2>3, <2>4, <2>5
<1> HIDE DEF S
<1>3. \A n \in Nat : n \in S
  BY <1>1, <1>2, NatInd
<1>4. Len(c) \in S
  BY <1>3
<1> QED
  BY <1>4 DEF S

\* Records of this run are all kept.
LEMMA OwnAreKept ==
    ASSUME NEW s \in Seq(Records), OfThisRun(s) \in Seq(Records), NEW c \in Seq(Records),
           \A i \in 1 .. Len(c) : c[i].id >= base
    PROVE  OfThisRun(s \o c) = OfThisRun(s) \o c
<1> DEFINE k == OfThisRun(s)
           Right(n) == \A e \in Seq(Records) :
                          Len(e) = n /\ (\A i \in 1 .. n : e[i].id >= base)
                             => OfThisRun(s \o e) = k \o e
           S == {n \in Nat : Right(n)}
<1> HIDE DEF k
<1>1. 0 \in S
  <2> SUFFICES ASSUME NEW e \in Seq(Records), Len(e) = 0 PROVE OfThisRun(s \o e) = k \o e
    OBVIOUS
  <2>1. s \o e = s /\ k \o e = k
    BY DEF k
  <2> QED
    BY <2>1 DEF k
<1>2. ASSUME NEW n \in Nat, n \in S PROVE n + 1 \in S
  <2> SUFFICES ASSUME NEW e \in Seq(Records), Len(e) = n + 1,
                      \A i \in 1 .. n + 1 : e[i].id >= base
               PROVE  OfThisRun(s \o e) = k \o e
    OBVIOUS
  <2>1. PICK d \in Seq(Records), r \in Records :
           Len(d) = n /\ e = Append(d, r) /\ e[n + 1] = r /\ \A i \in 1 .. n : d[i] = e[i]
    BY LastOne
  <2> DEFINE sd == s \o d
             kd == k \o d
  <2>2. r.id >= base /\ \A i \in 1 .. n : d[i].id >= base
    BY <2>1
  <2>3. OfThisRun(sd) = kd
    BY <1>2, <2>1, <2>2
  <2>4. k \in Seq(Records)
    BY DEF k
  <2>5. sd \in Seq(Records) /\ s \o e = Append(sd, r) /\ k \o e = Append(kd, r)
    <3>1. sd \in Seq(Records) /\ s \o e = Append(sd, r)
      BY <2>1, JoinedToMore
    <3>2. k \o Append(d, r) = Append(k \o d, r)
      BY <2>4, JoinedToMore
    <3> QED
      BY Zenon, <2>1, <3>1, <3>2
  <2> HIDE DEF sd, kd
  <2>6. OfThisRun(Append(sd, r)) = Append(OfThisRun(sd), r)
    BY <2>2, <2>5, KeptOfMore
  <2> QED
    BY <2>3, <2>5, <2>6
<1> HIDE DEF S
<1>3. \A n \in Nat : n \in S
  BY <1>1, <1>2, NatInd
<1>4. Len(c) \in S
  BY <1>3
<1> QED
  BY <1>4 DEF S, k

-----------------------------------------------------------------------------
(* What is retained.  The records a run has written are numbered without a  *)
(* gap, and `cut` says where the family's files cut them: generation g ends *)
(* before number cut[g], and begins with cut[g + 1].                        *)

\* The records before number n.
Older(s, n) == \A i \in DOMAIN s : s[i].id < n

\* Every record was written already, so that all of them are older than the next run.
AllWritten == (\A g \in 0 .. Oldest : Older(Content(g), next)) /\ Older(buffer, next)

\* The newest of the family: the root, and what the stream has still to put into it.
Youngest == Content(0) \o buffer

\* Nothing excuses the sink.
Unhurt == failures = 0 /\ lost = 0 /\ pc # "crashed"

\* The records a .. b - 1, in this order.
Stretch(s, a, b) == Len(s) = b - a /\ \A i \in 1 .. Len(s) : s[i].id = a + i - 1

\* A generation of this run that was rotated when it was full, and one of an earlier run.
Filled(g) == Bytes(Content(g)) >= SizeBound /\ \A i \in DOMAIN Content(g) : Content(g)[i].id >= base
Earlier(g) == Older(Content(g), base)

\* The numbered generation that the shifting has emptied and not yet filled, or 0.
Hole ==
    CASE pc = "rename" -> gen
      [] pc = "remove" /\ gen < Generations -> gen
      [] pc = "clearFirst" /\ Generations > 1 -> 1
      [] pc = "promote" -> 1
      [] OTHER -> 0

\* Only an open stream is written, the count is what it took, what is being shifted is
\* full, and nothing is renamed onto a generation that still holds something.
StreamHolds ==
    /\ pc \in {"main", "drain", "rotate"} => isOpen
    /\ pc \in {"main", "rotate"} => written = Bytes(Youngest)
    /\ pc \in {"rotate"} \cup Shifting => Exists(0) /\ Bytes(Youngest) >= SizeBound
    /\ pc = "reopen" => ~ Exists(0)
    /\ Hole # 0 /\ (pc = "promote" => Generations > 1) => ~ Exists(Hole)

Cuts == [0 .. Oldest + 1 -> base .. next]

\* A generation holds the stretch between its cuts, or what an earlier run left; and if a
\* record of this run lies behind generation g, or is gone, those before g are full.
CutHolds(cut) ==
    /\ cut[0] = next /\ Stretch(Youngest, cut[1], next)
    /\ \A g \in 1 .. Oldest : \/ Stretch(Content(g), cut[g + 1], cut[g])
                              \/ Earlier(g) /\ cut[g + 1] = cut[g]
    /\ \A g \in 1 .. Oldest + 1 :
          cut[g] > base => \A h \in 1 .. g - 1 : h = Hole \/ Filled(h)

Intact == StreamHolds /\ \E cut \in Cuts : CutHolds(cut)

RetainInv == AllWritten /\ (Unhurt => Intact)

LEMMA ContentsType ==
    ASSUME SinkInv
    PROVE  /\ \A g \in 0 .. Oldest : Content(g) \in Seq(Records)
           /\ Youngest \in Seq(Records) /\ base \in Nat /\ next \in Nat /\ base <= next
<1>1. <<>> \in Seq(Records)
  OBVIOUS
<1>2. \A g \in 0 .. Oldest : Content(g) \in Seq(Records)
  BY <1>1, TypesApart, ContentType DEF Content, Exists
<1>3. Content(0) \in Seq(Records) /\ buffer \in Seq(Records)
  BY <1>2, TypesApart, OldestType
<1>4. Youngest \in Seq(Records)
  BY <1>3 DEF Youngest
<1>5. base \in Nat /\ next \in Nat /\ base <= next
  BY TypesApart, BoundAssumption
<1> QED
  BY <1>2, <1>4, <1>5

LEMMA StretchesJoin ==
    ASSUME NEW a \in Nat, NEW b \in Nat, NEW d \in Nat,
           NEW s \in Seq(Records), NEW c \in Seq(Records), Stretch(s, a, b), Stretch(c, b, d)
    PROVE  s \o c \in Seq(Records) /\ Stretch(s \o c, a, d)
<1> DEFINE n == Len(s)
           k == Len(c)
           u == Joined(s, c)
<1>1. n \in Nat /\ k \in Nat /\ n = b - a /\ k = d - b
      /\ (\A i \in 1 .. n : s[i].id = a + i - 1) /\ \A i \in 1 .. k : c[i].id = b + i - 1
  BY DEF Stretch
<1>2. /\ u \in Seq(Records) /\ Len(u) = n + k
      /\ \A i \in 1 .. n : u[i] = s[i]
      /\ \A i \in 1 .. k : u[n + i] = c[i]
  <2>1. Row(Records, s, n) /\ Row(Records, c, k)
    BY DEF Row
  <2>2. n \in Nat /\ k \in Nat
    BY <1>1
  <2> HIDE DEF n, k
  <2>3. Row(Records, u, n + k) /\ Follows(u, s, n, c, k)
    BY <2>1, <2>2, JoinedBehind
  <2> HIDE DEF u
  <2> QED
    BY <2>3 DEF Row, Follows
<1> HIDE DEF n, k, u
<1>3. ASSUME NEW i \in 1 .. n + k PROVE u[i].id = a + i - 1
  <2>1. CASE i \in 1 .. n
    BY <1>1, <1>2, <2>1
  <2>2. CASE i \in n + 1 .. n + k
    <3>1. PICK j \in 1 .. k : i = n + j
      <4>1. i - n \in 1 .. k /\ i = n + (i - n)
        BY <1>1, <2>2
      <4> QED
        BY <4>1
    <3>2. u[i] = c[j] /\ c[j].id = b + j - 1
      BY <1>1, <1>2, <3>1
    <3>3. b + j - 1 = a + i - 1
      BY <1>1, <3>1
    <3> QED
      BY <3>2, <3>3
  <2>3. i \in 1 .. n \/ i \in n + 1 .. n + k
    BY <1>1
  <2> QED
    BY <2>1, <2>2, <2>3
<1>4. Len(u) = d - a
  BY <1>1, <1>2
<1>5. Stretch(u, a, d)
  BY <1>2, <1>3, <1>4 DEF Stretch
<1> QED
  BY <1>2, <1>5 DEF u, Joined

\* What the next younger generation adds to the records of this run in the older ones.
LEMMA KeptBehind ==
    ASSUME SinkInv, NEW a \in Nat, NEW b \in Nat, NEW d \in Nat, base <= b,
           NEW s \in Seq(Records), OfThisRun(s) \in Seq(Records), Stretch(OfThisRun(s), a, b),
           NEW g \in 0 .. Oldest, Stretch(Content(g), b, d) \/ (Earlier(g) /\ b = d)
    PROVE  /\ s \o Content(g) \in Seq(Records) /\ OfThisRun(s \o Content(g)) \in Seq(Records)
           /\ Stretch(OfThisRun(s \o Content(g)), a, d)
           /\ Filled(g) => Bytes(OfThisRun(s \o Content(g))) >= Bytes(OfThisRun(s)) + SizeBound
<1> DEFINE c == Content(g)
           k == OfThisRun(s)
<1>1. c \in Seq(Records) /\ base \in Nat /\ SizeBound \in Nat
  BY ContentsType, SizesAssumption
<1>2. DOMAIN c = 1 .. Len(c) /\ \A i \in DOMAIN c : c[i].id \in Nat
  <2>1. DOMAIN c = 1 .. Len(c) /\ \A i \in DOMAIN c : c[i] \in Records
    BY <1>1
  <2> QED
    BY <2>1 DEF Records
<1>3. k \in Seq(Records) /\ Bytes(k) \in Nat /\ Bytes(c) \in Nat
  BY <1>1, BytesType
<1>4. s \o c \in Seq(Records)
  BY <1>1
<1>5. CASE Stretch(c, b, d)
  <2>1. \A i \in 1 .. Len(c) : c[i].id >= base
    <3>1. \A i \in 1 .. Len(c) : c[i].id = b + i - 1
      BY <1>5 DEF Stretch
    <3> QED
      BY <1>1, <3>1
  <2>2. OfThisRun(s \o c) = k \o c
    <3> HIDE DEF c
    <3> QED
      BY <1>1, <2>1, OwnAreKept
  <2>3. k \o c \in Seq(Records) /\ Stretch(k \o c, a, d)
    <3> HIDE DEF c, k
    <3> QED
      BY <1>1, <1>3, <1>5, StretchesJoin DEF k
  <2>4. Bytes(k \o c) = Bytes(k) + Bytes(c)
    <3> HIDE DEF c, k
    <3> QED
      BY <1>1, <1>3, BytesOfBoth
  <2>5. Filled(g) => Bytes(k \o c) >= Bytes(k) + SizeBound
    <3> DEFINE x == Bytes(k)
               y == Bytes(c)
    <3>1. x \in Nat /\ y \in Nat /\ (Filled(g) => y >= SizeBound)
      BY <1>3 DEF Filled
    <3> HIDE DEF x, y
    <3>2. Filled(g) => x + y >= x + SizeBound
      BY <1>1, <3>1
    <3> QED
      BY Zenon, <2>4, <3>2 DEF x, y
  <2> QED
    BY Zenon, <1>4, <2>2, <2>3, <2>5
<1>6. CASE Earlier(g) /\ b = d
  <2>1. \A i \in 1 .. Len(c) : ~ (c[i].id >= base)
    BY <1>1, <1>2, <1>6 DEF Earlier, Older
  <2>2. OfThisRun(s \o c) = k
    <3> HIDE DEF c
    <3> QED
      BY <1>1, <2>1, EarlierAddNothing
  <2>3. Filled(g) => SizeBound = 0
    <3> SUFFICES ASSUME Filled(g) PROVE SizeBound = 0
      OBVIOUS
    <3>1. 1 .. Len(c) = {}
      BY <1>2, <2>1 DEF Filled
    <3>2. c = <<>>
      <4> HIDE DEF c
      <4>1. Len(c) \in Nat
        BY <1>1
      <4>2. Len(c) = 0
        <5> DEFINE n == Len(c)
        <5>1. n \in Nat /\ 1 .. n = {}
          BY <3>1, <4>1
        <5> HIDE DEF n
        <5>2. n = 0
          BY <5>1
        <5> QED
          BY <5>2 DEF n
      <4> QED
        BY <1>1, <4>2
    <3>3. Bytes(c) >= SizeBound
      BY DEF Filled
    <3> QED
      BY <1>1, <3>2, <3>3, BytesOfNone
  <2>4. Filled(g) => Bytes(k) >= Bytes(k) + SizeBound
    <3> DEFINE x == Bytes(k)
    <3>1. x \in Nat
      BY <1>3
    <3> HIDE DEF x
    <3>2. Filled(g) => x >= x + SizeBound
      BY <2>3, <3>1
    <3> QED
      BY <3>2 DEF x
  <2> QED
    BY Zenon, <1>3, <1>4, <1>6, <2>2, <2>4
<1> QED
  BY <1>5, <1>6

-----------------------------------------------------------------------------
(* The family, from the oldest generation to the root.                      *)

IsFlat(f, q, n) == f = [i \in 1 .. n |-> IF i = 1 THEN q[i] ELSE Joined(f[i - 1], q[i])]

LEMMA FlatExists ==
    ASSUME NEW q PROVE \A n \in Nat : \E f : IsFlat(f, q, n)
<1> DEFINE S == {n \in Nat : \E f : IsFlat(f, q, n)}
<1>1. 0 \in S
  <2> DEFINE f == [i \in 1 .. 0 |-> q]
  <2>1. IsFlat(f, q, 0)
    BY DEF IsFlat
  <2> QED
    BY <2>1
<1>2. ASSUME NEW n \in Nat, n \in S PROVE n + 1 \in S
  <2>1. PICK f : IsFlat(f, q, n)
    BY <1>2
  <2> DEFINE Grown(before, i) == IF i = 1 THEN q[i] ELSE Joined(before, q[i])
             g == [i \in 1 .. n + 1 |-> IF i = n + 1 THEN Grown(f[n], i) ELSE f[i]]
  <2>2. \A i \in 1 .. n : f[i] = Grown(f[i - 1], i)
    BY <2>1 DEF IsFlat
  <2>3. ASSUME NEW i \in 1 .. n + 1
        PROVE  g[i] = Grown(g[i - 1], i)
    <3>1. CASE i = n + 1
      BY <3>1
    <3>2. CASE i # n + 1
      <4>1. i \in 1 .. n
        BY <3>2
      <4>2. g[i] = f[i] /\ (i # 1 => g[i - 1] = f[i - 1])
        BY <4>1
      <4> QED
        BY <2>2, <4>1, <4>2
    <3> QED
      BY <3>1, <3>2
  <2>4. g = [i \in 1 .. n + 1 |-> g[i]]
    OBVIOUS
  <2> HIDE DEF g
  <2>5. IsFlat(g, q, n + 1)
    BY <2>3, <2>4 DEF IsFlat
  <2> QED
    BY <2>5
<1> HIDE DEF S
<1>3. \A n \in Nat : n \in S
  BY <1>1, <1>2, NatInd
<1> QED
  BY <1>3 DEF S

LEMMA FamilyIs ==
    \E f : /\ Family = f[Oldest + 1] /\ f[1] = Content(Oldest)
           /\ \A i \in 2 .. Oldest + 1 : f[i] = f[i - 1] \o Content(Oldest + 1 - i)
<1> DEFINE n == Oldest + 1
           q == [i \in 1 .. n |-> Content(Oldest + 1 - i)]
           f == CHOOSE f : IsFlat(f, q, n)
<1>1. n \in Nat /\ n # 0 /\ Oldest \in Nat /\ 1 \in 1 .. n
  BY OldestType
<1>2. Len(q) = n
  <2> HIDE DEF n
  <2> QED
    BY <1>1
<1>3. Family = FlattenSeq(q)
  BY DEF Family
<1>4. (\A i \in 1 .. n : q[i] = Content(Oldest + 1 - i)) /\ q[1] = Content(Oldest)
  <2>1. Oldest + 1 - 1 = Oldest
    BY <1>1
  <2> QED
    BY <1>1, <2>1
<1> HIDE DEF n, q
<1>5. IsFlat(f, q, n)
  <2>1. \E g : IsFlat(g, q, n)
    BY <1>1, FlatExists
  <2> QED
    BY Zenon, <2>1
<1>6. Family = f[n]
  <2>1. ~ (Len(q) = 0)
    BY <1>1, <1>2
  <2> QED
    BY Zenon, <1>2, <1>3, <2>1 DEF FlattenSeq, IsFlat, Joined
<1> HIDE DEF f
<1>7. f[1] = q[1] /\ \A i \in 2 .. n : f[i] = Joined(f[i - 1], q[i])
  <2>1. \A i \in 2 .. n : i \in 1 .. n /\ i # 1
    BY <1>1
  <2> QED
    BY <1>1, <1>5, <2>1 DEF IsFlat
<1>8. \A i \in 2 .. n : f[i] = f[i - 1] \o Content(Oldest + 1 - i)
  <2>1. \A i \in 2 .. n : i \in 1 .. n
    BY <1>1
  <2> QED
    BY <1>4, <1>7, <2>1 DEF Joined
<1> QED
  BY <1>4, <1>6, <1>7, <1>8 DEF n

-----------------------------------------------------------------------------
(* What the cuts say of the records that can still be read.                 *)

\* The n oldest files of the family, of which s is what they hold.
UpTo(s, cut, n) ==
    /\ s \in Seq(Records) /\ OfThisRun(s) \in Seq(Records)
    /\ Stretch(OfThisRun(s), cut[Oldest + 1], cut[(Oldest + 1) - n])
    /\ (\A h \in 1 .. Oldest : Filled(h)) => Bytes(OfThisRun(s)) >= SizeBound * n

LEMMA CutTypes ==
    ASSUME SinkInv, NEW cut \in Cuts
    PROVE  \A g \in 0 .. Oldest + 1 : cut[g] \in Nat /\ base <= cut[g] /\ cut[g] <= next
<1>1. \A g \in 0 .. Oldest + 1 : cut[g] \in base .. next
  BY DEF Cuts
<1> QED
  BY <1>1, ContentsType

LEMMA UpToFirst ==
    ASSUME SinkInv, NEW cut \in Cuts, CutHolds(cut)
    PROVE  UpTo(Content(Oldest), cut, 1)
<1> DEFINE none == <<>>
           b == cut[Oldest + 1]
           d == cut[Oldest]
           c == Content(Oldest)
<1>1. Oldest \in Nat /\ Oldest >= 1 /\ Oldest \in 1 .. Oldest /\ Oldest \in 0 .. Oldest
      /\ Oldest + 1 \in 0 .. Oldest + 1 /\ Oldest \in 0 .. Oldest + 1
  BY OldestType
<1>2. b \in Nat /\ d \in Nat /\ base <= b
  BY <1>1, CutTypes
<1>3. Stretch(c, b, d) \/ (Earlier(Oldest) /\ b = d)
  BY <1>1 DEF CutHolds
<1>4. none \in Seq(Records) /\ OfThisRun(none) = none /\ none \o c = c
  <2>1. c \in Seq(Records)
    BY <1>1, ContentsType
  <2> HIDE DEF c
  <2> QED
    BY <2>1, KeptOfNone
<1>5. Stretch(none, b, b)
  BY <1>2 DEF Stretch
<1>6. Bytes(none) = 0
  BY BytesOfNone
<1> HIDE DEF none, b, d, c
<1>7. /\ none \o c \in Seq(Records) /\ OfThisRun(none \o c) \in Seq(Records)
      /\ Stretch(OfThisRun(none \o c), b, d)
      /\ Filled(Oldest) => Bytes(OfThisRun(none \o c)) >= Bytes(OfThisRun(none)) + SizeBound
  <2>1. none \in Seq(Records) /\ OfThisRun(none) \in Seq(Records) /\ Stretch(OfThisRun(none), b, b)
    BY <1>4, <1>5
  <2>2. Stretch(Content(Oldest), b, d) \/ (Earlier(Oldest) /\ b = d)
    BY <1>3 DEF c
  <2>3. Oldest \in 0 .. Oldest
    BY <1>1
  <2> HIDE DEF Content
  <2> QED
    BY <1>2, <2>1, <2>2, <2>3, KeptBehind DEF c
<1>8. (\A h \in 1 .. Oldest : Filled(h)) => Bytes(OfThisRun(c)) >= SizeBound * 1
  <2> SUFFICES ASSUME Filled(Oldest) PROVE Bytes(OfThisRun(c)) >= SizeBound * 1
    BY <1>1
  <2>1. Bytes(OfThisRun(c)) >= 0 + SizeBound
    BY Zenon, <1>4, <1>6, <1>7
  <2>2. SizeBound \in Nat
    BY SizesAssumption
  <2>3. 0 + SizeBound = SizeBound * 1
    BY <2>2
  <2> QED
    BY Zenon, <2>1, <2>3
<1>9. (Oldest + 1) - 1 = Oldest
  BY <1>1
<1> QED
  BY Zenon, <1>4, <1>7, <1>8, <1>9 DEF UpTo, b, c, d

LEMMA UpToNext ==
    ASSUME SinkInv, NEW cut \in Cuts, CutHolds(cut), NEW n \in 1 .. Oldest, n + 1 <= Oldest,
           NEW s, UpTo(s, cut, n)
    PROVE  UpTo(s \o Content((Oldest + 1) - (n + 1)), cut, n + 1)
<1> DEFINE g == (Oldest + 1) - (n + 1)
           a == cut[Oldest + 1]
           b == cut[(Oldest + 1) - n]
           d == cut[g]
           k == OfThisRun(s)
           u == s \o Content(g)
<1>1. Oldest \in Nat /\ n \in Nat /\ g \in 1 .. Oldest /\ g \in 0 .. Oldest /\ g + 1 = (Oldest + 1) - n
      /\ g + 1 \in 0 .. Oldest + 1 /\ g \in 0 .. Oldest + 1 /\ Oldest + 1 \in 0 .. Oldest + 1
  BY OldestType
<1> HIDE DEF g
<1>2. a \in Nat /\ b \in Nat /\ d \in Nat /\ base <= b
  BY <1>1, CutTypes
<1>3. Stretch(Content(g), b, d) \/ (Earlier(g) /\ b = d)
  BY <1>1 DEF CutHolds
<1>4. s \in Seq(Records) /\ k \in Seq(Records) /\ Stretch(k, a, b)
  BY DEF UpTo
<1> HIDE DEF a, b, d
<1>5. /\ u \in Seq(Records) /\ OfThisRun(u) \in Seq(Records) /\ Stretch(OfThisRun(u), a, d)
      /\ Filled(g) => Bytes(OfThisRun(u)) >= Bytes(k) + SizeBound
  BY <1>1, <1>2, <1>3, <1>4, KeptBehind
<1> DEFINE x == Bytes(k)
           y == Bytes(OfThisRun(u))
<1>6. (\A h \in 1 .. Oldest : Filled(h)) => y >= SizeBound * (n + 1)
  <2> SUFFICES ASSUME \A h \in 1 .. Oldest : Filled(h) PROVE y >= SizeBound * (n + 1)
    OBVIOUS
  <2>1. x >= SizeBound * n
    BY DEF UpTo
  <2>2. y >= x + SizeBound
    BY <1>1, <1>5
  <2>3. x \in Nat /\ y \in Nat /\ SizeBound \in Nat
    BY <1>4, <1>5, BytesType, SizesAssumption
  <2> HIDE DEF x, y
  <2>4. SizeBound * (n + 1) = SizeBound * n + SizeBound /\ SizeBound * n \in Nat
    BY <1>1, <2>3
  <2> QED
    BY <2>1, <2>2, <2>3, <2>4
<1> HIDE DEF u, k
<1>7. UpTo(u, cut, n + 1)
  BY Zenon, <1>5, <1>6 DEF UpTo, a, d, g, x, y
<1> QED
  BY <1>7 DEF u, g

LEMMA FamilyKept ==
    ASSUME SinkInv, NEW cut \in Cuts, CutHolds(cut)
    PROVE  \E s : UpTo(s, cut, Oldest) /\ Family = s \o Content(0)
<1>1. PICK f : /\ Family = f[Oldest + 1] /\ f[1] = Content(Oldest)
               /\ \A i \in 2 .. Oldest + 1 : f[i] = f[i - 1] \o Content(Oldest + 1 - i)
  BY FamilyIs
<1>2. Oldest \in Nat /\ Oldest >= 1
  BY OldestType
<1> DEFINE S == {n \in Nat : n + 1 <= Oldest => UpTo(f[n + 1], cut, n + 1)}
<1>3. 0 \in S
  BY <1>1, UpToFirst
<1>4. ASSUME NEW n \in Nat, n \in S PROVE n + 1 \in S
  <2> SUFFICES ASSUME n + 2 <= Oldest PROVE UpTo(f[n + 2], cut, n + 2)
    OBVIOUS
  <2> DEFINE m == n + 1
  <2>1. m \in 1 .. Oldest /\ m + 1 <= Oldest /\ m + 1 = n + 2 /\ n + 2 \in 2 .. Oldest + 1
        /\ (n + 2) - 1 = m
    BY <1>2
  <2>2. UpTo(f[m], cut, m)
    BY <1>2, <1>4
  <2> HIDE DEF m
  <2>5. f[m + 1] = f[m] \o Content((Oldest + 1) - (m + 1))
    <3>1. m + 1 \in 2 .. Oldest + 1 /\ (m + 1) - 1 = m
      BY <1>2, <2>1
    <3>2. f[m + 1] = f[(m + 1) - 1] \o Content(Oldest + 1 - (m + 1))
      BY Zenon, <1>1, <3>1
    <3>3. Oldest + 1 - (m + 1) = (Oldest + 1) - (m + 1)
      BY <1>2, <2>1
    <3> QED
      BY Zenon, <3>1, <3>2, <3>3
  <2>4. UpTo(f[m] \o Content((Oldest + 1) - (m + 1)), cut, m + 1)
    BY <2>1, <2>2, UpToNext
  <2> QED
    BY Zenon, <2>1, <2>4, <2>5
<1> HIDE DEF S
<1>5. \A n \in Nat : n \in S
  BY <1>3, <1>4, NatInd
<1>6. UpTo(f[Oldest], cut, Oldest)
  <2> DEFINE n == Oldest - 1
  <2>1. n \in Nat /\ n + 1 = Oldest
    BY <1>2
  <2> HIDE DEF n
  <2>2. n + 1 <= Oldest
    BY <1>2, <2>1
  <2>3. UpTo(f[n + 1], cut, n + 1)
    BY <1>5, <2>1, <2>2 DEF S
  <2> QED
    BY <2>1, <2>3
<1>7. Family = f[Oldest] \o Content(0)
  <2>1. Oldest + 1 \in 2 .. Oldest + 1 /\ (Oldest + 1) - 1 = Oldest /\ Oldest + 1 - (Oldest + 1) = 0
    BY <1>2
  <2>2. f[Oldest + 1] = f[(Oldest + 1) - 1] \o Content(Oldest + 1 - (Oldest + 1))
    BY <1>1, <2>1
  <2> QED
    BY Zenon, <1>1, <2>1, <2>2
<1> QED
  BY <1>6, <1>7

LEMMA BothBehind ==
    ASSUME NEW S, NEW s \in Seq(S), NEW t \in Seq(S), NEW u \in Seq(S)
    PROVE  (s \o t) \o u = s \o (t \o u)
  OBVIOUS

\* So they are a stretch, and many bytes long when anything older is gone.
LEMMA CutsAreRetained ==
    ASSUME SinkInv, NEW cut \in Cuts, CutHolds(cut)
    PROVE  /\ Retained \in Seq(Records) /\ Stretch(Retained, cut[Oldest + 1], next)
           /\ (\A h \in 1 .. Oldest : Filled(h)) => Bytes(Retained) >= SizeBound * Oldest
<1>1. PICK s : UpTo(s, cut, Oldest) /\ Family = s \o Content(0)
  BY FamilyKept
<1> DEFINE a == cut[Oldest + 1]
           b == cut[1]
           k == OfThisRun(s)
           c == Youngest
<1>2. Oldest \in Nat /\ (Oldest + 1) - Oldest = 1 /\ 1 \in 0 .. Oldest + 1
      /\ Oldest + 1 \in 0 .. Oldest + 1 /\ 0 \in 0 .. Oldest
  BY OldestType
<1>3. a \in Nat /\ b \in Nat /\ base <= b /\ next \in Nat /\ base \in Nat
  BY <1>2, CutTypes, ContentsType
<1>4. s \in Seq(Records) /\ k \in Seq(Records) /\ Stretch(k, a, b)
      /\ ((\A h \in 1 .. Oldest : Filled(h)) => Bytes(k) >= SizeBound * Oldest)
  BY Zenon, <1>1, <1>2 DEF UpTo
<1>5. c \in Seq(Records) /\ Stretch(c, b, next)
  BY ContentsType DEF CutHolds
<1>6. Retained = OfThisRun(s \o c)
  <2>1. Content(0) \in Seq(Records) /\ buffer \in Seq(Records)
    BY <1>2, ContentsType, TypesApart
  <2>2. (s \o Content(0)) \o buffer = s \o (Content(0) \o buffer)
    BY <1>4, <2>1, BothBehind
  <2> QED
    BY Zenon, <1>1, <2>2 DEF Retained, Youngest
<1> HIDE DEF a, b, c, k
<1>7. \A i \in 1 .. Len(c) : c[i].id >= base
  <2>1. \A i \in 1 .. Len(c) : c[i].id = b + i - 1
    BY <1>5 DEF Stretch
  <2> QED
    BY <1>3, <2>1
<1>8. OfThisRun(s \o c) = k \o c
  BY <1>4, <1>5, <1>7, OwnAreKept DEF k
<1>9. k \o c \in Seq(Records) /\ Stretch(k \o c, a, next)
  BY <1>3, <1>4, <1>5, StretchesJoin
<1>10. (\A h \in 1 .. Oldest : Filled(h)) => Bytes(k \o c) >= SizeBound * Oldest
  <2> DEFINE x == Bytes(k)
             y == Bytes(c)
             z == SizeBound * Oldest
  <2>1. Bytes(k \o c) = x + y
    BY <1>4, <1>5, BytesOfBoth
  <2>2. x \in Nat /\ y \in Nat /\ z \in Int
    BY <1>2, <1>4, <1>5, BytesType, SizesAssumption
  <2> HIDE DEF x, y, z
  <2>3. x >= z => x + y >= z
    BY <2>2
  <2> QED
    BY Zenon, <1>4, <2>1, <2>3 DEF x, z
<1> QED
  BY Zenon, <1>6, <1>8, <1>9, <1>10 DEF a

LEMMA BudgetFollows == SinkInv /\ RetainInv => RetainsItsBudget
<1> SUFFICES ASSUME SinkInv, RetainInv, failures = 0, lost = 0, pc \in {"main", "drain", "down"}
             PROVE  /\ \A i \in 1 .. Len(Retained) : Retained[i].id = next - 1 - Len(Retained) + i
                    /\ Len(Retained) < next - base => Bytes(Retained) >= SizeBound * Generations
  BY Zenon DEF RetainsItsBudget
<1>1. PICK cut \in Cuts : CutHolds(cut)
  BY DEF RetainInv, Unhurt, Intact
<1>2. Hole = 0
  BY DEF Hole
<1> DEFINE n == Len(Retained)
           a == cut[Oldest + 1]
<1>3. n \in Nat /\ n = next - a /\ \A i \in 1 .. n : Retained[i].id = a + i - 1
  BY <1>1, CutsAreRetained DEF Stretch
<1>4. Oldest \in Nat /\ Oldest + 1 \in 0 .. Oldest + 1 /\ Oldest + 1 \in 1 .. Oldest + 1
      /\ (Oldest + 1) - 1 = Oldest /\ Generations <= Oldest /\ Generations \in Nat
  BY OldestType, SizesAssumption DEF Oldest
<1>5. a \in Nat /\ base <= a /\ a <= next /\ next \in Nat /\ base \in Nat
  BY <1>1, <1>4, CutTypes, ContentsType
<1>6. ASSUME n < next - base PROVE Bytes(Retained) >= SizeBound * Generations
  <2>1. a > base
    BY <1>3, <1>5, <1>6
  <2>2. \A h \in 1 .. Oldest : h = Hole \/ Filled(h)
    BY <1>1, <1>4, <2>1 DEF CutHolds
  <2>3. \A h \in 1 .. Oldest : Filled(h)
    BY <1>2, <2>2
  <2>4. Bytes(Retained) >= SizeBound * Oldest /\ Bytes(Retained) \in Nat
    BY <1>1, <2>3, CutsAreRetained, BytesType
  <2> DEFINE x == Bytes(Retained)
             y == SizeBound * Oldest
             z == SizeBound * Generations
  <2>5. y >= z /\ x \in Nat /\ y \in Nat /\ z \in Nat
    BY <1>4, <2>4, SizesAssumption
  <2> HIDE DEF x, y, z
  <2>6. x >= y
    BY <2>4 DEF x, y
  <2>7. x >= z
    BY <2>5, <2>6
  <2> QED
    BY <2>7 DEF x, z
<1> HIDE DEF n, a
<1>7. \A i \in 1 .. n : Retained[i].id = next - 1 - n + i
  BY <1>3, <1>5
<1> QED
  BY <1>6, <1>7 DEF n

-----------------------------------------------------------------------------
(* What the steps do to the cuts.                                           *)

LEMMA OlderBoth ==
    ASSUME NEW s \in Seq(Records), NEW t \in Seq(Records), NEW n \in Nat, Older(s, n), Older(t, n)
    PROVE  Older(s \o t, n)
<1>1. PICK a : a = Len(s)
  OBVIOUS
<1>2. PICK b : b = Len(t)
  OBVIOUS
<1>3. a \in Nat /\ b \in Nat /\ DOMAIN s = 1 .. a /\ DOMAIN t = 1 .. b
  BY <1>1, <1>2
<1>4. Row(Records, s, a) /\ Row(Records, t, b)
  BY <1>1, <1>2 DEF Row
<1>5. Row(Records, Joined(s, t), a + b) /\ Follows(Joined(s, t), s, a, t, b)
  BY <1>3, <1>4, JoinedBehind
<1> DEFINE u == Joined(s, t)
<1>6. DOMAIN u = 1 .. a + b /\ (\A i \in 1 .. a : u[i] = s[i]) /\ \A i \in 1 .. b : u[a + i] = t[i]
  <2>1. u \in Seq(Records) /\ Len(u) = a + b
    BY <1>5 DEF Row
  <2> HIDE DEF u
  <2>2. DOMAIN u = 1 .. a + b
    BY <2>1
  <2> QED
    BY <1>5, <2>2 DEF Follows, u
<1> HIDE DEF u
<1>7. ASSUME NEW i \in 1 .. a + b PROVE u[i].id < n
  <2>1. CASE i \in 1 .. a
    BY <1>3, <1>6, <2>1 DEF Older
  <2>2. CASE i \notin 1 .. a
    <3>1. PICK j \in 1 .. b : i = a + j
      <4>1. i - a \in 1 .. b /\ i = a + (i - a)
        BY <1>3, <2>2
      <4> QED
        BY <4>1
    <3>2. u[i] = t[j] /\ t[j].id < n
      BY <1>3, <1>6, <3>1 DEF Older
    <3> QED
      BY <3>2
  <2> QED
    BY <2>1, <2>2
<1>8. Older(u, n)
  BY <1>6, <1>7 DEF Older
<1> QED
  BY <1>8 DEF u, Joined

LEMMA OlderMore ==
    ASSUME NEW s \in Seq(Records), NEW r \in Records, NEW n \in Nat, Older(s, n), r.id < n
    PROVE  Older(Append(s, r), n)
<1> DEFINE k == Len(s)
           u == Append(s, r)
<1>1. k \in Nat /\ DOMAIN s = 1 .. k /\ DOMAIN u = 1 .. k + 1 /\ u[k + 1] = r
      /\ \A i \in 1 .. k : u[i] = s[i]
  OBVIOUS
<1> HIDE DEF k, u
<1>2. \A i \in 1 .. k + 1 : i = k + 1 \/ i \in 1 .. k
  BY <1>1
<1>3. Older(u, n)
  BY <1>1, <1>2 DEF Older
<1> QED
  BY <1>3 DEF u

LEMMA OlderThanLater ==
    ASSUME NEW s \in Seq(Records), NEW n \in Nat, NEW m \in Nat, n <= m, Older(s, n)
    PROVE  Older(s, m)
<1>1. \A i \in DOMAIN s : s[i].id \in Nat
  <2>1. \A i \in DOMAIN s : s[i] \in Records
    OBVIOUS
  <2> QED
    BY <2>1 DEF Records
<1> QED
  BY <1>1 DEF Older

LEMMA OlderNone == ASSUME NEW n PROVE Older(<<>>, n)
  BY DEF Older

\* A file's content goes where the file goes.
LEMMA ContentMoves ==
    ASSUME NEW g, NEW h, files'[g] = files[h]
    PROVE  Content(g)' = Content(h)
  BY DEF Content, Exists

LEMMA ContentGone ==
    ASSUME NEW g, files'[g] = NoFile
    PROVE  Content(g)' = <<>>
  BY DEF Content, Exists

LEMMA FilledMoves ==
    ASSUME NEW g, NEW h, Content(g)' = Content(h), base' = base, Filled(h)
    PROVE  Filled(g)'
  BY DEF Filled

LEMMA EarlierMoves ==
    ASSUME NEW g, NEW h, Content(g)' = Content(h), base' = base, Earlier(h)
    PROVE  Earlier(g)'
  BY DEF Earlier

\* A step after which every file holds what it held, as far as the cuts are concerned.
LEMMA SameCuts ==
    ASSUME NEW cut \in Cuts, CutHolds(cut), Youngest' = Youngest, next' = next, base' = base,
           \A g \in 1 .. Oldest : Content(g)' = Content(g), Hole = 0 \/ Hole = Hole'
    PROVE  cut \in Cuts' /\ CutHolds(cut)'
<1>1. cut \in Cuts'
  BY DEF Cuts
<1>2. cut[0] = next' /\ Stretch(Youngest', cut[1], next')
  BY DEF CutHolds
<1>3. \A g \in 1 .. Oldest : \/ Stretch(Content(g)', cut[g + 1], cut[g])
                             \/ Earlier(g)' /\ cut[g + 1] = cut[g]
  BY EarlierMoves DEF CutHolds
<1>4. ASSUME NEW g \in 1 .. Oldest + 1, cut[g] > base, NEW h \in 1 .. g - 1
      PROVE  h = Hole' \/ Filled(h)'
  <2>1. h \in 1 .. Oldest /\ h # 0
    BY OldestType
  <2>2. h = Hole \/ Filled(h)
    BY <1>4 DEF CutHolds
  <2> QED
    BY <2>1, <2>2, FilledMoves
<1>5. \A g \in 1 .. Oldest + 1 : cut[g] > base' => \A h \in 1 .. g - 1 : h = Hole' \/ Filled(h)'
  BY <1>4
<1> QED
  BY <1>1, <1>2, <1>3, <1>5 DEF CutHolds

\* Nothing is a stretch from a number to itself, and to no other.
LEMMA EmptyStretch ==
    ASSUME NEW a \in Nat, NEW b \in Nat
    PROVE  Stretch(<<>>, b, a) <=> a = b
<1>1. Len(<<>>) = 0
  OBVIOUS
<1> QED
  BY <1>1 DEF Stretch

LEMMA NothingThere ==
    ASSUME SinkInv, NEW cut \in Cuts, CutHolds(cut), NEW g \in 1 .. Oldest, ~ Exists(g)
    PROVE  cut[g + 1] = cut[g]
<1>1. Content(g) = <<>>
  BY DEF Content
<1>2. g + 1 \in 0 .. Oldest + 1 /\ g \in 0 .. Oldest + 1
  BY OldestType
<1>3. cut[g + 1] \in Nat /\ cut[g] \in Nat
  BY <1>2, CutTypes
<1> QED
  BY <1>1, <1>3, EmptyStretch DEF CutHolds

\* The oldest generation is removed: only an earlier run's, or behind full ones.
LEMMA OldestGone ==
    ASSUME SinkInv, NEW cut \in Cuts, CutHolds(cut), Youngest' = Youngest, next' = next, base' = base,
           \A g \in 1 .. Oldest : g # Oldest => Content(g)' = Content(g),
           Content(Oldest)' = <<>>, Hole = 0, Hole' = Oldest
    PROVE  \E new \in Cuts' : CutHolds(new)'
<1> DEFINE new == [cut EXCEPT ![Oldest + 1] = cut[Oldest]]
<1>1. Oldest \in Nat /\ Oldest >= 1 /\ Oldest \in 1 .. Oldest
      /\ \A g \in 0 .. Oldest + 1 : cut[g] \in base .. next
  BY OldestType DEF Cuts
<1>2. new \in Cuts' /\ new[Oldest + 1] = cut[Oldest] /\ \A g \in 0 .. Oldest : new[g] = cut[g]
  BY <1>1 DEF Cuts
<1> HIDE DEF new
<1>3. new[0] = next' /\ Stretch(Youngest', new[1], next')
  BY <1>1, <1>2 DEF CutHolds
<1>4. ASSUME NEW g \in 1 .. Oldest
      PROVE  \/ Stretch(Content(g)', new[g + 1], new[g])
             \/ Earlier(g)' /\ new[g + 1] = new[g]
  <2>1. CASE g = Oldest
    <3>1. new[g + 1] = new[g] /\ new[g] \in Nat
      BY <1>1, <1>2, <2>1, ContentsType
    <3> QED
      BY <2>1, <3>1, EmptyStretch
  <2>2. CASE g # Oldest
    <3>1. new[g + 1] = cut[g + 1] /\ new[g] = cut[g] /\ Content(g)' = Content(g)
      BY <1>1, <1>2, <2>2
    <3> QED
      BY <3>1, EarlierMoves DEF CutHolds
  <2> QED
    BY <2>1, <2>2
<1>5. ASSUME NEW g \in 1 .. Oldest + 1, new[g] > base, NEW h \in 1 .. g - 1, h # Oldest
      PROVE  Filled(h)'
  <2>1. PICK f \in 1 .. Oldest + 1 : cut[f] > base /\ h \in 1 .. f - 1
    <3>1. CASE g = Oldest + 1
      BY <1>1, <1>2, <1>5, <3>1
    <3>2. CASE g # Oldest + 1
      BY <1>1, <1>2, <1>5, <3>2
    <3> QED
      BY <3>1, <3>2
  <2>2. Filled(h)
    <3>1. h = Hole \/ Filled(h)
      BY <2>1 DEF CutHolds
    <3> QED
      BY <3>1
  <2>3. h \in 1 .. Oldest
    BY <1>1
  <2> QED
    BY <1>5, <2>2, <2>3, FilledMoves
<1>6. \A g \in 1 .. Oldest + 1 : new[g] > base' => \A h \in 1 .. g - 1 : h = Hole' \/ Filled(h)'
  BY <1>5
<1>7. CutHolds(new)'
  BY <1>3, <1>4, <1>6 DEF CutHolds
<1> QED
  BY <1>2, <1>7

\* A generation moves up into the place that is free.
LEMMA MovedUp ==
    ASSUME SinkInv, NEW cut \in Cuts, CutHolds(cut), Youngest' = Youngest, next' = next, base' = base,
           NEW n \in 2 .. Oldest, ~ Exists(n), Hole = n, Hole' = n - 1,
           \A g \in 1 .. Oldest : g # n /\ g # n - 1 => Content(g)' = Content(g),
           Content(n)' = Content(n - 1), Content(n - 1)' = <<>>
    PROVE  \E new \in Cuts' : CutHolds(new)'
<1> DEFINE new == [cut EXCEPT ![n] = cut[n - 1]]
<1>1. Oldest \in Nat /\ n \in 1 .. Oldest /\ n - 1 \in 1 .. Oldest /\ n - 1 # n
      /\ \A g \in 0 .. Oldest + 1 : cut[g] \in base .. next
  BY OldestType DEF Cuts
<1>2. cut[n + 1] = cut[n]
  BY <1>1, NothingThere
<1>3. new \in Cuts' /\ new[n] = cut[n - 1] /\ \A g \in 0 .. Oldest + 1 : g # n => new[g] = cut[g]
  BY <1>1 DEF Cuts
<1> HIDE DEF new
<1>4. new[0] = next' /\ Stretch(Youngest', new[1], next')
  BY <1>1, <1>3 DEF CutHolds
<1>5. ASSUME NEW g \in 1 .. Oldest
      PROVE  \/ Stretch(Content(g)', new[g + 1], new[g])
             \/ Earlier(g)' /\ new[g + 1] = new[g]
  <2>1. CASE g = n
    <3>1. new[g + 1] = cut[n] /\ new[g] = cut[n - 1]
      BY <1>1, <1>2, <1>3, <2>1
    <3>2. \/ Stretch(Content(n - 1), cut[(n - 1) + 1], cut[n - 1])
          \/ Earlier(n - 1) /\ cut[(n - 1) + 1] = cut[n - 1]
      BY <1>1 DEF CutHolds
    <3>3. (n - 1) + 1 = n
      BY <1>1
    <3> QED
      BY <2>1, <3>1, <3>2, <3>3, EarlierMoves
  <2>2. CASE g = n - 1
    <3>1. new[g + 1] = new[g] /\ new[g] \in Nat
      BY <1>1, <1>3, <2>2, ContentsType
    <3> QED
      BY <2>2, <3>1, EmptyStretch
  <2>3. CASE g # n /\ g # n - 1
    <3>1. new[g + 1] = cut[g + 1] /\ new[g] = cut[g] /\ Content(g)' = Content(g)
      BY <1>1, <1>3, <2>3
    <3> QED
      BY <3>1, EarlierMoves DEF CutHolds
  <2> QED
    BY <2>1, <2>2, <2>3
<1>6. ASSUME NEW g \in 1 .. Oldest + 1, new[g] > base, NEW h \in 1 .. g - 1, h # n - 1
      PROVE  Filled(h)'
  <2>1. h \in 1 .. Oldest
    BY <1>1
  <2>2. CASE g = n
    <3>1. cut[n - 1] > base /\ h \in 1 .. (n - 1) - 1 /\ n - 1 \in 1 .. Oldest + 1 /\ h # n
      BY <1>1, <1>3, <1>6, <2>2
    <3>2. Filled(h)
      <4>1. h = Hole \/ Filled(h)
        BY <3>1 DEF CutHolds
      <4> QED
        BY <3>1, <4>1
    <3> QED
      BY <1>6, <2>1, <3>1, <3>2, FilledMoves
  <2>3. CASE g # n
    <3>1. cut[g] > base
      BY <1>1, <1>3, <1>6, <2>3
    <3>2. CASE h = n
      <4>1. n - 1 \in 1 .. g - 1
        BY <1>1, <3>2
      <4>2. n - 1 = Hole \/ Filled(n - 1)
        BY <3>1, <4>1 DEF CutHolds
      <4>3. Filled(n - 1)
        BY <1>1, <4>2
      <4> QED
        BY <3>2, <4>3, FilledMoves
    <3>3. CASE h # n
      <4>1. h = Hole \/ Filled(h)
        BY <3>1 DEF CutHolds
      <4> QED
        BY <1>6, <2>1, <3>3, <4>1, FilledMoves
    <3> QED
      BY <3>2, <3>3
  <2> QED
    BY <2>2, <2>3
<1>7. \A g \in 1 .. Oldest + 1 : new[g] > base' => \A h \in 1 .. g - 1 : h = Hole' \/ Filled(h)'
  BY <1>6
<1>8. CutHolds(new)'
  BY <1>4, <1>5, <1>7 DEF CutHolds
<1> QED
  BY <1>3, <1>8

\* The root becomes generation 1.
LEMMA RootPromoted ==
    ASSUME SinkInv, NEW cut \in Cuts, CutHolds(cut), next' = next, base' = base,
           Youngest' = <<>>, Content(1)' = Youngest, Bytes(Youngest) >= SizeBound,
           \A g \in 2 .. Oldest : Content(g)' = Content(g),
           Oldest > 1 => ~ Exists(1), Hole = 1, Hole' = 0
    PROVE  \E new \in Cuts' : CutHolds(new)'
<1>0. PICK last : last = next
  OBVIOUS
<1> DEFINE new == [g \in 0 .. Oldest + 1 |-> IF g <= 1 THEN last ELSE IF g = 2 THEN cut[1] ELSE cut[g]]
<1>1. Oldest \in Nat /\ Oldest >= 1 /\ 1 \in 1 .. Oldest
      /\ \A g \in 0 .. Oldest + 1 : cut[g] \in base .. next
  BY OldestType DEF Cuts
<1>2. base \in Nat /\ next \in Nat /\ base <= next
  BY ContentsType
<1>3. Oldest > 1 => cut[2] = cut[1]
  <2>1. 1 + 1 = 2
    OBVIOUS
  <2> QED
    BY <1>1, <2>1, NothingThere
<1>4. new \in Cuts' /\ new[0] = next /\ new[1] = next /\ new[2] = cut[1]
      /\ \A g \in 2 .. Oldest + 1 : new[g] = cut[g] \/ (g = 2 /\ Oldest = 1)
  <2>1. new \in Cuts'
    BY <1>0, <1>1, <1>2 DEF Cuts
  <2>2. new[0] = next /\ new[1] = next /\ new[2] = cut[1]
    BY <1>0, <1>1
  <2> QED
    BY <1>1, <1>3, <2>1, <2>2
<1> HIDE DEF new
<1>5. new[0] = next' /\ Stretch(Youngest', new[1], next')
  BY <1>2, <1>4, EmptyStretch
<1>6. ASSUME NEW g \in 1 .. Oldest
      PROVE  \/ Stretch(Content(g)', new[g + 1], new[g])
             \/ Earlier(g)' /\ new[g + 1] = new[g]
  <2>1. CASE g = 1
    <3>1. Stretch(Content(1)', cut[1], next)
      BY DEF CutHolds
    <3>2. g + 1 = 2
      BY <2>1
    <3> QED
      BY <1>4, <2>1, <3>1, <3>2
  <2>2. CASE g # 1
    <3>1. new[g + 1] = cut[g + 1] /\ new[g] = cut[g] /\ Content(g)' = Content(g)
      BY <1>1, <1>4, <2>2
    <3> QED
      BY <3>1, EarlierMoves DEF CutHolds
  <2> QED
    BY <2>1, <2>2
<1>7. Filled(1)'
  <2> DEFINE c == Youngest
  <2>1. c \in Seq(Records) /\ Stretch(c, cut[1], next) /\ cut[1] \in Nat /\ base <= cut[1]
    BY <1>1, <1>2, ContentsType DEF CutHolds
  <2> HIDE DEF c
  <2>2. \A i \in 1 .. Len(c) : c[i].id >= base
    <3>1. \A i \in 1 .. Len(c) : c[i].id = cut[1] + i - 1
      BY <2>1 DEF Stretch
    <3> QED
      BY <1>2, <2>1, <3>1
  <2>3. DOMAIN c = 1 .. Len(c)
    BY <2>1
  <2> QED
    BY <2>2, <2>3 DEF Filled, c
<1>8. ASSUME NEW g \in 1 .. Oldest + 1, new[g] > base, NEW h \in 1 .. g - 1
      PROVE  Filled(h)'
  <2>1. CASE h = 1
    BY <1>7, <2>1
  <2>2. CASE h # 1
    <3>1. h \in 2 .. Oldest /\ g \in 2 .. Oldest + 1 /\ cut[g] > base
      BY <1>1, <1>4, <1>8, <2>2
    <3>2. h = Hole \/ Filled(h)
      BY <3>1 DEF CutHolds
    <3> QED
      BY <2>2, <3>1, <3>2, FilledMoves
  <2> QED
    BY <2>1, <2>2
<1>9. \A g \in 1 .. Oldest + 1 : new[g] > base' => \A h \in 1 .. g - 1 : h = Hole' \/ Filled(h)'
  BY <1>8
<1>10. CutHolds(new)'
  BY <1>5, <1>6, <1>9 DEF CutHolds
<1> QED
  BY <1>4, <1>10

-----------------------------------------------------------------------------
(* Every record was written already.                                        *)

LEMMA WrittenStays ==
    ASSUME SinkInv, AllWritten, next' \in Nat, next <= next', Older(buffer', next'),
           \A h \in 0 .. Oldest : \/ Older(Content(h)', next') \/ files'[h] = NoFile
                                  \/ \E g \in 0 .. Oldest : files'[h] = files[g]
    PROVE  AllWritten'
<1> SUFFICES ASSUME NEW h \in 0 .. Oldest PROVE Older(Content(h)', next')
  BY DEF AllWritten
<1>1. CASE files'[h] = NoFile
  BY <1>1, ContentGone, OlderNone
<1>2. ASSUME NEW g \in 0 .. Oldest, files'[h] = files[g] PROVE Older(Content(h)', next')
  <2>1. Content(h)' = Content(g)
    BY <1>2, ContentMoves
  <2>2. Older(Content(g), next')
    <3>1. Content(g) \in Seq(Records) /\ next \in Nat /\ Older(Content(g), next)
      BY ContentsType DEF AllWritten
    <3> HIDE DEF Content
    <3> QED
      BY <3>1, OlderThanLater
  <2> QED
    BY <2>1, <2>2
<1> QED
  BY <1>1, <1>2

LEMMA WriteKeepsWritten ==
    ASSUME SinkInv, SinkInv', AllWritten, Write
    PROVE  AllWritten'
<1>1. next \in Nat /\ next' = next + 1 /\ next' \in Nat /\ next <= next'
  <2>1. next \in Nat
    BY ContentsType
  <2> QED
    BY <2>1 DEF Write
<1>2. buffer \in Seq(Records) /\ Older(buffer, next) /\ Older(buffer, next')
  <2>1. buffer \in Seq(Records)
    BY TypesApart
  <2> QED
    BY <1>1, <2>1, OlderThanLater DEF AllWritten
<1>3. CASE UNCHANGED <<files, buffer>>
  <2>1. \A h \in 0 .. Oldest : \E g \in 0 .. Oldest : files'[h] = files[g]
    BY <1>3
  <2> QED
    BY <1>1, <1>2, <1>3, <2>1, WrittenStays
<1>4. ASSUME NEW size \in RecordSizes, WriteFlushed(size) \/ WriteUnflushed(size)
      PROVE  AllWritten'
  <2> DEFINE r == NextRecord(size)
             more == Append(buffer, r)
  <2>1. r \in Records /\ r.id < next'
    BY <1>1, NextRecordType DEF NextRecord
  <2> HIDE DEF r
  <2>2. more \in Seq(Records) /\ Older(more, next')
    BY <1>1, <1>2, <2>1, OlderMore
  <2>3. CASE WriteUnflushed(size)
    <3>1. files' = files /\ buffer' = more
      BY <2>3 DEF WriteUnflushed, r
    <3> HIDE DEF more
    <3>2. \A h \in 0 .. Oldest : \E g \in 0 .. Oldest : files'[h] = files[g]
      BY <3>1
    <3> QED
      BY <1>1, <2>2, <3>1, <3>2, WrittenStays
  <2>4. CASE WriteFlushed(size)
    <3>1. isOpen /\ buffer' = <<>>
      BY <2>4 DEF WriteFlushed
    <3>2. /\ files'[0] \in Seq(Records) /\ files'[0] = files[0] \o more
          /\ \A h \in 1 .. Oldest : files'[h] = files[h]
      BY <2>4, FlushedGrows DEF r
    <3> HIDE DEF more
    <3>3. files[0] \in Seq(Records) /\ Content(0) = files[0] /\ 0 \in 0 .. Oldest
      BY <3>1, StreamType, OldestType, NoFileIsNone DEF Content, Exists
    <3>4. Older(files[0], next')
      BY <1>1, <3>3, OlderThanLater DEF AllWritten
    <3>5. Older(files'[0], next')
      <4> DEFINE f == files[0]
      <4>1. f \in Seq(Records) /\ Older(f, next')
        BY <3>3, <3>4
      <4> HIDE DEF f
      <4>2. Older(f \o more, next')
        BY <1>1, <2>2, <4>1, OlderBoth
      <4> QED
        BY Zenon, <3>2, <4>2 DEF f
    <3>6. Content(0)' = files'[0]
      BY <3>2, NoFileIsNone DEF Content, Exists
    <3>7. \A h \in 0 .. Oldest : \/ Older(Content(h)', next')
                                 \/ \E g \in 0 .. Oldest : files'[h] = files[g]
      <4>1. \A h \in 0 .. Oldest : h = 0 \/ h \in 1 .. Oldest
        BY OldestType
      <4> QED
        BY <3>2, <3>5, <3>6, <4>1
    <3> QED
      BY <1>1, <3>1, <3>7, OlderNone, WrittenStays
  <2> QED
    BY <1>4, <2>3, <2>4
<1> QED
  BY <1>3, <1>4 DEF Write, WriteRefused, WriteElsewhere

LEMMA CloseKeepsWritten ==
    ASSUME SinkInv, AllWritten, Close, UNCHANGED next
    PROVE  AllWritten'
<1>1. next \in Nat /\ next' = next /\ next <= next' /\ Older(buffer', next') /\ 0 \in 0 .. Oldest
  BY ContentsType, OlderNone, OldestType DEF Close
<1>2. CASE ~ isOpen
  <2>1. \A h \in 0 .. Oldest : \E g \in 0 .. Oldest : files'[h] = files[g]
    BY <1>2, NothingToClose
  <2> QED
    BY <1>1, <2>1, WrittenStays
<1>3. CASE isOpen
  <2>1. files'[0] \in {files[0], files[0] \o buffer} /\ \A h \in 1 .. Oldest : files'[h] = files[h]
    BY <1>3, CloseKeeps
  <2>2. files[0] \in Seq(Records) /\ buffer \in Seq(Records) /\ files[0] \o buffer \in Seq(Records)
    BY <1>3, StreamType
  <2>3. Older(files[0], next) /\ Older(buffer, next)
    <3>1. Content(0) = files[0]
      BY <2>2, NoFileIsNone DEF Content, Exists
    <3> QED
      BY <1>1, <3>1 DEF AllWritten
  <2>4. Older(files[0] \o buffer, next)
    <3> DEFINE f == files[0]
    <3>1. f \in Seq(Records) /\ Older(f, next)
      BY <2>2, <2>3
    <3> HIDE DEF f
    <3>2. Older(f \o buffer, next)
      BY <1>1, <2>2, <2>3, <3>1, OlderBoth
    <3> QED
      BY <3>2 DEF f
  <2>5. \A h \in 0 .. Oldest : \/ Older(Content(h)', next')
                               \/ \E g \in 0 .. Oldest : files'[h] = files[g]
    <3>1. \A h \in 0 .. Oldest : h = 0 \/ h \in 1 .. Oldest
      BY OldestType
    <3>2. files'[0] = files[0] \/ Older(Content(0)', next')
      <4> DEFINE w == files[0] \o buffer
      <4>1. w \in Seq(Records) /\ Older(w, next) /\ files'[0] \in {files[0], w}
        BY <2>1, <2>2, <2>4
      <4> HIDE DEF w
      <4>2. CASE files'[0] = w
        <5>1. Content(0)' = w
          BY <4>1, <4>2, NoFileIsNone DEF Content, Exists
        <5> QED
          BY <1>1, <4>1, <5>1
      <4> QED
        BY <4>1, <4>2
    <3> QED
      BY <1>1, <2>1, <3>1, <3>2
  <2> QED
    BY <1>1, <2>5, WrittenStays
<1> QED
  BY <1>2, <1>3

LEMMA StepKeepsWritten ==
    ASSUME SinkInv, SinkInv', AllWritten, [Next]_vars
    PROVE  AllWritten'
<1>1. next \in Nat /\ next <= next /\ Older(<<>>, next) /\ Older(buffer, next)
  BY ContentsType, OlderNone DEF AllWritten
<1> DEFINE Kept0 == next' = next /\ buffer' \in {buffer, <<>>}
                    /\ \A h \in 0 .. Oldest : \/ files'[h] \in {NoFile, <<>>}
                                              \/ \E g \in 0 .. Oldest : files'[h] = files[g]
<1>2. ASSUME Kept0 PROVE AllWritten'
  <2>1. \A h \in 0 .. Oldest : files'[h] = <<>> => Older(Content(h)', next')
    BY OlderNone DEF Content, Exists
  <2> QED
    BY <1>1, <1>2, <2>1, WrittenStays
<1>3. \A h \in 0 .. Oldest : h = 0 \/ h \in 1 .. Oldest
  BY OldestType
<1>4. CASE Write
  BY <1>4, WriteKeepsWritten
<1>5. CASE BeginRotate \/ EndDrain
  BY <1>5, CloseKeepsWritten DEF BeginRotate, EndDrain
<1>6. CASE RotateNothing \/ BeginDrain \/ Crash \/ UNCHANGED vars
  <2>1. next' = next /\ buffer' \in {buffer, <<>>} /\ files' = files
    BY <1>6 DEF RotateNothing, BeginDrain, Crash, vars
  <2> QED
    BY <1>2, <2>1
<1>7. CASE Reopen \/ Start
  <2>1. next' = next /\ buffer' = buffer /\ (Open(failures) \/ Open(0))
    BY <1>7 DEF Reopen, Start
  <2>2. files'[0] \in {files[0], <<>>} /\ \A h \in 1 .. Oldest : files'[h] = files[h]
    <3>1. failures \in Nat /\ 0 \in Nat
      BY TypesApart
    <3>2. (isOpen' => files'[0] = <<>>) /\ \A h \in 1 .. Oldest : files'[h] = files[h]
      BY <2>1, <3>1, OpenKeeps
    <3>3. ~ isOpen' => files' = files
      BY <2>1 DEF Open
    <3> QED
      BY <3>2, <3>3
  <2> QED
    BY <1>2, <1>3, <2>1, <2>2, OldestType
<1>8. CASE RemoveOlder \/ RenameOlder \/ ClearFirst \/ PromoteRoot
  <2>1. next' = next /\ buffer' = buffer
    BY <1>8 DEF RemoveOlder, RenameOlder, ClearFirst, PromoteRoot
  <2>2. ASSUME NEW to \in 0 .. Oldest, NEW from \in 0 .. Oldest,
               UNCHANGED files \/ Removed(from) \/ Renamed(from, to)
        PROVE  \A h \in 0 .. Oldest : \/ files'[h] = NoFile
                                      \/ \E g \in 0 .. Oldest : files'[h] = files[g]
    <3>1. files \in FilesType
      BY TypesApart
    <3>2. CASE UNCHANGED files
      BY <3>2
    <3>3. CASE Removed(from)
      <4> HIDE DEF NoFile
      <4>1. files' = [files EXCEPT ![from] = NoFile]
        BY <3>3 DEF Removed
      <4> QED
        BY <3>1, <4>1 DEF FilesType
    <3>4. CASE Renamed(from, to) /\ Exists(from)
      <4> HIDE DEF NoFile
      <4>1. files' = [files EXCEPT ![to] = files[from], ![from] = NoFile]
        BY <3>4 DEF Renamed
      <4> QED
        BY <3>1, <4>1 DEF FilesType
    <3>5. CASE Renamed(from, to) /\ ~ Exists(from)
      BY <3>5 DEF Renamed
    <3> QED
      BY <2>2, <3>2, <3>3, <3>4, <3>5
  <2>3. \E to \in 0 .. Oldest, from \in 0 .. Oldest :
           UNCHANGED files \/ Removed(from) \/ Renamed(from, to)
    <3>1. CASE RemoveOlder \/ RenameOlder
      <4>1. gen > 1 /\ gen \in GensType
        BY <3>1, TypesApart DEF RemoveOlder, RenameOlder, Goes, SinkInv, SinkStages
      <4>2. gen \in 0 .. Oldest /\ gen - 1 \in 0 .. Oldest
        BY <4>1, OldestType
      <4> QED
        BY <3>1, <4>2 DEF RemoveOlder, RenameOlder, Fails
    <3>2. CASE ClearFirst \/ PromoteRoot
      BY <3>2, OldestType DEF ClearFirst, PromoteRoot, Fails
    <3> QED
      BY <1>8, <3>1, <3>2
  <2>4. \A h \in 0 .. Oldest : \/ files'[h] = NoFile
                               \/ \E g \in 0 .. Oldest : files'[h] = files[g]
    BY <2>2, <2>3
  <2> QED
    BY <1>2, <2>1, <2>4
<1> QED
  BY <1>4, <1>5, <1>6, <1>7, <1>8 DEF Next, Rotate

-----------------------------------------------------------------------------
(* What each step does to the cuts, as long as nothing excuses the sink.    *)

\* The records and one more, numbered as the run's next.
LEMMA StretchGrows ==
    ASSUME NEW s \in Seq(Records), NEW r \in Records, NEW a \in Nat, NEW b \in Nat,
           Stretch(s, a, b), r.id = b
    PROVE  Stretch(Append(s, r), a, b + 1)
<1> DEFINE n == Len(s)
           u == Append(s, r)
<1>1. n \in Nat /\ n = b - a /\ Len(u) = n + 1 /\ u[n + 1] = r /\ (\A i \in 1 .. n : u[i] = s[i])
      /\ \A i \in 1 .. n : s[i].id = a + i - 1
  BY DEF Stretch
<1> HIDE DEF n, u
<1>2. \A i \in 1 .. n + 1 : u[i].id = a + i - 1
  <2>1. b = a + (n + 1) - 1
    BY <1>1
  <2>2. \A i \in 1 .. n + 1 : i = n + 1 \/ i \in 1 .. n
    BY <1>1
  <2> QED
    BY <1>1, <2>1, <2>2
<1>3. Len(u) = (b + 1) - a
  BY <1>1
<1>4. Stretch(u, a, b + 1)
  BY <1>1, <1>2, <1>3 DEF Stretch
<1> QED
  BY <1>4 DEF u

\* The cuts after a record was written: only the end has moved.
LEMMA EndMoves ==
    ASSUME SinkInv, NEW cut \in Cuts, CutHolds(cut), base' = base, next' = next + 1,
           NEW r \in Records, r.id = next, Youngest' = Append(Youngest, r),
           \A g \in 1 .. Oldest : Content(g)' = Content(g), Hole = 0
    PROVE  \E new \in Cuts' : CutHolds(new)'
<1>0. PICK last : last = next'
  OBVIOUS
<1> DEFINE new == [cut EXCEPT ![0] = last]
<1>1. Oldest \in Nat /\ 1 \in 0 .. Oldest + 1 /\ 0 \in 0 .. Oldest + 1
      /\ \A g \in 0 .. Oldest + 1 : cut[g] \in base .. next
  BY OldestType DEF Cuts
<1>2. base \in Nat /\ next \in Nat /\ base <= next /\ last = next + 1 /\ Youngest \in Seq(Records)
  BY <1>0, ContentsType
<1>3. new \in Cuts' /\ new[0] = last /\ \A g \in 1 .. Oldest + 1 : new[g] = cut[g]
  <2>1. \A g \in 0 .. Oldest + 1 : cut[g] \in base' .. next'
    BY <1>1, <1>2
  <2>2. last \in base' .. next'
    BY <1>0, <1>2
  <2>3. cut \in [0 .. Oldest + 1 -> base' .. next']
    BY <2>1 DEF Cuts
  <2> QED
    BY <1>1, <2>2, <2>3 DEF Cuts
<1> HIDE DEF new
<1>4. new[0] = next' /\ Stretch(Youngest', new[1], next')
  <2>1. cut[1] \in Nat /\ Stretch(Youngest, cut[1], next)
    BY <1>1, <1>2 DEF CutHolds
  <2>2. new[1] = cut[1]
    BY <1>1, <1>3, OldestType
  <2>3. Stretch(Append(Youngest, r), cut[1], next + 1)
    BY <1>2, <2>1, StretchGrows
  <2> QED
    BY Zenon, <1>0, <1>3, <2>2, <2>3
<1>5. \A g \in 1 .. Oldest : \/ Stretch(Content(g)', new[g + 1], new[g])
                             \/ Earlier(g)' /\ new[g + 1] = new[g]
  <2>1. \A g \in 1 .. Oldest : new[g + 1] = cut[g + 1] /\ new[g] = cut[g]
    BY <1>1, <1>3
  <2> QED
    BY <2>1, EarlierMoves DEF CutHolds
<1>6. ASSUME NEW g \in 1 .. Oldest + 1, new[g] > base, NEW h \in 1 .. g - 1
      PROVE  Filled(h)'
  <2>1. h \in 1 .. Oldest /\ h # Hole /\ cut[g] > base
    BY <1>1, <1>3, <1>6
  <2>2. h = Hole \/ Filled(h)
    BY <2>1 DEF CutHolds
  <2> QED
    BY <2>1, <2>2, FilledMoves
<1>7. \A g \in 1 .. Oldest + 1 : new[g] > base' => \A h \in 1 .. g - 1 : h = Hole' \/ Filled(h)'
  BY <1>6
<1>8. CutHolds(new)'
  BY <1>4, <1>5, <1>7 DEF CutHolds
<1> QED
  BY <1>3, <1>8

LEMMA WriteKeepsIntact ==
    ASSUME SinkInv, Intact, failures' = 0, Write
    PROVE  Intact'
<1>1. pc \in {"main", "drain"} /\ isOpen /\ isOpen' = isOpen /\ base' = base /\ next' = next + 1
  BY DEF Write, Intact, StreamHolds, history
<1>2. PICK size \in RecordSizes : WriteFlushed(size) \/ WriteUnflushed(size)
  <2>1. ~ WriteRefused
    BY TypesApart DEF WriteRefused
  <2> QED
    BY <1>1, <2>1 DEF Write, WriteElsewhere
<1> DEFINE r == NextRecord(size)
<1>3. r \in Records /\ r.id = next /\ r.size = size
  BY NextRecordType DEF NextRecord
<1>4. /\ files[0] \in Seq(Records) /\ files'[0] \in Seq(Records)
      /\ files'[0] \o buffer' = Append(files[0] \o buffer, r)
  BY <1>1, <1>2, StreamAppends, StreamType
<1>5. Exists(0)' /\ Youngest = files[0] \o buffer /\ Youngest' = files'[0] \o buffer'
  BY <1>4, NoFileIsNone DEF Youngest, Content, Exists
<1>6. \A g \in 1 .. Oldest : Content(g)' = Content(g)
  <2>1. WriteFlushed(size) => \A g \in 1 .. Oldest : files'[g] = files[g]
    BY FlushedGrows
  <2>2. WriteUnflushed(size) => files' = files
    BY DEF WriteUnflushed
  <2> QED
    BY <1>2, <2>1, <2>2, ContentMoves
<1> HIDE DEF r
<1>7. Youngest' = Append(Youngest, r) /\ Youngest \in Seq(Records)
  BY Zenon, <1>4, <1>5, ContentsType
<1>8. AfterWrite(size)
  BY <1>2 DEF WriteFlushed, WriteUnflushed
<1>9. pc' \in {"main", "drain", "rotate"} /\ Hole = 0 /\ Hole' = 0
  BY <1>1, <1>8 DEF AfterWrite, Hole
<1>10. Bytes(Youngest') = Bytes(Youngest) + size
  BY <1>3, <1>7, BytesOfMore
<1>11. pc' \in {"main", "rotate"} =>
          /\ written' = Bytes(Youngest')
          /\ pc' = "rotate" => Bytes(Youngest') >= SizeBound
  <2> SUFFICES ASSUME pc' \in {"main", "rotate"}
               PROVE  /\ written' = Bytes(Youngest')
                      /\ pc' = "rotate" => Bytes(Youngest') >= SizeBound
    OBVIOUS
  <2>1. pc = "main" /\ written' = written + size /\ (pc' = "rotate" => Full(written + size))
    BY <1>1, <1>8 DEF AfterWrite
  <2>2. written = Bytes(Youngest)
    BY <2>1 DEF Intact, StreamHolds
  <2>3. written' = Bytes(Youngest')
    BY Zenon, <1>10, <2>1, <2>2
  <2> QED
    BY Zenon, <2>1, <2>3 DEF Full
<1>12. StreamHolds'
  BY <1>1, <1>5, <1>9, <1>11 DEF StreamHolds, Shifting
<1>13. \E new \in Cuts' : CutHolds(new)'
  <2>1. PICK cut \in Cuts : CutHolds(cut)
    BY DEF Intact
  <2> QED
    BY <1>1, <1>3, <1>6, <1>7, <1>9, <2>1, EndMoves
<1> QED
  BY <1>12, <1>13 DEF Intact

\* A close that loses nothing.
LEMMA ClosedWhole ==
    ASSUME SinkInv, isOpen, Close, lost' = 0
    PROVE  /\ Exists(0)' /\ Youngest' = Youngest /\ isOpen' = FALSE
           /\ \A g \in 1 .. Oldest : Content(g)' = Content(g)
<1> DEFINE whole == files[0] \o buffer
<1>1. files[0] \in Seq(Records) /\ whole \in Seq(Records) /\ files \in FilesType /\ 0 \in 0 .. Oldest
  BY StreamType, TypesApart, OldestType
<1>2. files' = [files EXCEPT ![0] = whole]
  <2>1. ~ (buffer # <<>> /\ lost' = lost + Len(buffer))
    <3> SUFFICES ASSUME buffer # <<>>, lost' = lost + Len(buffer) PROVE FALSE
      OBVIOUS
    <3>1. buffer \in Seq(Records) /\ lost \in Nat
      BY TypesApart
    <3>2. Len(buffer) \in Nat /\ Len(buffer) # 0
      BY <3>1
    <3> QED
      BY <3>1, <3>2
  <2> QED
    BY <2>1 DEF Close
<1> HIDE DEF whole
<1>3. files'[0] = whole
  BY <1>1, <1>2 DEF FilesType
<1>4. Exists(0)' /\ Content(0)' = whole /\ Content(0) = files[0]
  BY <1>1, <1>3, NoFileIsNone DEF Content, Exists
<1>5. buffer' = <<>> /\ isOpen' = FALSE
  BY DEF Close
<1>6. Youngest' = Youngest
  <2>1. whole \o <<>> = whole
    BY <1>1
  <2>2. Youngest = whole
    BY <1>4 DEF Youngest, whole
  <2>3. Youngest' = whole \o <<>>
    BY <1>4, <1>5 DEF Youngest
  <2> QED
    BY Zenon, <2>1, <2>2, <2>3
<1>7. \A g \in 1 .. Oldest : files'[g] = files[g]
  BY CloseKeeps
<1> QED
  BY <1>4, <1>5, <1>6, <1>7, ContentMoves

LEMMA CloseKeepsIntact ==
    ASSUME SinkInv, Intact, lost' = 0, BeginRotate \/ EndDrain
    PROVE  Intact'
<1>1. pc \in {"rotate", "drain"} /\ isOpen /\ Close /\ next' = next /\ base' = base
      /\ pc' \in {"remove", "clearFirst", "down"}
  BY DEF BeginRotate, EndDrain, Goes, ShiftFrom, history, Intact, StreamHolds
<1>2. /\ Exists(0)' /\ Youngest' = Youngest /\ isOpen' = FALSE
      /\ \A g \in 1 .. Oldest : Content(g)' = Content(g)
  BY <1>1, ClosedWhole
<1>3. Hole = 0 /\ Hole' = 0
  <2>1. Hole = 0
    BY <1>1 DEF Hole
  <2>2. pc' = "remove" => gen' = Generations
    BY DEF BeginRotate, EndDrain, Goes, ShiftFrom
  <2>3. pc' = "clearFirst" => ~ (Generations > 1)
    BY DEF BeginRotate, EndDrain, Goes, ShiftFrom, MoreToShift
  <2>4. ~ (Generations < Generations)
    BY SizesAssumption
  <2> QED
    BY <1>1, <2>1, <2>2, <2>3, <2>4 DEF Hole
<1>4. pc' # "down" => Bytes(Youngest') >= SizeBound
  <2>1. pc' # "down" => pc = "rotate"
    BY DEF BeginRotate, EndDrain, Goes
  <2>2. pc = "rotate" => Bytes(Youngest) >= SizeBound
    BY DEF Intact, StreamHolds
  <2> QED
    BY Zenon, <1>2, <2>1, <2>2
<1>5. StreamHolds'
  BY <1>1, <1>2, <1>3, <1>4 DEF StreamHolds, Shifting
<1>6. \E new \in Cuts' : CutHolds(new)'
  <2>1. PICK cut \in Cuts : CutHolds(cut)
    BY DEF Intact
  <2> QED
    BY <1>1, <1>2, <1>3, <2>1, SameCuts
<1> QED
  BY <1>5, <1>6 DEF Intact

\* While the shifting goes on, the root and the empty stream stay as they are.
LEMMA RootWaits ==
    ASSUME SinkInv, Intact, files'[0] = files[0], pc \in Shifting, pc' \in Shifting,
           UNCHANGED <<isOpen, buffer>>, Hole' # 0 /\ (pc' = "promote" => Generations > 1) => ~ Exists(Hole)'
    PROVE  StreamHolds' /\ Youngest' = Youngest
<1>1. Content(0)' = Content(0) /\ Exists(0)' = Exists(0)
  BY DEF Content, Exists
<1>2. Youngest' = Youngest
  BY <1>1 DEF Youngest
<1>3. Exists(0) /\ Bytes(Youngest) >= SizeBound
  BY DEF Intact, StreamHolds
<1>4. Exists(0)' /\ Bytes(Youngest') >= SizeBound
  BY Zenon, <1>1, <1>2, <1>3
<1>5. StreamHolds'
  BY <1>4 DEF StreamHolds, Shifting
<1> QED
  BY <1>2, <1>5

LEMMA RemoveOlderKeepsIntact ==
    ASSUME SinkInv, Intact, failures' = 0, RemoveOlder
    PROVE  Intact'
<1>0. PICK n : n = gen
  OBVIOUS
<1>1. pc = "remove" /\ pc' = "rename" /\ gen' = n /\ n > 1 /\ next' = next /\ base' = base
      /\ UNCHANGED <<isOpen, buffer>>
  BY <1>0 DEF RemoveOlder, Goes, SinkInv, SinkStages, history
<1>2. Removed(n)
  BY <1>0, TypesApart DEF RemoveOlder
<1>3. n \in 2 .. Oldest /\ Oldest = Generations /\ Oldest \in Nat /\ n \in 0 .. Oldest /\ n # 0
  BY <1>0, <1>1, TypesApart, OldestType, SizesAssumption DEF Oldest, GensType
<1>4. files \in FilesType /\ 0 \in 0 .. Oldest
  BY TypesApart, OldestType
<1>5. files'[n] = NoFile /\ \A h \in 0 .. Oldest : h # n => files'[h] = files[h]
  <2> HIDE DEF NoFile
  <2> QED
    BY <1>2, <1>3, <1>4 DEF Removed, FilesType
<1>6. files'[0] = files[0]
  BY <1>3, <1>4, <1>5
<1>7. Hole' = n
  BY <1>1 DEF Hole
<1>8. StreamHolds' /\ Youngest' = Youngest
  <2>1. ~ Exists(Hole)'
    BY <1>5, <1>7 DEF Exists
  <2> QED
    BY <1>1, <1>6, <2>1, RootWaits DEF Shifting
<1>9. Content(n)' = <<>> /\ \A h \in 1 .. Oldest : h # n => Content(h)' = Content(h)
  <2>1. \A h \in 1 .. Oldest : h # n => files'[h] = files[h]
    BY <1>3, <1>5
  <2> QED
    BY <1>5, <2>1, ContentGone, ContentMoves
<1>10. PICK cut \in Cuts : CutHolds(cut)
  BY DEF Intact
<1>11. CASE n < Generations
  <2>1. Hole = n
    BY <1>0, <1>1, <1>11 DEF Hole
  <2>2. ~ Exists(n)
    BY <1>1, <1>3, <2>1 DEF Intact, StreamHolds
  <2>3. Content(n) = <<>>
    BY <2>2 DEF Content
  <2>4. \A h \in 1 .. Oldest : Content(h)' = Content(h)
    BY <1>9, <2>3
  <2>5. Hole = Hole'
    BY <1>7, <2>1
  <2> QED
    BY <1>1, <1>8, <1>10, <2>4, <2>5, SameCuts DEF Intact
<1>12. CASE ~ (n < Generations)
  <2>1. n = Oldest
    BY <1>3, <1>12
  <2>2. Hole = 0
    BY <1>0, <1>1, <1>12 DEF Hole
  <2>3. \E new \in Cuts' : CutHolds(new)'
    BY <1>1, <1>7, <1>8, <1>9, <1>10, <2>1, <2>2, OldestGone
  <2> QED
    BY <1>8, <2>3 DEF Intact
<1> QED
  BY <1>11, <1>12

\* A rename onto a place that is free.
LEMMA RenamedMoves ==
    ASSUME SinkInv, NEW from \in 0 .. Oldest, NEW to \in 0 .. Oldest, from # to,
           Renamed(from, to), Exists(from) \/ ~ Exists(to)
    PROVE  /\ files'[to] = files[from] /\ files'[from] = NoFile
           /\ \A h \in 0 .. Oldest : h # from /\ h # to => files'[h] = files[h]
<1>1. files \in FilesType
  BY TypesApart
<1>2. CASE Exists(from)
  <2> DEFINE moved == [files EXCEPT ![to] = files[from]]
  <2>1. files' = [moved EXCEPT ![from] = NoFile]
    BY <1>1, <1>2 DEF Renamed, FilesType
  <2> HIDE DEF NoFile
  <2>2. files[from] \in Seq(Records) \cup {NoFile}
    BY <1>1 DEF FilesType
  <2>3. moved \in FilesType /\ moved[to] = files[from]
        /\ \A h \in 0 .. Oldest : h # to => moved[h] = files[h]
    BY <1>1, <2>2 DEF FilesType
  <2> HIDE DEF moved
  <2>4. files'[from] = NoFile /\ \A h \in 0 .. Oldest : h # from => files'[h] = moved[h]
    BY <2>1, <2>3 DEF FilesType
  <2> QED
    BY <2>3, <2>4
<1>3. CASE ~ Exists(from)
  <2>1. files' = files /\ files[from] = NoFile /\ files[to] = NoFile
    BY <1>3 DEF Renamed, Exists
  <2> QED
    BY <2>1
<1> QED
  BY <1>2, <1>3

LEMMA RenameOlderKeepsIntact ==
    ASSUME SinkInv, Intact, failures' = 0, RenameOlder
    PROVE  Intact'
<1>0. PICK n : n = gen
  OBVIOUS
<1>1. /\ pc = "rename" /\ n > 1 /\ next' = next /\ base' = base /\ UNCHANGED <<isOpen, buffer>>
      /\ ShiftFrom(n - 1)
  BY <1>0 DEF RenameOlder, SinkInv, SinkStages, history
<1>2. Renamed(n - 1, n)
  BY <1>0, TypesApart DEF RenameOlder
<1>3. /\ n \in 2 .. Oldest /\ Oldest = Generations /\ Oldest \in Nat
      /\ n \in 0 .. Oldest /\ n - 1 \in 0 .. Oldest /\ n - 1 # n /\ n # 0 /\ n - 1 # 0
      /\ Generations > 1 /\ n - 1 < Generations
  BY <1>0, <1>1, TypesApart, OldestType, SizesAssumption DEF Oldest, GensType
<1>4. Hole = n
  BY <1>0, <1>1 DEF Hole
<1>5. ~ Exists(n)
  BY <1>1, <1>3, <1>4 DEF Intact, StreamHolds
<1>6. files'[n] = files[n - 1] /\ files'[n - 1] = NoFile
      /\ \A h \in 0 .. Oldest : h # n - 1 /\ h # n => files'[h] = files[h]
  BY <1>2, <1>3, <1>5, RenamedMoves
<1>7. files'[0] = files[0]
  BY <1>3, <1>6
<1>8. gen' = n - 1 /\ pc' \in {"remove", "clearFirst"} /\ (pc' = "clearFirst" => n - 1 = 1)
  BY <1>1, <1>3 DEF ShiftFrom, MoreToShift
<1>9. Hole' = n - 1
  BY <1>3, <1>8 DEF Hole
<1>10. StreamHolds' /\ Youngest' = Youngest
  <2>1. ~ Exists(Hole)'
    BY <1>6, <1>9 DEF Exists
  <2>2. pc' \in Shifting /\ pc \in Shifting
    BY <1>1, <1>8 DEF Shifting
  <2> QED
    BY <1>1, <1>7, <2>1, <2>2, RootWaits
<1>11. /\ Content(n)' = Content(n - 1) /\ Content(n - 1)' = <<>>
       /\ \A h \in 1 .. Oldest : h # n /\ h # n - 1 => Content(h)' = Content(h)
  <2>1. \A h \in 1 .. Oldest : h # n /\ h # n - 1 => files'[h] = files[h]
    BY <1>3, <1>6
  <2>2. \A h \in 1 .. Oldest : h # n /\ h # n - 1 => Content(h)' = Content(h)
    BY <2>1, ContentMoves
  <2>3. Content(n)' = Content(n - 1)
    BY <1>6, ContentMoves
  <2>4. Content(n - 1)' = <<>>
    BY <1>6, ContentGone
  <2> QED
    BY <2>2, <2>3, <2>4
<1>12. PICK cut \in Cuts : CutHolds(cut)
  BY DEF Intact
<1>13. \E new \in Cuts' : CutHolds(new)'
  BY <1>1, <1>3, <1>4, <1>5, <1>9, <1>10, <1>11, <1>12, MovedUp
<1> QED
  BY <1>10, <1>13 DEF Intact

LEMMA ClearFirstKeepsIntact ==
    ASSUME SinkInv, Intact, ClearFirst
    PROVE  Intact'
<1>1. /\ pc = "clearFirst" /\ pc' = "promote" /\ next' = next /\ base' = base
      /\ UNCHANGED <<isOpen, buffer>> /\ (Removed(1) \/ Fails(1))
  BY DEF ClearFirst, Goes, history
<1>2. 1 \in 1 .. Oldest /\ 1 \in 0 .. Oldest /\ 0 \in 0 .. Oldest /\ files \in FilesType
      /\ (~ (Generations > 1) => Oldest = 1)
  BY OldestType, TypesApart DEF Oldest
<1>3. Hole' = 1 /\ Hole = IF Generations > 1 THEN 1 ELSE 0
  BY <1>1 DEF Hole
<1>4. Generations > 1 => ~ Exists(1)
  BY <1>1, <1>3 DEF Intact, StreamHolds
<1>5. Removed(1) => files'[1] = NoFile /\ \A h \in 0 .. Oldest : h # 1 => files'[h] = files[h]
  <2> HIDE DEF NoFile
  <2> QED
    BY <1>2 DEF Removed, FilesType
<1>6. files'[0] = files[0]
  BY <1>1, <1>2, <1>5 DEF Fails
<1>7. StreamHolds' /\ Youngest' = Youngest
  <2>1. Generations > 1 => ~ Exists(1)'
    BY <1>1, <1>4, <1>5 DEF Exists, Fails
  <2>2. Hole' # 0 /\ (pc' = "promote" => Generations > 1) => ~ Exists(Hole)'
    BY <1>1, <1>3, <2>1 DEF Exists
  <2> QED
    BY <1>1, <1>6, <2>2, RootWaits DEF Shifting
<1>8. PICK cut \in Cuts : CutHolds(cut)
  BY DEF Intact
<1>9. Removed(1) => Content(1)' = <<>> /\ \A h \in 1 .. Oldest : h # 1 => Content(h)' = Content(h)
  <2>1. Removed(1) => \A h \in 1 .. Oldest : h # 1 => files'[h] = files[h]
    BY <1>5, OldestType
  <2> QED
    BY <1>5, <2>1, ContentGone, ContentMoves
<1>10. Fails(1) => \A h \in 1 .. Oldest : Content(h)' = Content(h)
  BY ContentMoves DEF Fails
<1>11. CASE Generations > 1
  <2>1. Removed(1)
    BY <1>1, <1>4, <1>11 DEF Fails
  <2>2. Content(1) = <<>>
    BY <1>4, <1>11 DEF Content
  <2>3. \A h \in 1 .. Oldest : Content(h)' = Content(h)
    BY <1>9, <2>1, <2>2
  <2>4. Hole = Hole'
    BY <1>3, <1>11
  <2> QED
    BY <1>1, <1>7, <1>8, <2>3, <2>4, SameCuts DEF Intact
<1>12. CASE ~ (Generations > 1) /\ Fails(1)
  BY <1>1, <1>3, <1>7, <1>8, <1>10, <1>12, SameCuts DEF Intact
<1>13. CASE ~ (Generations > 1) /\ Removed(1)
  <2>1. Oldest = 1 /\ Hole = 0 /\ Hole' = Oldest
    BY <1>2, <1>3, <1>13
  <2>2. Content(Oldest)' = <<>> /\ \A h \in 1 .. Oldest : h # Oldest => Content(h)' = Content(h)
    BY <1>9, <1>13, <2>1
  <2>3. \E new \in Cuts' : CutHolds(new)'
    BY <1>1, <1>7, <1>8, <2>1, <2>2, OldestGone
  <2> QED
    BY <1>7, <2>3 DEF Intact
<1> QED
  BY <1>1, <1>11, <1>12, <1>13

LEMMA PromoteRootKeepsIntact ==
    ASSUME SinkInv, Intact, failures' = 0, PromoteRoot
    PROVE  Intact'
<1>1. /\ pc = "promote" /\ pc' = "reopen" /\ next' = next /\ base' = base
      /\ UNCHANGED <<isOpen, buffer>>
  BY DEF PromoteRoot, Goes, history
<1>2. Renamed(0, 1)
  BY TypesApart DEF PromoteRoot
<1>3. Exists(0) /\ Bytes(Youngest) >= SizeBound /\ buffer = <<>> /\ Hole = 1 /\ Hole' = 0
  BY <1>1 DEF Intact, StreamHolds, Shifting, SinkInv, SinkStages, Hole
<1>4. 1 \in 1 .. Oldest /\ 1 \in 0 .. Oldest /\ 0 \in 0 .. Oldest
      /\ (Oldest > 1 => Generations > 1)
  BY OldestType DEF Oldest
<1>5. files'[1] = files[0] /\ files'[0] = NoFile
      /\ \A h \in 0 .. Oldest : h # 0 /\ h # 1 => files'[h] = files[h]
  BY <1>2, <1>3, <1>4, RenamedMoves
<1>6. Youngest = Content(0) /\ Youngest' = <<>>
  <2>1. Content(0) \in Seq(Records)
    BY <1>4, ContentsType
  <2> DEFINE c == Content(0)
  <2>2. Content(0)' = <<>>
    BY <1>5, ContentGone
  <2>3. c \o <<>> = c /\ <<>> \o <<>> = <<>>
    <3> HIDE DEF c
    <3> QED
      BY <2>1 DEF c
  <2> QED
    BY <1>1, <1>3, <2>2, <2>3 DEF Youngest
<1>7. Content(1)' = Youngest /\ \A h \in 2 .. Oldest : Content(h)' = Content(h)
  <2>1. \A h \in 2 .. Oldest : h \in 0 .. Oldest /\ h # 0 /\ h # 1
    BY <1>4
  <2>2. \A h \in 2 .. Oldest : files'[h] = files[h]
    BY <1>5, <2>1
  <2>3. Content(1)' = Content(0)
    BY <1>5, ContentMoves
  <2> QED
    BY <1>6, <2>2, <2>3, ContentMoves
<1>8. StreamHolds'
  <2>1. ~ Exists(0)'
    BY <1>5 DEF Exists
  <2> QED
    BY <1>1, <1>3, <2>1 DEF StreamHolds, Shifting
<1>9. Oldest > 1 => ~ Exists(1)
  BY <1>1, <1>3, <1>4 DEF Intact, StreamHolds
<1>10. PICK cut \in Cuts : CutHolds(cut)
  BY DEF Intact
<1>11. \E new \in Cuts' : CutHolds(new)'
  BY <1>1, <1>3, <1>6, <1>7, <1>9, <1>10, RootPromoted
<1> QED
  BY <1>8, <1>11 DEF Intact

\* An open that succeeds leaves an empty root.
LEMMA OpenedEmpty ==
    ASSUME SinkInv, NEW n \in Nat, Open(n), failures' = 0, buffer' = <<>>
    PROVE  /\ isOpen' /\ Youngest' = <<>> /\ Bytes(Youngest') = 0
           /\ \A h \in 1 .. Oldest : Content(h)' = Content(h)
<1>1. isOpen' = TRUE
  BY DEF Open
<1>2. files'[0] = <<>> /\ \A h \in 1 .. Oldest : files'[h] = files[h]
  BY <1>1, OpenKeeps
<1>3. Content(0)' = <<>>
  BY <1>2 DEF Content, Exists
<1>4. Youngest' = <<>>
  <2>1. <<>> \o <<>> = <<>>
    OBVIOUS
  <2> QED
    BY <1>3, <2>1 DEF Youngest
<1>5. Bytes(Youngest') = 0
  BY <1>4, BytesOfNone
<1> QED
  BY <1>1, <1>2, <1>4, <1>5, ContentMoves

LEMMA ReopenKeepsIntact ==
    ASSUME SinkInv, Intact, failures' = 0, Reopen
    PROVE  Intact'
<1>1. /\ pc = "reopen" /\ pc' = "main" /\ next' = next /\ base' = base /\ buffer' = <<>> /\ buffer = <<>>
      /\ written' = 0 /\ Open(failures) /\ failures \in Nat
  BY TypesApart DEF Reopen, Goes, history, AfterRotation, SinkInv, SinkStages
<1>2. /\ isOpen' /\ Youngest' = <<>> /\ Bytes(Youngest') = 0
      /\ \A h \in 1 .. Oldest : Content(h)' = Content(h)
  BY <1>1, OpenedEmpty
<1>3. Youngest = <<>>
  <2>1. Content(0) = <<>>
    BY <1>1 DEF Intact, StreamHolds, Content
  <2>2. <<>> \o <<>> = <<>>
    OBVIOUS
  <2> QED
    BY <1>1, <2>1, <2>2 DEF Youngest
<1>4. Hole = 0 /\ Hole' = 0
  BY <1>1 DEF Hole
<1>5. StreamHolds'
  BY <1>1, <1>2, <1>4 DEF StreamHolds, Shifting
<1>6. PICK cut \in Cuts : CutHolds(cut)
  BY DEF Intact
<1>7. Youngest' = Youngest
  BY <1>2, <1>3
<1> QED
  BY <1>1, <1>2, <1>4, <1>5, <1>6, <1>7, SameCuts DEF Intact

\* A run begins with an empty root: whatever the family still holds is earlier.
LEMMA StartsIntact ==
    ASSUME SinkInv, AllWritten, failures' = 0, Start
    PROVE  Intact'
<1>0. PICK n : n = next
  OBVIOUS
<1>1. /\ pc' = "main" /\ next' = n /\ base' = n /\ buffer' = <<>> /\ written' = 0 /\ Open(0)
      /\ n \in Nat /\ 0 \in Nat
  BY <1>0, ContentsType DEF Start, SinkInv, SinkStages
<1>2. /\ isOpen' /\ Youngest' = <<>> /\ Bytes(Youngest') = 0
      /\ \A h \in 1 .. Oldest : Content(h)' = Content(h)
  BY <1>1, OpenedEmpty
<1>3. Hole' = 0
  BY <1>1 DEF Hole
<1>4. StreamHolds'
  BY <1>1, <1>2, <1>3 DEF StreamHolds, Shifting
<1> DEFINE cut == [g \in 0 .. Oldest + 1 |-> n]
<1>5. cut \in Cuts' /\ \A g \in 0 .. Oldest + 1 : cut[g] = n
  BY <1>1 DEF Cuts
<1> HIDE DEF cut
<1>6. \A g \in 1 .. Oldest : Earlier(g)'
  <2>1. \A g \in 1 .. Oldest : Older(Content(g), n)
    BY <1>0, OldestType DEF AllWritten
  <2> QED
    BY <1>1, <1>2, <2>1 DEF Earlier
<1>7. cut[0] = next' /\ Stretch(Youngest', cut[1], next')
  <2>1. cut[0] = n /\ cut[1] = n
    BY <1>5, OldestType
  <2>2. Stretch(<<>>, n, n)
    BY <1>1, EmptyStretch
  <2> QED
    BY <1>1, <1>2, <2>1, <2>2
<1>8. \A g \in 1 .. Oldest : cut[g + 1] = cut[g]
  BY <1>5, OldestType
<1>9. \A g \in 1 .. Oldest + 1 : ~ (cut[g] > base')
  BY <1>1, <1>5, OldestType
<1>10. CutHolds(cut)'
  BY <1>6, <1>7, <1>8, <1>9 DEF CutHolds
<1> QED
  BY <1>4, <1>5, <1>10 DEF Intact

LEMMA BeginDrainKeepsIntact ==
    ASSUME SinkInv, Intact, BeginDrain
    PROVE  Intact'
<1>1. /\ pc = "main" /\ pc' = "drain" /\ next' = next /\ base' = base
      /\ files' = files /\ buffer' = buffer /\ isOpen' = isOpen
  BY DEF BeginDrain, Goes, history
<1>2. \A h \in 0 .. Oldest : Content(h)' = Content(h)
  BY <1>1, ContentMoves
<1>3. Youngest' = Youngest
  BY <1>1, <1>2, OldestType DEF Youngest
<1>4. Hole = 0 /\ Hole' = 0
  BY <1>1 DEF Hole
<1>5. StreamHolds'
  BY <1>1, <1>4 DEF StreamHolds, Intact, Shifting
<1>6. PICK cut \in Cuts : CutHolds(cut)
  BY DEF Intact
<1>7. \A h \in 1 .. Oldest : Content(h)' = Content(h)
  BY <1>2, OldestType
<1> QED
  BY <1>1, <1>3, <1>4, <1>5, <1>6, <1>7, SameCuts DEF Intact

\* Nothing a run goes through makes an excuse disappear.
LEMMA UnhurtBefore ==
    ASSUME SinkInv, SinkInv', Next, ~ Start, Unhurt'
    PROVE  Unhurt /\ failures' = 0 /\ lost' = 0
<1>1. failures \in Nat /\ lost \in Nat /\ Len(buffer) \in Nat
  BY TypesApart
<1>2. failures' \in {failures, failures + 1} /\ lost' \in {lost, lost + Len(buffer)} /\ pc # "crashed"
  <2>1. CASE Write
    BY <2>1 DEF Write, WriteRefused, WriteFlushed, WriteUnflushed, WriteElsewhere
  <2>2. CASE BeginRotate \/ EndDrain
    BY <2>2 DEF BeginRotate, EndDrain, Close, Goes
  <2>3. CASE RotateNothing \/ BeginDrain \/ Crash \/ Reopen
    BY <2>3 DEF RotateNothing, BeginDrain, Crash, Reopen, Goes, Open
  <2>4. CASE RemoveOlder \/ RenameOlder \/ ClearFirst \/ PromoteRoot
    BY <2>4 DEF RemoveOlder, RenameOlder, ClearFirst, PromoteRoot, Goes
  <2> QED
    BY <2>1, <2>2, <2>3, <2>4 DEF Next, Rotate
<1>3. failures' = 0 /\ lost' = 0
  BY DEF Unhurt
<1> QED
  BY <1>1, <1>2, <1>3 DEF Unhurt

LEMMA RetainInvStarts == Init => RetainInv
<1> SUFFICES ASSUME Init PROVE RetainInv
  OBVIOUS
<1>1. SinkInv /\ next = 0 /\ base = 0 /\ buffer = <<>> /\ pc = "down"
  BY SinkStarts DEF Init
<1>2. \A g \in 0 .. Oldest : Content(g) = <<>>
  BY DEF Init, Content, Exists
<1>3. AllWritten
  BY <1>1, <1>2, OlderNone DEF AllWritten
<1>4. Hole = 0
  BY <1>1 DEF Hole
<1>5. StreamHolds
  BY <1>1, <1>4 DEF StreamHolds, Shifting
<1> DEFINE cut == [g \in 0 .. Oldest + 1 |-> 0]
<1>6. cut \in Cuts /\ \A g \in 0 .. Oldest + 1 : cut[g] = 0
  BY <1>1 DEF Cuts
<1> HIDE DEF cut
<1>7. Youngest = <<>>
  <2>1. <<>> \o <<>> = <<>>
    OBVIOUS
  <2> QED
    BY <1>1, <1>2, <2>1, OldestType DEF Youngest
<1>8. cut[0] = next /\ Stretch(Youngest, cut[1], next)
  <2>1. cut[0] = 0 /\ cut[1] = 0
    BY <1>6, OldestType
  <2>2. Stretch(<<>>, 0, 0)
    BY EmptyStretch
  <2> QED
    BY <1>1, <1>7, <2>1, <2>2
<1>9. \A g \in 1 .. Oldest : Earlier(g) /\ cut[g + 1] = cut[g]
  <2>1. \A g \in 1 .. Oldest : g \in 0 .. Oldest /\ cut[g + 1] = cut[g]
    BY <1>6, OldestType
  <2> QED
    BY <1>2, <2>1, OlderNone DEF Earlier
<1>10. \A g \in 1 .. Oldest + 1 : ~ (cut[g] > base)
  BY <1>1, <1>6, OldestType
<1>11. CutHolds(cut)
  BY <1>8, <1>9, <1>10 DEF CutHolds
<1> QED
  BY <1>3, <1>5, <1>6, <1>11 DEF RetainInv, Intact

LEMMA RetainInvAlways == Spec => []RetainInv
<1>1. SinkInv /\ SinkInv' /\ RetainInv /\ [Next]_vars => RetainInv'
  <2> SUFFICES ASSUME SinkInv, SinkInv', RetainInv, [Next]_vars PROVE RetainInv'
    OBVIOUS
  <2>1. AllWritten'
    BY StepKeepsWritten DEF RetainInv
  <2>2. ASSUME Next, Unhurt' PROVE Intact'
    <3>1. CASE Start
      <4>1. AllWritten /\ failures' = 0
        BY <2>2 DEF RetainInv, Unhurt
      <4> QED
        BY <3>1, <4>1, StartsIntact
    <3>2. CASE ~ Start
      <4>1. Intact /\ failures' = 0 /\ lost' = 0
        BY <2>2, <3>2, UnhurtBefore DEF RetainInv
      <4>2. ~ RotateNothing
        BY <4>1 DEF RotateNothing, Goes, Intact, StreamHolds
      <4>3. ~ Crash
        BY <2>2 DEF Crash, Unhurt
      <4> QED
        BY <2>2, <3>2, <4>1, <4>2, <4>3, WriteKeepsIntact, CloseKeepsIntact, RemoveOlderKeepsIntact,
           RenameOlderKeepsIntact, ClearFirstKeepsIntact, PromoteRootKeepsIntact,
           ReopenKeepsIntact, BeginDrainKeepsIntact DEF Next, Rotate
    <3> QED
      BY <3>1, <3>2
  <2>3. CASE UNCHANGED vars
    <3>1. Unhurt' = Unhurt
      BY <2>3 DEF vars, Unhurt
    <3>2. Intact' = Intact
      BY <2>3 DEF vars, Intact, StreamHolds, Cuts, CutHolds, Youngest, Content, Exists, Hole, Earlier,
                  Filled
    <3> QED
      BY <2>1, <3>1, <3>2 DEF RetainInv
  <2> QED
    BY <2>1, <2>2, <2>3 DEF RetainInv
<1> QED
  BY RetainInvStarts, <1>1, SinkInvAlways, PTL DEF Spec

\* As long as the sink counts no failure and loses no buffer, the family holds the newest
\* records of the run without a gap, and at least size_bound bytes for each generation
\* once any of them is gone: whatever the rotations before did and however earlier runs
\* ended, for every bound and family (rotate(), service.cpp:326-363; "retention =
\* size_bound x generations", service.hpp:63-64).
THEOREM BudgetIsRetained == Spec => []RetainsItsBudget
<1> QED
  BY BudgetFollows, SinkInvAlways, RetainInvAlways, PTL
=============================================================================
