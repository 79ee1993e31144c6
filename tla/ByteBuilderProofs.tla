------------------------- MODULE ByteBuilderProofs -------------------------
(***************************************************************************)
(* Theorems about the byte builder, for every width of words, bytes and    *)
(* scalars, any number of builders and whatever is appended: it implements *)
(* the accumulator, it grows by doubling, and what was put in is read      *)
(* back.                                                                   *)
(***************************************************************************)
EXTENDS ByteBuilder, ArithmeticProofs

-----------------------------------------------------------------------------
(* The codecs.                                                              *)

LEMMA WeightIs ==
    /\ Weight[0] = 1
    /\ \A k \in 0 .. LongWidth : Weight[k] \in Nat \ {0}
    /\ \A k \in 1 .. LongWidth : Weight[k] = Byte * Weight[k - 1]
<1>1. LongWidth \in Nat /\ Byte \in Nat \ {0}
  BY WidthAssumption
<1>2. IsPowers(Weight, Byte, LongWidth)
  <2>1. Weight = CHOOSE f : IsPowers(f, Byte, LongWidth)
    BY Zenon DEF Weight, IsPowers
  <2>2. \E f : IsPowers(f, Byte, LongWidth)
    BY <1>1, PowersExist
  <2> QED
    BY <2>1, <2>2
<1> QED
  BY <1>1, <1>2, PowersAre

\* The digit of a weight w is what separates a number in units of w from one in units of
\* the next weight.
LEMMA Digit ==
    ASSUME NEW v \in Nat, NEW w \in Nat \ {0}, NEW m, m = Byte * w
    PROVE  /\ v \div w \in Nat /\ v \div m \in Nat /\ (v \div w) % Byte \in Bytes
           /\ v \div w = ((v \div m) * Byte) + ((v \div w) % Byte)
           /\ v % m = (v % w) + (((v \div w) % Byte) * w)
<1> DEFINE x == v \div w
           s == v % w
           y == x \div Byte
           t == x % Byte
           a == t * w
<1>0. Byte \in Nat \ {0} /\ m \in Nat \ {0}
  BY WidthAssumption
<1>1. x \in Nat /\ s \in 0 .. w - 1 /\ v = w * x + s
  OBVIOUS
<1>2. y \in Nat /\ t \in 0 .. Byte - 1 /\ x = Byte * y + t
  BY <1>0, <1>1
<1> HIDE DEF x, s, y, t
<1>3. w * x = m * y + a
  BY <1>0, <1>1, <1>2
<1>4. a \in Nat /\ a <= m - w
  <2>1. a \in Nat
    BY <1>2
  <2>2. (t + 1) * w <= Byte * w
    <3>1. t + 1 <= Byte /\ t + 1 \in Nat
      BY <1>0, <1>2
    <3> QED
      BY <1>0, <3>1
  <2>3. (t + 1) * w = a + w
    BY <1>2
  <2> QED
    BY <1>0, <2>1, <2>2, <2>3
<1>5. v = m * y + (a + s) /\ a + s \in 0 .. m - 1
  <2> DEFINE b == m * y
             c == w * x
  <2>1. b \in Int /\ c \in Int /\ c = b + a /\ v = c + s
    BY <1>0, <1>1, <1>2, <1>3
  <2> HIDE DEF a, b, c
  <2>2. v = b + (a + s) /\ a + s \in 0 .. m - 1
    BY <1>0, <1>1, <1>4, <2>1
  <2> QED
    BY <2>2 DEF b
<1> DEFINE r == a + s
<1>6. v = m * y + r /\ r \in 0 .. m - 1
  BY <1>5
<1> HIDE DEF a, r
<1>7. v \div m = y /\ v % m = r
  BY <1>0, <1>2, <1>6, Euclid
<1>8. r = s + a /\ t \in Bytes /\ Byte * y = y * Byte
  BY <1>0, <1>1, <1>2, <1>4 DEF r, Bytes
<1> QED
  BY <1>1, <1>2, <1>7, <1>8 DEF x, s, y, t, a

IsBigEndian(f, bytes) ==
    f = [k \in 0 .. Len(bytes) |-> IF k = 0 THEN 0 ELSE f[k - 1] * Byte + bytes[k]]
IsLittleEndian(f, bytes) ==
    f = [k \in 0 .. Len(bytes) |-> IF k = 0 THEN 0 ELSE f[k - 1] + bytes[k] * Weight[k - 1]]

\* A decoder's loop computes what satisfies its recursion.
LEMMA DecodesBE ==
    ASSUME NEW bytes, Len(bytes) \in Nat, NEW g, IsBigEndian(g, bytes)
    PROVE  DecodeBE(bytes) = g[Len(bytes)]
<1> DEFINE n == Len(bytes)
           f == CHOOSE f : IsBigEndian(f, bytes)
           S == {k \in Nat : k <= n => f[k] = g[k]}
<1>1. DecodeBE(bytes) = f[n]
  BY Zenon DEF DecodeBE, IsBigEndian
<1>2. IsBigEndian(f, bytes)
  OBVIOUS
<1> HIDE DEF f
<1>3. 0 \in S
  BY <1>2 DEF IsBigEndian
<1>4. ASSUME NEW k \in Nat, k \in S PROVE k + 1 \in S
  <2> SUFFICES ASSUME k + 1 <= n PROVE f[k + 1] = g[k + 1]
    OBVIOUS
  <2>1. k + 1 \in 0 .. n /\ k + 1 # 0 /\ (k + 1) - 1 = k /\ f[k] = g[k]
    BY <1>4
  <2> QED
    BY <1>2, <2>1 DEF IsBigEndian
<1> HIDE DEF S
<1>5. \A k \in Nat : k \in S
  BY <1>3, <1>4, NatInd
<1>6. f[n] = g[n]
  BY <1>5 DEF S
<1> QED
  BY <1>1, <1>6

LEMMA DecodesLE ==
    ASSUME NEW bytes, Len(bytes) \in Nat, NEW g, IsLittleEndian(g, bytes)
    PROVE  DecodeLE(bytes) = g[Len(bytes)]
<1> DEFINE n == Len(bytes)
           f == CHOOSE f : IsLittleEndian(f, bytes)
           S == {k \in Nat : k <= n => f[k] = g[k]}
<1>1. DecodeLE(bytes) = f[n]
  BY Zenon DEF DecodeLE, IsLittleEndian
<1>2. IsLittleEndian(f, bytes)
  OBVIOUS
<1> HIDE DEF f
<1>3. 0 \in S
  BY <1>2 DEF IsLittleEndian
<1>4. ASSUME NEW k \in Nat, k \in S PROVE k + 1 \in S
  <2> SUFFICES ASSUME k + 1 <= n PROVE f[k + 1] = g[k + 1]
    OBVIOUS
  <2>1. k + 1 \in 0 .. n /\ k + 1 # 0 /\ (k + 1) - 1 = k /\ f[k] = g[k]
    BY <1>4
  <2> QED
    BY <1>2, <2>1 DEF IsLittleEndian
<1> HIDE DEF S
<1>5. \A k \in Nat : k \in S
  BY <1>3, <1>4, NatInd
<1>6. f[n] = g[n]
  BY <1>5 DEF S
<1> QED
  BY <1>1, <1>6

\* The bytes of a scalar are what the shifts of its value leave.
LEMMA EncodedBytes ==
    ASSUME NEW order \in {"le", "be"}, NEW value \in Nat, NEW width \in 1 .. LongWidth
    PROVE  LET bytes == Encoded(order, value, width) IN
           /\ bytes \in Seq(Bytes) /\ Len(bytes) = width
           /\ \A i \in 1 .. width :
                 bytes[i] = (value \div Weight[IF order = "le" THEN i - 1 ELSE width - i]) % Byte
<1> DEFINE low == [i \in 1 .. LongWidth |-> (value \div Weight[i - 1]) % Byte]
           high == [i \in 1 .. LongWidth |-> (value \div Weight[LongWidth - i]) % Byte]
<1>1. LongWidth \in Nat /\ Byte \in Nat \ {0} /\ width \in Nat
  BY WidthAssumption
<1>2. \A w \in Nat \ {0} : (value \div w) % Byte \in Bytes
  BY <1>1 DEF Bytes
<1>3. low \in Seq(Bytes) /\ Len(low) = LongWidth
  <2>1. low \in [1 .. LongWidth -> Bytes]
    <3>1. \A i \in 1 .. LongWidth : Weight[i - 1] \in Nat \ {0}
      BY <1>1, WeightIs
    <3> QED
      BY <1>2, <3>1
  <2> QED
    BY <1>1, <2>1
<1>4. high \in Seq(Bytes) /\ Len(high) = LongWidth
  <2>1. high \in [1 .. LongWidth -> Bytes]
    <3>1. \A i \in 1 .. LongWidth : Weight[LongWidth - i] \in Nat \ {0}
      BY <1>1, WeightIs
    <3> QED
      BY <1>2, <3>1
  <2> QED
    BY <1>1, <2>1
<1>5. CASE order = "le"
  <2>1. Encoded(order, value, width) = SubSeq(low, 1, width)
    BY <1>5 DEF Encoded, EncodeLE
  <2>2. \A i \in 1 .. width : low[i] = (value \div Weight[i - 1]) % Byte
    BY <1>1
  <2> HIDE DEF low
  <2>3. SubSeq(low, 1, width) \in Seq(Bytes) /\ Len(SubSeq(low, 1, width)) = width
        /\ \A i \in 1 .. width : SubSeq(low, 1, width)[i] = low[i]
    BY <1>1, <1>3
  <2> QED
    BY <1>5, <2>1, <2>2, <2>3
<1>6. CASE order = "be"
  <2> DEFINE from == LongWidth - width + 1
  <2>1. Encoded(order, value, width) = SubSeq(high, from, LongWidth)
    BY <1>6 DEF Encoded, EncodeBE
  <2>2. \A i \in 1 .. width : /\ from + i - 1 \in 1 .. LongWidth
                             /\ LongWidth - (from + i - 1) = width - i
    BY <1>1
  <2>3. \A i \in 1 .. width : high[from + i - 1] = (value \div Weight[width - i]) % Byte
    BY <2>2
  <2>4. from \in 1 .. LongWidth /\ LongWidth - from + 1 = width
    BY <1>1
  <2> HIDE DEF high, from
  <2>5. SubSeq(high, from, LongWidth) \in Seq(Bytes) /\ Len(SubSeq(high, from, LongWidth)) = width
        /\ \A i \in 1 .. width : SubSeq(high, from, LongWidth)[i] = high[from + i - 1]
    BY <1>1, <1>4, <2>4
  <2> QED
    BY <1>6, <2>1, <2>3, <2>5
<1> QED
  BY <1>5, <1>6

\* What is encoded in a scalar's bytes is decoded from them, in either order and at every
\* width that the value fits (endian.hpp:14-73).
THEOREM CodecsInvert ==
    ASSUME NEW order \in {"le", "be"}, NEW width \in 1 .. LongWidth,
           NEW value \in Nat, value < Weight[width]
    PROVE  Decoded(order, Encoded(order, value, width)) = value
<1> DEFINE bytes == Encoded(order, value, width)
<1>1. LongWidth \in Nat /\ width \in Nat /\ Byte \in Nat \ {0}
  BY WidthAssumption
<1>2. /\ Len(bytes) = width
      /\ \A i \in 1 .. width :
            bytes[i] = (value \div Weight[IF order = "le" THEN i - 1 ELSE width - i]) % Byte
  BY EncodedBytes
<1>3. \A k \in 0 .. width : Weight[k] \in Nat \ {0}
  BY <1>1, WeightIs
<1>4. \A k \in 1 .. width : Weight[k] = Byte * Weight[k - 1]
  BY <1>1, WeightIs
<1> HIDE DEF bytes
<1>5. CASE order = "be"
  <2> DEFINE g == [k \in 0 .. width |-> value \div Weight[width - k]]
  <2>1. \A k \in 1 .. width : g[k] = g[k - 1] * Byte + bytes[k]
    <3> SUFFICES ASSUME NEW k \in 1 .. width PROVE g[k] = g[k - 1] * Byte + bytes[k]
      OBVIOUS
    <3>1. width - k \in 0 .. width /\ width - (k - 1) \in 1 .. width
          /\ (width - (k - 1)) - 1 = width - k
      BY <1>1
    <3>2. g[k] = value \div Weight[width - k] /\ g[k - 1] = value \div Weight[width - (k - 1)]
      BY <1>1
    <3>3. bytes[k] = (value \div Weight[width - k]) % Byte
      BY <1>2, <1>5
    <3>4. Weight[width - (k - 1)] = Byte * Weight[width - k] /\ Weight[width - k] \in Nat \ {0}
      BY <1>3, <1>4, <3>1
    <3>5. value \div Weight[width - k] =
             ((value \div Weight[width - (k - 1)]) * Byte)
                + ((value \div Weight[width - k]) % Byte)
      BY <3>4, Digit
    <3> HIDE DEF g
    <3> QED
      BY <3>2, <3>3, <3>5
  <2>2. g[0] = 0
    <3>1. g[0] = value \div Weight[width]
      BY <1>1
    <3>2. Weight[width] \in Nat \ {0} /\ value \in 0 .. Weight[width] - 1
      BY <1>1, <1>3
    <3>3. value = Weight[width] * 0 + value
      BY <3>2
    <3> QED
      BY <3>1, <3>2, <3>3, Euclid
  <2>3. g[width] = value
    BY <1>1, WeightIs
  <2>4. g = [k \in 0 .. width |-> g[k]]
    OBVIOUS
  <2> HIDE DEF g
  <2>5. IsBigEndian(g, bytes)
    <3>1. \A k \in 0 .. width : g[k] = IF k = 0 THEN 0 ELSE g[k - 1] * Byte + bytes[k]
      BY <1>1, <2>1, <2>2
    <3>2. g = [k \in 0 .. width |-> IF k = 0 THEN 0 ELSE g[k - 1] * Byte + bytes[k]]
      BY <2>4, <3>1
    <3> QED
      BY <1>2, <3>2 DEF IsBigEndian
  <2>6. DecodeBE(bytes) = value
    BY <1>1, <1>2, <2>3, <2>5, DecodesBE
  <2> QED
    BY <1>5, <2>6 DEF Decoded, bytes
<1>6. CASE order = "le"
  <2> DEFINE g == [k \in 0 .. width |-> value % Weight[k]]
  <2>1. \A k \in 1 .. width : g[k] = g[k - 1] + bytes[k] * Weight[k - 1]
    <3> SUFFICES ASSUME NEW k \in 1 .. width PROVE g[k] = g[k - 1] + bytes[k] * Weight[k - 1]
      OBVIOUS
    <3>1. k - 1 \in 0 .. width
      BY <1>1
    <3>2. g[k] = value % Weight[k] /\ g[k - 1] = value % Weight[k - 1]
      BY <1>1
    <3>3. bytes[k] = (value \div Weight[k - 1]) % Byte
      BY <1>2, <1>6
    <3>4. Weight[k] = Byte * Weight[k - 1] /\ Weight[k - 1] \in Nat \ {0}
      BY <1>3, <1>4, <3>1
    <3>5. value % Weight[k] =
             (value % Weight[k - 1]) + (((value \div Weight[k - 1]) % Byte) * Weight[k - 1])
      BY <3>4, Digit
    <3> HIDE DEF g
    <3> QED
      BY <3>2, <3>3, <3>5
  <2>2. g[0] = 0
    BY <1>1, WeightIs
  <2>3. g[width] = value
    <3>1. g[width] = value % Weight[width]
      BY <1>1
    <3>2. Weight[width] \in Nat \ {0} /\ value \in 0 .. Weight[width] - 1
      BY <1>1, <1>3
    <3>3. value = Weight[width] * 0 + value
      BY <3>2
    <3> QED
      BY <3>1, <3>2, <3>3, Euclid
  <2>4. g = [k \in 0 .. width |-> g[k]]
    OBVIOUS
  <2> HIDE DEF g
  <2>5. IsLittleEndian(g, bytes)
    <3>1. \A k \in 0 .. width : g[k] = IF k = 0 THEN 0 ELSE g[k - 1] + bytes[k] * Weight[k - 1]
      BY <1>1, <2>1, <2>2
    <3>2. g = [k \in 0 .. width |-> IF k = 0 THEN 0 ELSE g[k - 1] + bytes[k] * Weight[k - 1]]
      BY <2>4, <3>1
    <3> QED
      BY <1>2, <3>2 DEF IsLittleEndian
  <2>6. DecodeLE(bytes) = value
    BY <1>1, <1>2, <2>3, <2>5, DecodesLE
  <2> QED
    BY <1>6, <2>6 DEF Decoded, bytes
<1> QED
  BY <1>5, <1>6

-----------------------------------------------------------------------------
(* What the operations make of a builder.                                   *)

Cells == Bytes \cup {Unwritten}
BuilderType ==
    [cells : Seq(Cells), size : Nat, max : Words,
     status : {"unborn", "ok", "capacity_exceeded", "allocation_failed"}]

\* The live bytes are bytes, the block holds them and is within the bound.
Sound(builder) ==
    /\ builder \in BuilderType
    /\ builder.size <= Capacity(builder) /\ Capacity(builder) <= builder.max
    /\ \A i \in 1 .. builder.size : builder.cells[i] \in Bytes
    /\ builder.status = "unborn" => builder = Unborn

LEMMA WordsAreNaturals ==
    /\ WordSize \in Nat \ {0} /\ \A n \in Words : n \in Nat
    /\ Usize \in IntegerTypes /\ Values(Usize) = Words
<1>1. WordSize \in Nat \ {0} /\ WordSize - 1 \in Nat
  BY WidthAssumption
<1>2. Usize \in IntegerTypes /\ Values(Usize) = Words
  BY <1>1 DEF Usize, IntegerTypes, Unsigned, Values, Words
<1>3. \A n \in Words : n \in Nat
  BY <1>1 DEF Words
<1> QED
  BY <1>1, <1>2, <1>3

LEMMA SoundParts ==
    ASSUME NEW builder, Sound(builder)
    PROVE  /\ builder.cells \in Seq(Cells) /\ builder.size \in Nat /\ Capacity(builder) \in Nat
           /\ builder.max \in Words /\ builder.max \in Nat /\ Capacity(builder) \in Words
           /\ Capacity(builder) = Len(builder.cells)
           /\ builder.size <= Capacity(builder) /\ Capacity(builder) <= builder.max
<1>1. builder.cells \in Seq(Cells) /\ builder.size \in Nat /\ builder.max \in Words
  BY DEF Sound, BuilderType
<1>2. Len(builder.cells) \in Nat
  BY <1>1
<1>3. builder.max \in Nat
  BY <1>1, WordsAreNaturals
<1> QED
  BY <1>1, <1>2, <1>3, WordsAreNaturals DEF Sound, Capacity, Words

LEMMA EmptyIsSound ==
    /\ Sound(Unborn) /\ \A max \in Words : Sound(Builder(max)) /\ Builder(max).status = "ok"
    /\ Sound(Left) /\ Left.status = "ok" /\ Left = Builder(0)
<1>1. <<>> \in Seq(Cells) /\ Len(<<>>) = 0 /\ 0 \in Words
  BY WordsAreNaturals DEF Words
<1>2. \A n \in Words : n \in Nat
  BY WordsAreNaturals
<1>3. Sound(Unborn)
  BY <1>1 DEF Sound, BuilderType, Unborn, Capacity
<1>4. \A max \in Words : Sound(Builder(max)) /\ Builder(max).status = "ok"
  BY <1>1, <1>2 DEF Sound, BuilderType, Builder, Capacity
<1> QED
  BY <1>1, <1>3, <1>4 DEF Left

Doubles(old, new, max) == new >= 2 * old \/ new = max \/ 2 * old \notin Words

\* Growth reaches what is required, stays within the bound, and doubles if that and the
\* width of the words permit.
LEMMA TargetIs ==
    ASSUME NEW builder, Sound(builder), NEW required \in Nat,
           required > Capacity(builder), required <= builder.max
    PROVE  /\ Target(builder, required) \in Nat
           /\ required <= Target(builder, required) /\ Target(builder, required) <= builder.max
           /\ Doubles(Capacity(builder), Target(builder, required), builder.max)
<1> DEFINE c == Capacity(builder)
           m == builder.max
           doubled == CheckedMul(c, 2, Usize)
           wanted == Max({required} \cup doubled)
<1>1. c \in Words /\ c \in Nat /\ m \in Nat /\ m \in Words
  BY SoundParts
<1>2. 2 * c \in Nat /\ c * 2 = 2 * c
  BY <1>1
<1>3. Target(builder, required) = Min({wanted, m})
  BY DEF Target
<1>4. \A x, y \in Nat : /\ Max({x, y}) \in Nat /\ Max({x, y}) >= x /\ Max({x, y}) >= y
                       /\ Max({x, y}) \in {x, y}
  <2> SUFFICES ASSUME NEW x \in Nat, NEW y \in Nat
               PROVE  Max({x, y}) \in {x, y} /\ Max({x, y}) >= x /\ Max({x, y}) >= y
    OBVIOUS
  <2>1. \E z \in {x, y} : \A u \in {x, y} : z >= u
    BY <1>1
  <2>2. Max({x, y}) \in {x, y} /\ \A u \in {x, y} : Max({x, y}) >= u
    BY <2>1 DEF Max
  <2> QED
    BY <2>2
<1>5. \A x, y \in Nat : /\ Min({x, y}) \in {x, y} /\ Min({x, y}) <= x /\ Min({x, y}) <= y
  <2> SUFFICES ASSUME NEW x \in Nat, NEW y \in Nat
               PROVE  Min({x, y}) \in {x, y} /\ Min({x, y}) <= x /\ Min({x, y}) <= y
    OBVIOUS
  <2>1. \E z \in {x, y} : \A u \in {x, y} : z <= u
    BY <1>1
  <2>2. Min({x, y}) \in {x, y} /\ \A u \in {x, y} : Min({x, y}) <= u
    BY <2>1 DEF Min
  <2> QED
    BY <2>2
<1>6. CASE 2 * c \in Words
  <2>1. ASSUME c = 0 PROVE doubled = {2 * c}
    <3>1. 0 \in Values(Usize) /\ Wrapped(0, Usize) = 0
      BY <1>6, <2>1, WordsAreNaturals, WrapsNothing
    <3>2. doubled = {0}
      BY <2>1, <3>1 DEF CheckedMul, MulOverflows, Usize, Unsigned
    <3> QED
      BY <2>1, <3>2
  <2>2. ASSUME c # 0 PROVE doubled = {2 * c}
    <3>1. 2 \in Words
      BY <1>1, <1>2, <1>6, <2>2, WordsAreNaturals DEF Words
    <3>2. doubled = {2 * c}
      BY <1>1, <1>2, <1>6, <3>1, WordsAreNaturals, MulIsExact
    <3> QED
      BY <3>2
  <2>3. {required} \cup doubled = {required, 2 * c}
    <3>1. doubled = {2 * c}
      BY <2>1, <2>2
    <3> QED
      BY <3>1
  <2>4. wanted \in Nat /\ wanted >= required /\ wanted >= 2 * c
    BY <1>2, <1>4, <2>3
  <2> HIDE DEF wanted, c, m
  <2>5. Min({wanted, m}) \in Nat /\ Min({wanted, m}) >= required /\ Min({wanted, m}) <= m
        /\ (Min({wanted, m}) >= 2 * c \/ Min({wanted, m}) = m)
    <3>1. Min({wanted, m}) \in {wanted, m} /\ Min({wanted, m}) <= wanted /\ Min({wanted, m}) <= m
      BY <1>1, <1>5, <2>4
    <3>2. required <= m
      BY DEF m
    <3> QED
      BY <1>1, <1>2, <2>4, <3>1, <3>2
  <2> QED
    BY <1>3, <2>5 DEF Doubles, c, m
<1>7. CASE 2 * c \notin Words
  <2>1. wanted \in Nat /\ wanted >= required
    <3>1. doubled = {}
      <4>1. CASE 2 \in Words
        BY <1>1, <1>2, <1>7, <4>1, WordsAreNaturals, MulIsExact
      <4>2. CASE 2 \notin Words
        <5>1. WordSize = 2
          <6>1. c # 0 /\ WordSize \in Nat
            BY <1>1, <1>7, WordsAreNaturals DEF Words
          <6> QED
            BY <1>1, <4>2, <6>1 DEF Words
        <5>2. c = 1
          BY <1>1, <1>7, <5>1 DEF Words
        <5> QED
          BY <5>1, <5>2 DEF CheckedMul, MulOverflows, Usize, Unsigned, Quotient
      <4> QED
        BY <4>1, <4>2
    <3>2. {required} \cup doubled = {required, required}
      BY <3>1
    <3> QED
      BY <1>4, <3>2
  <2> HIDE DEF wanted, c, m
  <2>2. Min({wanted, m}) \in Nat /\ Min({wanted, m}) >= required /\ Min({wanted, m}) <= m
    <3>1. Min({wanted, m}) \in {wanted, m} /\ Min({wanted, m}) <= wanted /\ Min({wanted, m}) <= m
      BY <1>1, <1>5, <2>1
    <3>2. required <= m
      BY DEF m
    <3> QED
      BY <1>1, <2>1, <3>1, <3>2
  <2> QED
    BY <1>3, <1>7, <2>2 DEF Doubles, c, m
<1> QED
  BY <1>6, <1>7

SameBytes(old, new, n) == \A i \in 1 .. n : new.cells[i] = old.cells[i]

\* A larger block holds the live bytes of the smaller one.
LEMMA GrownIs ==
    ASSUME NEW builder, Sound(builder), NEW n \in Nat, n >= builder.size, n <= builder.max,
           NEW new, new = [builder EXCEPT !.cells = Grown(builder, n)],
           builder.status = "ok"
    PROVE  /\ Sound(new) /\ Len(new.cells) = n
           /\ new.size = builder.size /\ new.max = builder.max /\ new.status = "ok"
           /\ SameBytes(builder, new, builder.size)
<1> DEFINE cells == Grown(builder, n)
<1>1. /\ builder.cells \in Seq(Cells) /\ builder.size \in Nat /\ builder.size <= Len(builder.cells)
      /\ builder \in BuilderType
  BY SoundParts DEF Sound, Capacity
<1>2. \A i \in 1 .. builder.size : i \in 1 .. Len(builder.cells) /\ builder.cells[i] \in Cells
  BY <1>1
<1>3. cells \in [1 .. n -> Cells]
  <2>1. Unwritten \in Cells
    BY DEF Cells
  <2>2. \A i \in 1 .. n : i <= builder.size => i \in 1 .. builder.size
    BY <1>1
  <2> QED
    BY <1>2, <2>1, <2>2 DEF Grown
<1>4. cells \in Seq(Cells) /\ Len(cells) = n
  BY <1>3
<1>5. \A i \in 1 .. builder.size : cells[i] = builder.cells[i]
  <2>1. \A i \in 1 .. builder.size : i \in 1 .. n /\ i <= builder.size
    BY <1>1
  <2> QED
    BY <2>1 DEF Grown
<1> HIDE DEF cells
<1>6. /\ new.cells = cells /\ new.size = builder.size /\ new.max = builder.max
      /\ new.status = builder.status /\ new \in BuilderType
  BY <1>1, <1>4 DEF BuilderType, cells
<1> QED
  BY <1>1, <1>4, <1>5, <1>6 DEF Sound, SameBytes, Capacity

\* A failure is all that a refused append leaves.
LEMMA FailedIs ==
    ASSUME NEW builder, Sound(builder), builder.status = "ok",
           NEW why \in {"capacity_exceeded", "allocation_failed"},
           NEW new, new = [builder EXCEPT !.status = why]
    PROVE  /\ Sound(new) /\ new.status = why /\ new.cells = builder.cells
           /\ new.size = builder.size /\ new.max = builder.max
<1>1. builder \in BuilderType
  BY DEF Sound
<1>2. /\ new \in BuilderType /\ new.status = why /\ new.cells = builder.cells
      /\ new.size = builder.size /\ new.max = builder.max
  BY <1>1 DEF BuilderType
<1> QED
  BY <1>2 DEF Sound, Capacity

\* Bytes that have room behind the live ones are live then.
LEMMA WrittenIs ==
    ASSUME NEW builder, Sound(builder), builder.status = "ok", NEW bytes \in Seq(Bytes),
           builder.size + Len(bytes) <= Len(builder.cells),
           NEW new, new = Written(builder, bytes)
    PROVE  /\ Sound(new) /\ Len(new.cells) = Len(builder.cells)
           /\ new.size = builder.size + Len(bytes) /\ new.max = builder.max
           /\ new.status = "ok" /\ SameBytes(builder, new, builder.size)
           /\ \A i \in 1 .. Len(bytes) : new.cells[builder.size + i] = bytes[i]
<1> DEFINE c == Len(builder.cells)
           n == builder.size
           k == Len(bytes)
           cells == [i \in 1 .. c |-> IF i \in n + 1 .. n + k THEN bytes[i - n]
                                      ELSE builder.cells[i]]
<1>1. /\ builder.cells \in Seq(Cells) /\ n \in Nat /\ c \in Nat /\ k \in Nat
      /\ builder \in BuilderType
  BY SoundParts DEF Sound, Capacity
<1>2. /\ \A i \in 1 .. c : builder.cells[i] \in Cells
      /\ \A i \in n + 1 .. n + k : i - n \in 1 .. k
      /\ \A i \in 1 .. k : bytes[i] \in Bytes
  BY <1>1
<1>3. cells \in [1 .. c -> Cells]
  BY <1>2 DEF Cells
<1>4. cells \in Seq(Cells) /\ Len(cells) = c
  BY <1>1, <1>3
<1>5. \A i \in 1 .. n : cells[i] = builder.cells[i]
  BY <1>1
<1>6. \A i \in 1 .. k : cells[n + i] = bytes[i]
  BY <1>1
<1>7. \A i \in 1 .. n + k : cells[i] \in Bytes
  <2> SUFFICES ASSUME NEW i \in 1 .. n + k PROVE cells[i] \in Bytes
    OBVIOUS
  <2>1. CASE i <= n
    <3>1. i \in 1 .. n
      BY <1>1, <2>1
    <3> QED
      BY <1>5, <3>1 DEF Sound
  <2>2. CASE ~ (i <= n)
    <3>1. i - n \in 1 .. k /\ n + (i - n) = i
      BY <1>1, <2>2
    <3> QED
      BY <1>2, <1>6, <3>1
  <2> QED
    BY <2>1, <2>2
<1>8. new = [builder EXCEPT !.cells = cells, !.size = n + k]
  <2>1. builder.cells = [builder EXCEPT !.size = n + k].cells
    BY <1>1 DEF BuilderType
  <2> QED
    BY <1>1 DEF Written, BuilderType
<1> HIDE DEF cells
<1>9. /\ new.cells = cells /\ new.size = n + k /\ new.max = builder.max
      /\ new.status = builder.status /\ new \in BuilderType
  <2> DEFINE total == n + k
  <2>1. total \in Nat /\ builder \in BuilderType /\ cells \in Seq(Cells)
    BY <1>1, <1>4
  <2>2. new = [builder EXCEPT !.cells = cells, !.size = total]
    BY <1>8
  <2> HIDE DEF total
  <2>3. /\ new.cells = cells /\ new.size = total /\ new.max = builder.max
        /\ new.status = builder.status /\ new \in BuilderType
    BY <2>1, <2>2 DEF BuilderType
  <2> QED
    BY <2>3 DEF total
<1>10. Sound(new)
  BY <1>1, <1>4, <1>7, <1>9 DEF Sound, Capacity
<1> QED
  BY <1>4, <1>5, <1>6, <1>9, <1>10 DEF SameBytes

\* An append that succeeds.
Extends(builder, bytes, new) ==
    /\ builder.status = "ok" /\ new.status = "ok"
    /\ new.size = builder.size + Len(bytes) /\ new.size <= Capacity(new)
    /\ SameBytes(builder, new, builder.size)
    /\ \A i \in 1 .. Len(bytes) : new.cells[builder.size + i] = bytes[i]
    /\ IF new.size <= Capacity(builder) THEN Capacity(new) = Capacity(builder)
       ELSE /\ Capacity(new) > Capacity(builder)
            /\ Doubles(Capacity(builder), Capacity(new), builder.max)

\* An append that fails.
Fails(builder, bytes, new) ==
    /\ builder.status = "ok"
    /\ \/ /\ new = [builder EXCEPT !.status = "capacity_exceeded"]
          /\ builder.size + Len(bytes) > builder.max
       \/ /\ new = [builder EXCEPT !.status = "allocation_failed"]
          /\ Capacity(builder) < builder.size + Len(bytes)
          /\ builder.size + Len(bytes) <= builder.max

LEMMA AppendedIs ==
    ASSUME NEW builder, Sound(builder), NEW bytes \in Seq(Bytes), Len(bytes) \in Words,
           NEW new \in Appended(builder, bytes)
    PROVE  /\ Sound(new) /\ new.max = builder.max
           /\ \/ new = builder /\ builder.status # "ok"
              \/ Extends(builder, bytes, new) \/ Fails(builder, bytes, new)
<1> DEFINE c == Capacity(builder)
           needed == builder.size + Len(bytes)
<1>1. /\ builder.size \in Nat /\ c \in Nat /\ builder.max \in Nat /\ builder.max \in Words
      /\ builder.size \in Words /\ Len(bytes) \in Nat /\ needed \in Nat
      /\ builder.size <= c /\ c <= builder.max /\ c = Len(builder.cells)
  BY SoundParts, WordsAreNaturals DEF Words
<1>2. CASE builder.status # "ok"
  BY <1>2 DEF Appended
<1>3. CASE builder.status = "ok" /\ needed \notin Words
  <2>1. CheckedAdd(builder.size, Len(bytes), Usize) = {}
    BY <1>1, <1>3, WordsAreNaturals, AddIsExact
  <2>2. new = [builder EXCEPT !.status = "capacity_exceeded"]
    BY <1>3, <2>1 DEF Appended
  <2>3. needed > builder.max
    BY <1>1, <1>3, WordsAreNaturals DEF Words
  <2> QED
    BY <1>3, <2>2, <2>3, FailedIs DEF Fails
<1>4. CASE builder.status = "ok" /\ needed \in Words
  <2>1. CheckedAdd(builder.size, Len(bytes), Usize) = {needed}
    BY <1>1, <1>4, WordsAreNaturals, AddIsExact
  <2>2. UNION {Ensured(builder, size) : size \in {needed}} = Ensured(builder, needed)
    OBVIOUS
  <2>3. PICK grown \in Ensured(builder, needed) :
            new = IF grown.status = "ok" THEN Written(grown, bytes) ELSE grown
    <3>1. Appended(builder, bytes) =
             {IF grown.status = "ok" THEN Written(grown, bytes) ELSE grown :
                 grown \in Ensured(builder, needed)}
      BY <1>4, <2>1, <2>2 DEF Appended
    <3> QED
      BY <3>1
  <2>4. CASE needed <= c
    <3>1. Ensured(builder, needed) = {builder}
      BY <1>1, <2>4 DEF Ensured
    <3>2. new = Written(builder, bytes)
      BY <1>4, <2>3, <3>1
    <3>3. /\ Sound(new) /\ Len(new.cells) = Len(builder.cells)
          /\ new.size = needed /\ new.max = builder.max
          /\ new.status = "ok" /\ SameBytes(builder, new, builder.size)
          /\ \A i \in 1 .. Len(bytes) : new.cells[builder.size + i] = bytes[i]
      BY <1>1, <1>4, <2>4, <3>2, WrittenIs
    <3> QED
      BY <1>1, <1>4, <2>4, <3>3 DEF Extends, Capacity
  <2>5. CASE needed > c /\ needed > builder.max
    <3>1. Ensured(builder, needed) = {[builder EXCEPT !.status = "capacity_exceeded"]}
      BY <1>1, <2>5 DEF Ensured
    <3>2. grown = [builder EXCEPT !.status = "capacity_exceeded"]
      BY <2>3, <3>1
    <3>3. grown.status = "capacity_exceeded" /\ Sound(grown) /\ grown.max = builder.max
      BY <1>4, <3>2, FailedIs
    <3> QED
      BY <1>4, <2>3, <2>5, <3>2, <3>3 DEF Fails
  <2>6. CASE needed > c /\ needed <= builder.max
    <3> DEFINE n == Target(builder, needed)
    <3>1. Ensured(builder, needed) = {[builder EXCEPT !.cells = Grown(builder, n)],
                                      [builder EXCEPT !.status = "allocation_failed"]}
      BY <1>1, <2>6 DEF Ensured
    <3>2. n \in Nat /\ needed <= n /\ n <= builder.max /\ Doubles(c, n, builder.max)
      BY <1>1, <2>6, TargetIs
    <3> HIDE DEF n
    <3>3. CASE grown = [builder EXCEPT !.status = "allocation_failed"]
      <4>1. grown.status = "allocation_failed" /\ Sound(grown) /\ grown.max = builder.max
        BY <1>4, <3>3, FailedIs
      <4> QED
        BY <1>1, <1>4, <2>3, <2>6, <3>3, <4>1 DEF Fails
    <3>4. CASE grown = [builder EXCEPT !.cells = Grown(builder, n)]
      <4>1. /\ Sound(grown) /\ Len(grown.cells) = n
            /\ grown.size = builder.size /\ grown.max = builder.max /\ grown.status = "ok"
            /\ SameBytes(builder, grown, builder.size)
        <5>1. n >= builder.size
          BY <1>1, <2>6, <3>2
        <5> QED
          BY <1>4, <3>2, <3>4, <5>1, GrownIs
      <4>2. new = Written(grown, bytes)
        BY <2>3, <4>1
      <4>3. /\ Sound(new) /\ Len(new.cells) = n /\ new.size = needed /\ new.max = builder.max
            /\ new.status = "ok" /\ SameBytes(grown, new, builder.size)
            /\ \A i \in 1 .. Len(bytes) : new.cells[builder.size + i] = bytes[i]
        BY SMTT(20), <1>1, <3>2, <4>1, <4>2, WrittenIs
      <4>4. SameBytes(builder, new, builder.size)
        BY <4>1, <4>3 DEF SameBytes
      <4>5. Capacity(new) = n /\ n > c /\ ~ (needed <= c)
        BY <1>1, <2>6, <3>2, <4>3 DEF Capacity
      <4> QED
        BY <1>4, <3>2, <4>3, <4>4, <4>5 DEF Extends
    <3> QED
      BY <2>3, <3>1, <3>3, <3>4
  <2> QED
    BY <1>1, <2>4, <2>5, <2>6
<1> QED
  BY <1>2, <1>3, <1>4

-----------------------------------------------------------------------------
(* Where in a builder's bytes its items are.                                *)

Items == [order : Orders, value : Nat \cup Seq(Bytes), width : Nat]

\* The items lie one behind the other, each where it is read as what was put, up to the
\* builder's size.
PlacedAt(builder, items, at) ==
    /\ at \in [0 .. Len(items) -> Nat]
    /\ at[0] = 0 /\ at[Len(items)] = builder.size
    /\ \A k \in 1 .. Len(items) :
          /\ at[k] = at[k - 1] + items[k].width /\ at[k] <= builder.size
          /\ Decoded(items[k].order, SubSeq(builder.cells, at[k - 1] + 1, at[k]))
                = items[k].value
Placed(builder, items) == \E at : PlacedAt(builder, items, at)

BuilderInv ==
    /\ builders \in [Builders -> BuilderType] /\ puts \in [Builders -> Seq(Items)]
    /\ \A b \in Builders : Sound(builders[b]) /\ Placed(builders[b], puts[b])

LEMMA NothingPlaced ==
    ASSUME NEW builder, builder.size = 0
    PROVE  Placed(builder, <<>>)
<1> DEFINE at == [k \in 0 .. 0 |-> 0]
<1>1. PlacedAt(builder, <<>>, at)
  BY DEF PlacedAt
<1> QED
  BY <1>1 DEF Placed

LEMMA PlacedKept ==
    ASSUME NEW old, NEW new, Sound(old), Sound(new), new.size = old.size,
           SameBytes(old, new, old.size), NEW items \in Seq(Items), Placed(old, items)
    PROVE  Placed(new, items)
<1>1. PICK at : PlacedAt(old, items, at)
  BY DEF Placed
<1>2. /\ old.cells \in Seq(Cells) /\ new.cells \in Seq(Cells) /\ old.size \in Nat
      /\ old.size <= Len(old.cells) /\ old.size <= Len(new.cells)
  BY SoundParts
<1>3. ASSUME NEW k \in 1 .. Len(items)
      PROVE  SubSeq(new.cells, at[k - 1] + 1, at[k]) = SubSeq(old.cells, at[k - 1] + 1, at[k])
  <2>1. at[k - 1] \in Nat /\ at[k] \in Nat /\ at[k] <= old.size
        /\ at[k] = at[k - 1] + items[k].width /\ items[k].width \in Nat
    <3>1. k - 1 \in 0 .. Len(items) /\ k \in 0 .. Len(items) /\ items[k] \in Items
      OBVIOUS
    <3> QED
      BY <1>1, <3>1 DEF PlacedAt, Items
  <2> DEFINE a == at[k - 1]
             z == at[k]
             x == old.cells
             y == new.cells
             n == old.size
  <2>2. a \in Nat /\ z \in Nat /\ a <= z /\ z <= n
    BY <2>1
  <2>3. x \in Seq(Cells) /\ y \in Seq(Cells) /\ n \in Nat /\ n <= Len(x) /\ n <= Len(y)
        /\ \A i \in 1 .. n : y[i] = x[i]
    BY <1>2 DEF SameBytes
  <2> HIDE DEF a, z, x, y, n
  <2>4. SubSeq(y, a + 1, z) = SubSeq(x, a + 1, z)
    BY <2>2, <2>3, SamePart
  <2> QED
    BY <2>4 DEF a, z, x, y
<1>4. PlacedAt(new, items, at)
  BY <1>1, <1>3 DEF PlacedAt
<1> QED
  BY <1>4 DEF Placed

LEMMA PlacedExtended ==
    ASSUME NEW builder, NEW new, NEW bytes \in Seq(Bytes), NEW items \in Seq(Items),
           NEW item \in Items, Sound(builder), Sound(new), Extends(builder, bytes, new),
           item.width = Len(bytes), Decoded(item.order, bytes) = item.value,
           Placed(builder, items)
    PROVE  Placed(new, Append(items, item))
<1> DEFINE n == Len(items)
           all == Append(items, item)
           size == builder.size
<1>1. PICK at : PlacedAt(builder, items, at)
  BY DEF Placed
<1> DEFINE to == [k \in 0 .. n + 1 |-> IF k = n + 1 THEN size + Len(bytes) ELSE at[k]]
<1>2. /\ builder.cells \in Seq(Cells) /\ new.cells \in Seq(Cells) /\ size \in Nat
      /\ size <= Len(builder.cells) /\ new.size <= Len(new.cells)
      /\ new.size = size + Len(bytes) /\ Len(bytes) \in Nat /\ n \in Nat
      /\ size <= Len(new.cells) /\ size <= new.size
  <2>1. /\ builder.cells \in Seq(Cells) /\ new.cells \in Seq(Cells) /\ size \in Nat
        /\ size <= Len(builder.cells) /\ new.size <= Len(new.cells)
    BY SoundParts
  <2>2. new.size = size + Len(bytes) /\ Len(bytes) \in Nat /\ n \in Nat
    BY DEF Extends
  <2> QED
    BY <2>1, <2>2
<1>3. Len(all) = n + 1 /\ all[n + 1] = item /\ \A k \in 1 .. n : all[k] = items[k]
  BY <1>2
<1>4. at \in [0 .. n -> Nat] /\ at[0] = 0 /\ at[n] = size
  BY <1>1 DEF PlacedAt
<1>5. to \in [0 .. n + 1 -> Nat] /\ to[0] = 0 /\ to[n] = size /\ to[n + 1] = new.size
      /\ \A k \in 0 .. n : to[k] = at[k]
  BY <1>2, <1>4
<1>6. ASSUME NEW k \in 1 .. n
      PROVE  /\ to[k] = to[k - 1] + all[k].width /\ to[k] <= new.size
             /\ Decoded(all[k].order, SubSeq(new.cells, to[k - 1] + 1, to[k])) = all[k].value
  <2>1. k - 1 \in 0 .. n /\ k \in 0 .. n /\ items[k] \in Items
    BY <1>2
  <2>2. /\ at[k] = at[k - 1] + items[k].width /\ at[k] <= size /\ items[k].width \in Nat
        /\ Decoded(items[k].order, SubSeq(builder.cells, at[k - 1] + 1, at[k])) = items[k].value
        /\ at[k] \in Nat /\ at[k - 1] \in Nat
    BY <1>1, <1>4, <2>1 DEF PlacedAt, Items
  <2>3. SubSeq(new.cells, at[k - 1] + 1, at[k]) = SubSeq(builder.cells, at[k - 1] + 1, at[k])
    <3> DEFINE a == at[k - 1]
               z == at[k]
               x == builder.cells
               y == new.cells
    <3>1. a \in Nat /\ z \in Nat /\ a <= z /\ z <= size
      BY <2>2
    <3>2. x \in Seq(Cells) /\ y \in Seq(Cells) /\ size <= Len(x) /\ size <= Len(y)
          /\ size \in Nat /\ \A i \in 1 .. size : y[i] = x[i]
      BY <1>2 DEF Extends, SameBytes
    <3> HIDE DEF a, z, x, y, size
    <3>3. SubSeq(y, a + 1, z) = SubSeq(x, a + 1, z)
      BY <3>1, <3>2, SamePart
    <3> QED
      BY <3>3 DEF a, z, x, y
  <2>4. to[k] = at[k] /\ to[k - 1] = at[k - 1] /\ all[k] = items[k]
    BY <1>3, <1>5, <2>1
  <2>5. to[k] = to[k - 1] + all[k].width /\ to[k] <= new.size
    <3> HIDE DEF to, all, size, n
    <3> QED
      BY <1>2, <2>2, <2>4
  <2>6. Decoded(all[k].order, SubSeq(new.cells, to[k - 1] + 1, to[k])) = all[k].value
    <3> HIDE DEF to, all, size, n
    <3> QED
      BY Zenon, <2>2, <2>3, <2>4
  <2> QED
    BY <2>5, <2>6
<1>7. SubSeq(new.cells, size + 1, new.size) = bytes
  <2> DEFINE s == SubSeq(new.cells, size + 1, new.size)
  <2>1. s \in Seq(Cells) /\ Len(s) = Len(bytes)
        /\ \A i \in 1 .. Len(bytes) : s[i] = new.cells[size + i]
    <3> DEFINE z == new.size
               y == new.cells
    <3>1. z \in Nat /\ size \in Nat /\ size <= z /\ z <= Len(y) /\ y \in Seq(Cells)
          /\ z - size = Len(bytes)
      BY <1>2
    <3>2. s = SubSeq(y, size + 1, z)
      OBVIOUS
    <3> HIDE DEF s, y, z, size
    <3>3. s \in Seq(Cells) /\ Len(s) = z - size /\ \A i \in 1 .. z - size : s[i] = y[size + i]
      BY <3>1, <3>2, PartIs
    <3> QED
      BY <3>1, <3>3 DEF y
  <2>2. \A i \in 1 .. Len(bytes) : new.cells[size + i] = bytes[i]
    BY DEF Extends
  <2> HIDE DEF s
  <2>3. s = bytes
    BY <2>1, <2>2, SameSequence
  <2> QED
    BY <2>3 DEF s
<1> HIDE DEF to, all
<1>8. PlacedAt(new, all, to)
  <2>1. ASSUME NEW k \in 1 .. n + 1
        PROVE  /\ to[k] = to[k - 1] + all[k].width /\ to[k] <= new.size
               /\ Decoded(all[k].order, SubSeq(new.cells, to[k - 1] + 1, to[k])) = all[k].value
    <3>1. CASE k \in 1 .. n
      BY <1>6, <3>1
    <3>2. CASE k \notin 1 .. n
      <4>1. k = n + 1 /\ k - 1 = n
        BY <1>2, <3>2
      <4>2. to[k] = new.size /\ to[k - 1] = size /\ all[k] = item
        BY <1>3, <1>5, <4>1
      <4>3. to[k] = to[k - 1] + all[k].width /\ to[k] <= new.size
        BY <1>2, <4>2
      <4> HIDE DEF size, n
      <4> QED
        BY Zenon, <1>7, <4>2, <4>3
    <3> QED
      BY <3>1, <3>2
  <2> QED
    BY <1>3, <1>5, <2>1 DEF PlacedAt
<1> QED
  BY <1>8 DEF Placed, all

-----------------------------------------------------------------------------
(* The steps.                                                               *)

\* An append is of bytes that are read back as what was put.
Puts(b) ==
    \E item \in Items, bytes \in Seq(Bytes) :
        /\ bytes \in AllSpans /\ Len(bytes) \in Words /\ item.width = Len(bytes)
        /\ Decoded(item.order, bytes) = item.value
        /\ Put(b, item, bytes)

LEMMA SpanIsPut ==
    ASSUME NEW b \in Builders, NEW span \in Spans, AppendSpan(b, span)
    PROVE  Puts(b)
<1> DEFINE item == [order |-> "raw", value |-> span, width |-> Len(span)]
<1>1. span \in Seq(Bytes) /\ Len(span) \in Words /\ Len(span) \in Nat /\ span \in AllSpans
  BY WidthAssumption DEF AllSpans
<1>2. item \in Items
  BY <1>1 DEF Items, Orders
<1>3. item.width = Len(span) /\ Decoded(item.order, span) = item.value
  BY DEF Decoded
<1>4. Put(b, item, span)
  BY DEF AppendSpan
<1> HIDE DEF item
<1> QED
  BY <1>1, <1>2, <1>3, <1>4 DEF Puts

LEMMA ScalarIsPut ==
    ASSUME NEW b \in Builders, NEW order \in {"le", "be"}, NEW value \in ScalarValues,
           NEW width \in ScalarWidths, AppendScalar(b, order, value, width)
    PROVE  Puts(b)
<1> DEFINE item == [order |-> order, value |-> value, width |-> width]
           bytes == Encoded(order, value, width)
<1>1. LongWidth \in Nat /\ LongWidth \in Words /\ width \in 1 .. LongWidth
  BY WidthAssumption
<1>2. value \in Nat
  <2>1. value \in 0 .. Weight[LongWidth] - 1
    BY WidthAssumption
  <2> QED
    BY <2>1
<1>3. width \in Words /\ width \in Nat
  BY <1>1, WordsAreNaturals DEF Words
<1>4. bytes \in Seq(Bytes) /\ Len(bytes) = width
  BY <1>1, <1>2, EncodedBytes
<1>5. bytes \in AllSpans
  BY DEF AllSpans
<1>6. item \in Items
  BY <1>2, <1>3 DEF Items, Orders
<1>7. value < Weight[width] /\ Put(b, item, bytes)
  BY DEF AppendScalar
<1>8. Decoded(order, bytes) = value
  BY <1>1, <1>2, <1>7, CodecsInvert
<1> HIDE DEF bytes
<1>9. item.width = Len(bytes) /\ Decoded(item.order, bytes) = item.value
  BY <1>4, <1>8
<1> HIDE DEF item
<1> QED
  BY <1>3, <1>4, <1>5, <1>6, <1>7, <1>9 DEF Puts

LEMMA NextIs ==
    ASSUME Next
    PROVE  \E b \in Builders :
              \/ \E max \in Bounds : TryCreate(b, max)
              \/ Puts(b) \/ Reset(b) \/ Destroy(b)
              \/ \E other \in Builders : Move(b, other)
  BY SpanIsPut, ScalarIsPut DEF Next

LEMMA OneChanges ==
    ASSUME BuilderInv, NEW b \in Builders, NEW new, NEW items \in Seq(Items),
           Sound(new), Placed(new, items),
           builders' = [builders EXCEPT ![b] = new], puts' = [puts EXCEPT ![b] = items]
    PROVE  BuilderInv'
<1>1. new \in BuilderType
  BY DEF Sound
<1>2. builders' \in [Builders -> BuilderType] /\ puts' \in [Builders -> Seq(Items)]
  BY <1>1 DEF BuilderInv
<1>3. ASSUME NEW c \in Builders PROVE Sound(builders'[c]) /\ Placed(builders'[c], puts'[c])
  <2>1. CASE c = b
    <3>1. builders'[c] = new /\ puts'[c] = items
      BY <2>1 DEF BuilderInv
    <3> QED
      BY <3>1
  <2>2. CASE c # b
    <3>1. builders'[c] = builders[c] /\ puts'[c] = puts[c]
      BY <2>2 DEF BuilderInv
    <3> QED
      BY <3>1 DEF BuilderInv
  <2> QED
    BY <2>1, <2>2
<1> QED
  BY <1>2, <1>3 DEF BuilderInv, Sound, Placed, PlacedAt, Capacity

LEMMA PutKeeps ==
    ASSUME BuilderInv, NEW b \in Builders, Puts(b)
    PROVE  BuilderInv'
<1>1. PICK item \in Items, bytes \in Seq(Bytes) :
          /\ Len(bytes) \in Words /\ item.width = Len(bytes)
          /\ Decoded(item.order, bytes) = item.value
          /\ Put(b, item, bytes)
  BY DEF Puts
<1> DEFINE builder == builders[b]
           items == puts[b]
<1>2. Sound(builder) /\ Placed(builder, items) /\ items \in Seq(Items)
  BY DEF BuilderInv
<1>3. PICK new \in Appended(builder, bytes) :
          /\ builders' = [builders EXCEPT ![b] = new]
          /\ puts' = IF new.status = "ok" THEN [puts EXCEPT ![b] = Append(@, item)] ELSE puts
  BY <1>1 DEF Put
<1> HIDE DEF builder
<1>4. Sound(new) /\ \/ new = builder /\ builder.status # "ok"
                    \/ Extends(builder, bytes, new) \/ Fails(builder, bytes, new)
  BY <1>1, <1>2, <1>3, AppendedIs
<1>5. CASE Extends(builder, bytes, new)
  <2>1. puts' = [puts EXCEPT ![b] = Append(items, item)]
    BY <1>3, <1>5 DEF Extends
  <2>2. Append(items, item) \in Seq(Items)
    BY <1>2
  <2>3. Placed(new, Append(items, item))
    BY <1>1, <1>2, <1>4, <1>5, PlacedExtended
  <2> QED
    BY <1>3, <1>4, <2>1, <2>2, <2>3, OneChanges
<1>6. ASSUME new.status # "ok", new.size = builder.size, SameBytes(builder, new, builder.size)
      PROVE  BuilderInv'
  <2>1. puts' = [puts EXCEPT ![b] = items]
    BY <1>3, <1>6 DEF BuilderInv
  <2>2. Placed(new, items)
    BY <1>2, <1>4, <1>6, PlacedKept
  <2> QED
    BY <1>2, <1>3, <1>4, <2>1, <2>2, OneChanges
<1>7. CASE new = builder /\ builder.status # "ok"
  BY <1>6, <1>7 DEF SameBytes
<1>8. CASE Fails(builder, bytes, new)
  <2>1. new.status # "ok" /\ new.size = builder.size /\ new.cells = builder.cells
    BY <1>2, <1>8, FailedIs DEF Fails
  <2> QED
    BY <1>6, <2>1 DEF SameBytes
<1> QED
  BY <1>4, <1>5, <1>7, <1>8

LEMMA ClearedIs ==
    ASSUME NEW builder, Sound(builder), builder.status # "unborn",
           NEW new, new = Cleared(builder)
    PROVE  /\ Sound(new) /\ new.size = 0 /\ new.max = builder.max /\ new.status = "ok"
           /\ Len(new.cells) = Len(builder.cells)
<1> DEFINE cells == [i \in DOMAIN builder.cells |-> Unwritten]
           n == Len(builder.cells)
<1>1. builder.cells \in Seq(Cells) /\ n \in Nat /\ builder \in BuilderType
  BY DEF Sound, BuilderType
<1>2. cells \in [1 .. n -> Cells]
  <2>1. DOMAIN builder.cells = 1 .. n /\ Unwritten \in Cells
    BY <1>1 DEF Cells
  <2> QED
    BY <2>1
<1>3. new = [builder EXCEPT !.cells = cells, !.size = 0, !.status = "ok"]
  BY DEF Cleared
<1> HIDE DEF cells, n
<1>4. cells \in Seq(Cells) /\ Len(cells) = n
  BY <1>1, <1>2
<1>5. /\ new.cells = cells /\ new.size = 0 /\ new.max = builder.max /\ new.status = "ok"
      /\ new \in BuilderType
  <2>1. new = [cells |-> cells, size |-> 0, max |-> builder.max, status |-> "ok"]
    BY <1>1, <1>3 DEF BuilderType
  <2>2. builder.max \in Words
    BY <1>1 DEF BuilderType
  <2> QED
    BY <1>4, <2>1, <2>2 DEF BuilderType
<1>6. builder.max \in Nat /\ n <= builder.max
  BY SoundParts DEF Capacity, n
<1> QED
  BY <1>1, <1>4, <1>5, <1>6 DEF Sound, Capacity, n

LEMMA MoveKeeps ==
    ASSUME BuilderInv, NEW b \in Builders, NEW other \in Builders, Move(b, other)
    PROVE  BuilderInv'
<1>1. /\ b # other
      /\ builders' = [builders EXCEPT ![b] = builders[other], ![other] = Left]
      /\ puts' = [puts EXCEPT ![b] = puts[other], ![other] = <<>>]
  BY DEF Move
<1>2. Left \in BuilderType /\ Sound(Left) /\ <<>> \in Seq(Items)
  BY EmptyIsSound DEF Sound
<1>3. Placed(Left, <<>>)
  BY NothingPlaced DEF Left, Builder
<1>4. builders' \in [Builders -> BuilderType] /\ puts' \in [Builders -> Seq(Items)]
  BY <1>1, <1>2 DEF BuilderInv
<1>5. ASSUME NEW c \in Builders PROVE Sound(builders'[c]) /\ Placed(builders'[c], puts'[c])
  <2>1. \/ builders'[c] = Left /\ puts'[c] = <<>>
        \/ \E d \in Builders : builders'[c] = builders[d] /\ puts'[c] = puts[d]
    <3>1. CASE c = other
      BY <1>1, <3>1 DEF BuilderInv
    <3>2. CASE c = b
      BY <1>1, <3>2 DEF BuilderInv
    <3>3. CASE c # other /\ c # b
      BY <1>1, <3>3 DEF BuilderInv
    <3> QED
      BY <3>1, <3>2, <3>3
  <2> QED
    BY <1>2, <1>3, <2>1 DEF BuilderInv
<1> QED
  BY <1>4, <1>5 DEF BuilderInv, Sound, Placed, PlacedAt, Capacity

LEMMA BuilderStep ==
    ASSUME BuilderInv, [Next]_vars
    PROVE  BuilderInv'
<1>1. CASE Next
  <2>1. PICK b \in Builders : \/ \E max \in Bounds : TryCreate(b, max)
                             \/ Puts(b) \/ Reset(b) \/ Destroy(b)
                             \/ \E other \in Builders : Move(b, other)
    BY <1>1, NextIs
  <2>2. /\ <<>> \in Seq(Items) /\ Sound(builders[b]) /\ Placed(builders[b], puts[b])
        /\ builders \in [Builders -> BuilderType] /\ puts \in [Builders -> Seq(Items)]
    BY DEF BuilderInv
  <2>3. ASSUME NEW max \in Bounds, TryCreate(b, max) PROVE BuilderInv'
    <3>1. max \in Words /\ builders' = [builders EXCEPT ![b] = Builder(max)]
      BY <2>3, WidthAssumption DEF TryCreate
    <3>2. builders[b] = Unborn /\ Sound(Builder(max)) /\ Builder(max).size = 0
      BY <2>2, <2>3, <3>1, EmptyIsSound DEF TryCreate, Born, Sound, Builder
    <3>3. Placed(Builder(max), puts[b])
      <4>1. PlacedAt(Unborn, puts[b], (CHOOSE at : PlacedAt(Unborn, puts[b], at)))
        BY <2>2, <3>2 DEF Placed
      <4>2. SameBytes(Unborn, Builder(max), Unborn.size) /\ Unborn.size = Builder(max).size
        BY DEF SameBytes, Unborn, Builder
      <4> QED
        BY <2>2, <3>2, <4>2, EmptyIsSound, PlacedKept
    <3>4. puts' = [puts EXCEPT ![b] = puts[b]] /\ puts[b] \in Seq(Items)
      BY <2>2, <2>3 DEF TryCreate
    <3> QED
      BY <3>1, <3>2, <3>3, <3>4, OneChanges
  <2>4. CASE Reset(b)
    <3> DEFINE new == Cleared(builders[b])
    <3>1. Sound(new) /\ new.size = 0
      BY <2>2, <2>4, ClearedIs DEF Reset, Born
    <3>2. builders' = [builders EXCEPT ![b] = new] /\ puts' = [puts EXCEPT ![b] = <<>>]
      BY <2>2, <2>4 DEF Reset
    <3> HIDE DEF new
    <3> QED
      BY <2>2, <3>1, <3>2, NothingPlaced, OneChanges
  <2>5. CASE Destroy(b)
    <3>1. builders' = [builders EXCEPT ![b] = Unborn] /\ puts' = [puts EXCEPT ![b] = <<>>]
      BY <2>5 DEF Destroy
    <3>2. Sound(Unborn) /\ Unborn.size = 0
      BY EmptyIsSound DEF Unborn
    <3> QED
      BY <2>2, <3>1, <3>2, NothingPlaced, OneChanges
  <2> QED
    BY <2>1, <2>3, <2>4, <2>5, PutKeeps, MoveKeeps
<1>2. CASE UNCHANGED vars
  BY SMTT(20), <1>2 DEF vars, BuilderInv, Sound, Placed, PlacedAt, Capacity
<1> QED
  BY <1>1, <1>2

LEMMA BuilderInit == Init => BuilderInv
<1> SUFFICES ASSUME Init PROVE BuilderInv
  OBVIOUS
<1>1. Sound(Unborn) /\ Unborn \in BuilderType /\ Unborn.size = 0 /\ <<>> \in Seq(Items)
  BY EmptyIsSound DEF Sound, Unborn
<1>2. Placed(Unborn, <<>>)
  BY <1>1, NothingPlaced
<1> QED
  BY <1>1, <1>2 DEF Init, BuilderInv

LEMMA BuildersHold == Spec => []BuilderInv
  BY BuilderInit, BuilderStep, PTL DEF Spec

\* Every variable of the builders stays in its range: no size or capacity outgrows its
\* word, whatever overflows, is refused or moved.
THEOREM BuildersTyped == Spec => []TypeOK
<1>1. BuilderInv => TypeOK
  <2> SUFFICES ASSUME BuilderInv PROVE TypeOK
    OBVIOUS
  <2>1. DOMAIN builders = Builders /\ DOMAIN puts = Builders
    BY DEF BuilderInv
  <2>2. ASSUME NEW b \in Builders
        PROVE  /\ builders[b].cells \in Seq(Bytes \cup {Unwritten})
               /\ builders[b].size \in Words /\ builders[b].max \in Words
               /\ Capacity(builders[b]) \in Words
               /\ builders[b].status \in
                     {"unborn", "ok", "capacity_exceeded", "allocation_failed"}
    <3>1. Sound(builders[b]) /\ builders[b] \in BuilderType
      BY DEF BuilderInv
    <3>2. builders[b].size \in Words
      BY <3>1, SoundParts, WordsAreNaturals DEF Words
    <3> QED
      BY <3>1, <3>2, SoundParts DEF BuilderType, Cells
  <2> QED
    BY <2>1, <2>2 DEF TypeOK
<1> QED
  BY <1>1, BuildersHold, PTL

-----------------------------------------------------------------------------
(* Growth.                                                                  *)

\* What a step makes of a capacity.
GrownWell(old, new, max) == new = old \/ (new > old /\ Doubles(old, new, max))

Growth ==
    \A b \in Builders :
        LET old == Capacity(builders[b])
            new == Capacity(builders'[b])
        IN  (/\ builders'[b].max = builders[b].max /\ builders'[b].status # "unborn"
             /\ \A other \in Builders \ {b} : builders'[other] = builders[other])
            => \/ new = old
               \/ new > old /\ (new >= 2 * old \/ new = builders[b].max \/ 2 * old \notin Words)

\* A builder that was left has no room.
LEMMA NoRoom ==
    ASSUME NEW builder, Sound(builder), builder.max = 0
    PROVE  Capacity(builder) = Capacity(Left)
<1>1. Capacity(builder) \in Nat /\ Capacity(builder) <= 0
  BY SoundParts
<1>2. Capacity(Left) = 0
  BY DEF Left, Builder, Capacity
<1> QED
  BY <1>1, <1>2

LEMMA PutGrows ==
    ASSUME BuilderInv, NEW b \in Builders, Puts(b)
    PROVE  /\ \A c \in Builders \ {b} : builders'[c] = builders[c]
           /\ GrownWell(Capacity(builders[b]), Capacity(builders'[b]), builders[b].max)
<1>1. PICK item \in Items, bytes \in Seq(Bytes) :
          Len(bytes) \in Words /\ Put(b, item, bytes)
  BY DEF Puts
<1>2. PICK new \in Appended(builders[b], bytes) : builders' = [builders EXCEPT ![b] = new]
  BY <1>1 DEF Put
<1>3. Sound(builders[b]) /\ builders \in [Builders -> BuilderType]
  BY DEF BuilderInv
<1>4. builders'[b] = new /\ \A c \in Builders \ {b} : builders'[c] = builders[c]
  BY <1>2, <1>3
<1> DEFINE builder == builders[b]
<1>5. builder = builders[b] /\ Sound(builder) /\ new \in Appended(builder, bytes)
  BY <1>2, <1>3
<1> HIDE DEF builder
<1>6. \/ new = builder /\ builder.status # "ok"
      \/ Extends(builder, bytes, new) \/ Fails(builder, bytes, new)
  BY <1>1, <1>5, AppendedIs
<1>7. GrownWell(Capacity(builder), Capacity(new), builder.max)
  <2>1. CASE new = builder
    BY <2>1 DEF GrownWell
  <2>2. CASE Extends(builder, bytes, new)
    BY <2>2 DEF GrownWell, Extends
  <2>3. CASE Fails(builder, bytes, new)
    <3>1. new.cells = builder.cells
      BY <1>5, <2>3, FailedIs DEF Fails
    <3> QED
      BY <3>1 DEF GrownWell, Capacity
  <2> QED
    BY <1>6, <2>1, <2>2, <2>3
<1> QED
  BY <1>4, <1>5, <1>7

LEMMA GrowthStep ==
    ASSUME BuilderInv, Next
    PROVE  Growth
<1> SUFFICES ASSUME NEW b \in Builders,
                    builders'[b].max = builders[b].max, builders'[b].status # "unborn",
                    \A other \in Builders \ {b} : builders'[other] = builders[other]
             PROVE  GrownWell(Capacity(builders[b]), Capacity(builders'[b]), builders[b].max)
  BY DEF Growth, GrownWell, Doubles
<1>1. PICK a \in Builders : \/ \E max \in Bounds : TryCreate(a, max)
                           \/ Puts(a) \/ Reset(a) \/ Destroy(a)
                           \/ \E other \in Builders : Move(a, other)
  BY NextIs
<1>2. /\ builders \in [Builders -> BuilderType]
      /\ \A c \in Builders : Sound(builders[c])
  BY DEF BuilderInv
<1>3. ASSUME builders'[b] = builders[b]
      PROVE  GrownWell(Capacity(builders[b]), Capacity(builders'[b]), builders[b].max)
  BY <1>3 DEF GrownWell
<1>4. ASSUME NEW new, builders' = [builders EXCEPT ![a] = new],
             Capacity(new) = Capacity(builders[a])
      PROVE  GrownWell(Capacity(builders[b]), Capacity(builders'[b]), builders[b].max)
  <2>1. CASE a = b
    BY <1>2, <1>4, <2>1 DEF GrownWell
  <2>2. CASE a # b
    BY <1>2, <1>3, <1>4, <2>2
  <2> QED
    BY <2>1, <2>2
<1>5. CASE \E max \in Bounds : TryCreate(a, max)
  <2>1. PICK max \in Bounds : TryCreate(a, max)
    BY <1>5
  <2>2. builders' = [builders EXCEPT ![a] = Builder(max)] /\ builders[a] = Unborn
    BY <1>2, <2>1 DEF TryCreate, Born, Sound
  <2>3. Capacity(Builder(max)) = Capacity(Unborn)
    BY DEF Capacity, Builder, Unborn
  <2> QED
    BY <1>4, <2>2, <2>3
<1>6. CASE Puts(a)
  BY <1>3, <1>6, PutGrows
<1>7. CASE Reset(a)
  <2> DEFINE new == Cleared(builders[a])
  <2>1. builders' = [builders EXCEPT ![a] = new] /\ builders[a].status # "unborn"
    BY <1>2, <1>7 DEF Reset, Born
  <2>2. Capacity(new) = Capacity(builders[a])
    BY <1>2, <2>1, ClearedIs DEF Capacity
  <2> HIDE DEF new
  <2> QED
    BY <1>4, <2>1, <2>2
<1>8. CASE Destroy(a)
  <2>1. a # b
    BY <1>2, <1>8 DEF Destroy, Unborn
  <2> QED
    BY <1>2, <1>3, <1>8, <2>1 DEF Destroy
<1>9. CASE \E other \in Builders : Move(a, other)
  <2>1. PICK other \in Builders : Move(a, other)
    BY <1>9
  <2>2. a # other /\ builders' = [builders EXCEPT ![a] = builders[other], ![other] = Left]
    BY <2>1 DEF Move
  <2>3. Left.max = 0
    BY DEF Left, Builder
  <2>4. CASE b # a /\ b # other
    BY <1>2, <1>3, <2>2, <2>4
  <2>5. ASSUME b = a \/ b = other PROVE builders'[b] = Left
    <3>1. CASE b = a
      BY <1>2, <2>2, <3>1
    <3>2. CASE b = other
      BY <1>2, <2>2, <3>2
    <3> QED
      BY <2>5, <3>1, <3>2
  <2>6. CASE b = a \/ b = other
    <3>1. builders'[b] = Left /\ builders[b].max = 0
      BY <2>3, <2>5, <2>6
    <3> QED
      BY <1>2, <3>1, NoRoom DEF GrownWell
  <2> QED
    BY <2>4, <2>6
<1> QED
  BY <1>1, <1>5, <1>6, <1>7, <1>8, <1>9

\* When a builder's block grows it at least doubles, unless its bound or the range of
\* usize is in the way, and but by a move or its end it never shrinks.
THEOREM GrowthDoubles == Spec => GrowsGeometrically
<1>1. BuilderInv /\ [Next]_vars => [Growth]_vars
  BY GrowthStep
<1> QED
  BY <1>1, BuildersHold, PTL DEF Spec, GrowsGeometrically, Growth

-----------------------------------------------------------------------------
(* The accumulator that a builder is.                                       *)

Image == [b \in Builders |-> Accumulated(builders[b])]

LEMMA LiveIs ==
    ASSUME NEW builder, Sound(builder)
    PROVE  /\ Live(builder) \in Seq(Cells) /\ Len(Live(builder)) = builder.size
           /\ \A i \in 1 .. builder.size : Live(builder)[i] = builder.cells[i]
<1> DEFINE s == builder.cells
           z == builder.size
           t == Live(builder)
<1>1. s \in Seq(Cells) /\ z \in Nat /\ z <= Len(s) /\ 0 \in Nat /\ 0 <= z
  BY SoundParts
<1>2. t = SubSeq(s, 0 + 1, z)
  BY DEF Live
<1> HIDE DEF s, z, t
<1>3. t \in Seq(Cells) /\ Len(t) = z - 0 /\ \A i \in 1 .. z - 0 : t[i] = s[0 + i]
  BY <1>1, <1>2, PartIs
<1>4. t \in Seq(Cells) /\ Len(t) = z /\ \A i \in 1 .. z : t[i] = s[i]
  BY <1>1, <1>3
<1> QED
  BY <1>4 DEF s, z, t

\* One element of a function changes, or one field of an element.
View(p, q, r, w) == [bytes |-> p, bound |-> q, reserve |-> r, status |-> w]
On(f, B) == f = [x \in B |-> f[x]]
With(f, b, v) == [f EXCEPT ![b] = v]
WithStatus(f, b, v) == [f EXCEPT ![b].status = v]
WithReserve(f, b, v) == [f EXCEPT ![b].reserve = v]
WithBytes(f, b, v) == [f EXCEPT ![b].bytes = v]

LEMMA StatusChanges ==
    ASSUME NEW B, NEW f, On(f, B), NEW b \in B,
           NEW p, NEW q, NEW r, NEW w, NEW v, f[b] = View(p, q, r, w)
    PROVE  WithStatus(f, b, v) = With(f, b, View(p, q, r, v))
<1> DEFINE old == View(p, q, r, w)
<1>1. [old EXCEPT !.status = v] = View(p, q, r, v)
  BY DEF View
<1>2. f[b] = old
  OBVIOUS
<1> HIDE DEF old
<1>3. [f EXCEPT ![b].status = v] = [f EXCEPT ![b] = [old EXCEPT !.status = v]]
  BY <1>2 DEF On
<1> QED
  BY <1>1, <1>3 DEF WithStatus, With

LEMMA ReserveChanges ==
    ASSUME NEW B, NEW f, On(f, B), NEW b \in B,
           NEW p, NEW q, NEW r, NEW w, NEW v, f[b] = View(p, q, r, w)
    PROVE  WithReserve(f, b, v) = With(f, b, View(p, q, v, w))
<1> DEFINE old == View(p, q, r, w)
<1>1. [old EXCEPT !.reserve = v] = View(p, q, v, w)
  BY DEF View
<1>2. f[b] = old
  OBVIOUS
<1> HIDE DEF old
<1>3. [f EXCEPT ![b].reserve = v] = [f EXCEPT ![b] = [old EXCEPT !.reserve = v]]
  BY <1>2 DEF On
<1> QED
  BY <1>1, <1>3 DEF WithReserve, With

LEMMA BytesChange ==
    ASSUME NEW B, NEW f, On(f, B), NEW b \in B,
           NEW p, NEW q, NEW r, NEW w, NEW v, f[b] = View(p, q, r, w)
    PROVE  WithBytes(f, b, v) = With(f, b, View(v, q, r, w))
<1> DEFINE old == View(p, q, r, w)
<1>1. [old EXCEPT !.bytes = v] = View(v, q, r, w)
  BY DEF View
<1>2. f[b] = old
  OBVIOUS
<1> HIDE DEF old
<1>3. [f EXCEPT ![b].bytes = v] = [f EXCEPT ![b] = [old EXCEPT !.bytes = v]]
  BY <1>2 DEF On
<1> QED
  BY <1>1, <1>3 DEF WithBytes, With

LEMMA WithIs ==
    ASSUME NEW B, NEW f, On(f, B), NEW b \in B, NEW v, NEW u
    PROVE  /\ On(With(f, b, v), B) /\ With(f, b, v)[b] = v
           /\ With(With(f, b, v), b, u) = With(f, b, u)
  BY DEF With, On

LEMMA LiveExtends ==
    ASSUME NEW builder, NEW new, NEW bytes \in Seq(Bytes), Sound(builder), Sound(new),
           Extends(builder, bytes, new)
    PROVE  Live(new) = Live(builder) \o bytes
<1> DEFINE n == builder.size
           k == Len(bytes)
           s == Live(new)
           t == Live(builder)
           u == t \o bytes
<1>1. n \in Nat /\ k \in Nat /\ new.size = n + k
  BY SoundParts DEF Extends
<1>2. /\ s \in Seq(Cells) /\ Len(s) = n + k /\ \A i \in 1 .. n + k : s[i] = new.cells[i]
      /\ t \in Seq(Cells) /\ Len(t) = n /\ \A i \in 1 .. n : t[i] = builder.cells[i]
  BY <1>1, LiveIs
<1>3. /\ \A i \in 1 .. n : new.cells[i] = builder.cells[i]
      /\ \A i \in 1 .. k : new.cells[n + i] = bytes[i]
  BY DEF Extends, SameBytes
<1>4. bytes \in Seq(Cells)
  <2>1. \A i \in 1 .. k : bytes[i] \in Cells
    BY DEF Cells
  <2> QED
    BY <2>1
<1> HIDE DEF n, s, t
<1>5. /\ u \in Seq(Cells) /\ Len(u) = n + k
      /\ \A i \in 1 .. n : u[i] = t[i]
      /\ \A i \in n + 1 .. n + k : u[i] = bytes[i - n]
  BY <1>1, <1>2, <1>4, JoinedIs
<1> HIDE DEF k, u
<1>6. \A i \in 1 .. n + k : s[i] = u[i]
  <2> SUFFICES ASSUME NEW i \in 1 .. n + k PROVE s[i] = u[i]
    OBVIOUS
  <2>1. CASE i <= n
    <3>1. i \in 1 .. n
      BY <1>1, <2>1
    <3>2. s[i] = new.cells[i] /\ t[i] = builder.cells[i] /\ u[i] = t[i]
      BY <1>2, <1>5, <3>1
    <3>3. new.cells[i] = builder.cells[i]
      BY <1>3, <3>1
    <3> QED
      BY <3>2, <3>3
  <2>2. CASE ~ (i <= n)
    <3>1. i - n \in 1 .. k /\ i \in n + 1 .. n + k /\ n + (i - n) = i
      BY <1>1, <2>2
    <3>2. s[i] = new.cells[i] /\ u[i] = bytes[i - n]
      BY <1>2, <1>5, <3>1
    <3>3. new.cells[n + (i - n)] = bytes[i - n]
      BY <1>3, <3>1
    <3> QED
      BY <3>1, <3>2, <3>3
  <2> QED
    BY <2>1, <2>2
<1>7. s = u
  BY <1>2, <1>5, <1>6, SameSequence
<1> QED
  BY <1>7 DEF s, t, u

LEMMA OneImage ==
    ASSUME BuilderInv, NEW b \in Builders, NEW new, builders' = [builders EXCEPT ![b] = new]
    PROVE  Image' = [Image EXCEPT ![b] = Accumulated(new)]
<1>1. \A c \in Builders : builders'[c] = IF c = b THEN new ELSE builders[c]
  BY DEF BuilderInv
<1>2. \A c \in Builders :
         Accumulated(builders'[c]) = IF c = b THEN Accumulated(new) ELSE Accumulated(builders[c])
  BY <1>1
<1>3. Image' = [c \in Builders |-> Accumulated(builders'[c])]
  BY DEF Image
<1> QED
  BY <1>2, <1>3 DEF Image

LEMMA NothingIsEmpty ==
    /\ Accumulated(Unborn) = Accumulator!Nothing /\ Accumulated(Left) = Accumulator!Nothing
    /\ \A max : Accumulated(Builder(max)) = [Accumulator!Nothing EXCEPT !.bound = max]
<1>1. SubSeq(<<>>, 1, 0) = <<>> /\ Len(<<>>) = 0
  OBVIOUS
<1>2. Accumulated(Unborn) = Accumulator!Nothing
  BY <1>1 DEF Accumulated, Live, Capacity, Unborn, Accumulator!Nothing
<1>3. \A max : Accumulated(Builder(max)) = [Accumulator!Nothing EXCEPT !.bound = max]
  BY <1>1 DEF Accumulated, Live, Capacity, Builder, Accumulator!Nothing
<1>4. [Accumulator!Nothing EXCEPT !.bound = 0] = Accumulator!Nothing
  BY DEF Accumulator!Nothing
<1> QED
  BY <1>2, <1>3, <1>4 DEF Left

Reserves == [bytes : Seq(Cells), bound : Words, reserve : Nat, status : STRING]

LEMMA AccumulatedIs ==
    ASSUME NEW builder, Sound(builder)
    PROVE  LET view == Accumulated(builder) IN
           /\ view.bytes = Live(builder) /\ view.bound = builder.max
           /\ view.reserve = Capacity(builder)
           /\ builder.status # "unborn" => view.status = builder.status
           /\ view = [bytes |-> view.bytes, bound |-> view.bound, reserve |-> view.reserve,
                      status |-> view.status]
           /\ Len(view.bytes) = builder.size
  BY LiveIs DEF Accumulated

LEMMA ImageIs ==
    ASSUME BuilderInv, NEW b \in Builders, builders[b].status # "unborn"
    PROVE  /\ On(Image, Builders)
           /\ Image[b] = View(Live(builders[b]), builders[b].max, Capacity(builders[b]),
                             builders[b].status)
           /\ Image[b].status = builders[b].status /\ Image[b].bound = builders[b].max
           /\ Image[b].reserve = Capacity(builders[b]) /\ Image[b].bytes = Live(builders[b])
           /\ Len(Image[b].bytes) = builders[b].size /\ Sound(builders[b])
<1>1. On(Image, Builders) /\ Image[b] = Accumulated(builders[b])
  BY DEF Image, On
<1>2. Sound(builders[b])
  BY DEF BuilderInv
<1> QED
  BY <1>1, <1>2, AccumulatedIs DEF Accumulated, View

LEMMA AcceptIs ==
    ASSUME BuilderInv, NEW b \in Builders, NEW bytes \in Seq(Bytes), NEW new, Sound(new),
           builders' = [builders EXCEPT ![b] = new], new.max = builders[b].max,
           Extends(builders[b], bytes, new)
    PROVE  Accumulator!Accept(b, bytes)
<1> DEFINE builder == builders[b]
           f == Image
           p == Live(builder)
           m == builder.max
           c == Capacity(builder)
           reserve == Capacity(new)
           needed == builder.size + Len(bytes)
           joined == p \o bytes
           view == View(joined, m, reserve, "ok")
<1>1. builder.status = "ok" /\ new.status = "ok" /\ new.size = needed
      /\ IF needed <= c THEN reserve = c ELSE reserve > c
  BY DEF Extends
<1>2. /\ On(f, Builders) /\ f[b] = View(p, m, c, "ok")
      /\ f[b].status = "ok" /\ f[b].bound = m /\ f[b].reserve = c /\ f[b].bytes = p
      /\ Len(f[b].bytes) = builder.size /\ Sound(builder)
  BY <1>1, ImageIs
<1>3. Image' = With(f, b, view)
  <2>1. Accumulated(new) = view
    BY <1>1, <1>2, LiveExtends DEF Accumulated, View
  <2> QED
    BY <2>1, OneImage DEF With
<1>4. /\ needed \in Nat /\ reserve \in Nat /\ m \in Nat
      /\ needed <= reserve /\ reserve <= m /\ reserve \in needed .. m
  <2>1. /\ new.size \in Nat /\ reserve \in Nat /\ new.size <= reserve /\ reserve <= new.max
        /\ m \in Nat
    BY <1>2, SoundParts
  <2> HIDE DEF reserve, needed, m
  <2>2. new.max = m
    BY DEF m
  <2> QED
    BY <1>1, <2>1, <2>2
<1> HIDE DEF f, p, m, c, reserve, needed, joined, view
<1>5. WithReserve(WithBytes(f, b, joined), b, reserve) = With(f, b, view)
  <2>1. WithBytes(f, b, joined) = With(f, b, View(joined, m, c, "ok"))
    BY <1>2, BytesChange
  <2> DEFINE g == With(f, b, View(joined, m, c, "ok"))
  <2>2. On(g, Builders) /\ g[b] = View(joined, m, c, "ok")
    BY <1>2, WithIs
  <2> HIDE DEF g
  <2>3. WithReserve(g, b, reserve) = With(g, b, View(joined, m, reserve, "ok"))
    BY <2>2, ReserveChanges
  <2>4. With(g, b, view) = With(f, b, view)
    BY <1>2, WithIs DEF g
  <2> QED
    BY <2>1, <2>3, <2>4 DEF g, view
<1>6. Image' = [Image EXCEPT ![b].bytes = @ \o bytes, ![b].reserve = reserve]
  <2>1. [f EXCEPT ![b].bytes = @ \o bytes, ![b].reserve = reserve]
           = WithReserve(WithBytes(f, b, joined), b, reserve)
    BY <1>2 DEF WithReserve, WithBytes, joined
  <2> QED
    BY <1>3, <1>5, <2>1 DEF f
<1>7. Len(Image[b].bytes) + Len(bytes) = needed /\ Image[b].reserve = c
      /\ Image[b].bound = m /\ Image[b].status = "ok"
  BY <1>2 DEF f, needed
<1>8. /\ Image[b].status = "ok"
      /\ \E r \in Len(Image[b].bytes) + Len(bytes) .. Image[b].bound :
            /\ IF Len(Image[b].bytes) + Len(bytes) <= Image[b].reserve
               THEN r = Image[b].reserve ELSE r > Image[b].reserve
            /\ Image' = [Image EXCEPT ![b].bytes = @ \o bytes, ![b].reserve = r]
  BY <1>1, <1>4, <1>6, <1>7
<1> QED
  BY <1>8 DEF Accumulator!Accept, Image

LEMMA RefuseIs ==
    ASSUME BuilderInv, NEW b \in Builders, NEW bytes \in Seq(Bytes), NEW new, Sound(new),
           builders' = [builders EXCEPT ![b] = new], Fails(builders[b], bytes, new)
    PROVE  Accumulator!Refuse(b, bytes)
<1> DEFINE builder == builders[b]
           f == Image
           p == Live(builder)
           m == builder.max
           c == Capacity(builder)
           needed == builder.size + Len(bytes)
<1>1. builder.status = "ok" /\ builder.status # "unborn"
  BY DEF Fails
<1>2. /\ On(f, Builders) /\ f[b] = View(p, m, c, "ok")
      /\ f[b].status = "ok" /\ f[b].bound = m /\ f[b].reserve = c /\ f[b].bytes = p
      /\ Len(f[b].bytes) = builder.size /\ Sound(builder)
  BY <1>1, ImageIs
<1>3. ASSUME NEW why \in {"capacity_exceeded", "allocation_failed"},
             new = [builder EXCEPT !.status = why]
      PROVE  Image' = [Image EXCEPT ![b].status = why]
  <2>1. /\ new.status = why /\ new.cells = builder.cells /\ new.size = builder.size
        /\ new.max = m
    BY <1>1, <1>2, <1>3, FailedIs
  <2>2. Accumulated(new) = View(p, m, c, why)
    BY <2>1 DEF Accumulated, View, Live, Capacity
  <2>3. Image' = With(f, b, View(p, m, c, why))
    BY <2>2, OneImage DEF With
  <2> HIDE DEF f, p, m, c
  <2>4. WithStatus(f, b, why) = With(f, b, View(p, m, c, why))
    BY <1>2, StatusChanges
  <2> QED
    BY <2>3, <2>4 DEF WithStatus, f
<1>4. \/ /\ needed > m
         /\ Image' = [Image EXCEPT ![b].status = "capacity_exceeded"]
      \/ /\ c < needed /\ needed <= m
         /\ Image' = [Image EXCEPT ![b].status = "allocation_failed"]
  BY <1>3 DEF Fails
<1> HIDE DEF m, c, needed
<1>5. Len(Image[b].bytes) + Len(bytes) = needed /\ Image[b].reserve = c
      /\ Image[b].bound = m /\ Image[b].status = "ok"
  BY <1>2 DEF f, needed
<1> QED
  BY <1>4, <1>5 DEF Accumulator!Refuse, Image

LEMMA PutIs ==
    ASSUME BuilderInv, NEW b \in Builders, Puts(b)
    PROVE  \/ \E bytes \in AllSpans : Accumulator!Accept(b, bytes) \/ Accumulator!Refuse(b, bytes)
           \/ UNCHANGED Image
<1>1. PICK item \in Items, bytes \in Seq(Bytes) :
          bytes \in AllSpans /\ Len(bytes) \in Words /\ Put(b, item, bytes)
  BY DEF Puts
<1>2. PICK new \in Appended(builders[b], bytes) : builders' = [builders EXCEPT ![b] = new]
  BY <1>1 DEF Put
<1> DEFINE builder == builders[b]
<1>3. Sound(builder) /\ new \in Appended(builder, bytes)
  BY <1>2 DEF BuilderInv
<1> HIDE DEF builder
<1>4. /\ Sound(new) /\ new.max = builder.max
      /\ \/ new = builder /\ builder.status # "ok"
         \/ Extends(builder, bytes, new) \/ Fails(builder, bytes, new)
  BY <1>1, <1>3, AppendedIs
<1>5. CASE new = builder
  <2>1. builders' = builders
    BY <1>2, <1>5 DEF BuilderInv, builder
  <2> QED
    BY <2>1 DEF Image
<1>6. CASE Extends(builder, bytes, new)
  BY <1>1, <1>2, <1>4, <1>6, AcceptIs DEF builder
<1>7. CASE Fails(builder, bytes, new)
  BY <1>1, <1>2, <1>4, <1>7, RefuseIs DEF builder
<1> QED
  BY <1>4, <1>5, <1>6, <1>7

LEMMA ResetIs ==
    ASSUME BuilderInv, NEW b \in Builders, Reset(b)
    PROVE  Accumulator!Reset(b)
<1> DEFINE builder == builders[b]
           new == Cleared(builder)
           f == Image
           p == Live(builder)
           m == builder.max
           c == Capacity(builder)
           w == builder.status
<1>1. builder.status # "unborn" /\ builders' = [builders EXCEPT ![b] = new]
  BY DEF Reset, Born, BuilderInv
<1>2. On(f, Builders) /\ f[b] = View(p, m, c, w) /\ Sound(builder)
  BY <1>1, ImageIs
<1>3. /\ Sound(new) /\ new.size = 0 /\ new.max = m /\ new.status = "ok"
      /\ Len(new.cells) = Len(builder.cells)
  BY <1>1, <1>2, ClearedIs
<1> HIDE DEF new
<1>4. Accumulated(new) = View(<<>>, m, c, "ok")
  <2>1. Live(new) = <<>>
    <3>1. Live(new) \in Seq(Cells) /\ Len(Live(new)) = 0
      BY <1>3, LiveIs
    <3> QED
      BY <3>1
  <2> QED
    BY <1>3, <2>1 DEF Accumulated, View, Capacity
<1>5. Image' = With(f, b, View(<<>>, m, c, "ok"))
  BY <1>1, <1>4, OneImage DEF With
<1> HIDE DEF f, p, m, c, w
<1>6. WithStatus(WithBytes(f, b, <<>>), b, "ok") = With(f, b, View(<<>>, m, c, "ok"))
  <2>1. WithBytes(f, b, <<>>) = With(f, b, View(<<>>, m, c, w))
    BY <1>2, BytesChange
  <2> DEFINE g == With(f, b, View(<<>>, m, c, w))
  <2>2. On(g, Builders) /\ g[b] = View(<<>>, m, c, w)
    BY <1>2, WithIs
  <2> HIDE DEF g
  <2>3. WithStatus(g, b, "ok") = With(g, b, View(<<>>, m, c, "ok"))
    BY <2>2, StatusChanges
  <2>4. With(g, b, View(<<>>, m, c, "ok")) = With(f, b, View(<<>>, m, c, "ok"))
    BY <1>2, WithIs DEF g
  <2> QED
    BY <2>1, <2>3, <2>4 DEF g
<1>7. Image' = [Image EXCEPT ![b].bytes = <<>>, ![b].status = "ok"]
  BY <1>5, <1>6 DEF f, WithStatus, WithBytes
<1> QED
  BY <1>7 DEF Accumulator!Reset, Image

LEMMA MoveIs ==
    ASSUME BuilderInv, NEW b \in Builders, NEW other \in Builders, Move(b, other)
    PROVE  Accumulator!Move(b, other)
<1>1. b # other /\ builders' = [builders EXCEPT ![b] = builders[other], ![other] = Left]
  BY DEF Move
<1>2. \A c \in Builders :
         builders'[c] = IF c = other THEN Left ELSE IF c = b THEN builders[other] ELSE builders[c]
  BY <1>1 DEF BuilderInv
<1>3. \A c \in Builders :
         Accumulated(builders'[c]) =
            IF c = other THEN Accumulator!Nothing
            ELSE IF c = b THEN Accumulated(builders[other]) ELSE Accumulated(builders[c])
  BY <1>2, NothingIsEmpty
<1>4. Image' = [c \in Builders |-> Accumulated(builders'[c])]
  BY DEF Image
<1>5. Image' = [Image EXCEPT ![b] = Image[other], ![other] = Accumulator!Nothing]
  BY <1>1, <1>3, <1>4 DEF Image
<1> QED
  BY <1>1, <1>5 DEF Accumulator!Move, Image

LEMMA ImageStep ==
    ASSUME BuilderInv, [Next]_vars
    PROVE  Accumulator!Next \/ UNCHANGED Image
<1>1. CASE Next
  <2>1. PICK b \in Builders : \/ \E max \in Bounds : TryCreate(b, max)
                             \/ Puts(b) \/ Reset(b) \/ Destroy(b)
                             \/ \E other \in Builders : Move(b, other)
    BY <1>1, NextIs
  <2>2. ASSUME NEW max \in Bounds, TryCreate(b, max) PROVE Accumulator!Next
    <3>1. builders' = [builders EXCEPT ![b] = Builder(max)]
      BY <2>2 DEF TryCreate
    <3>2. Image' = [Image EXCEPT ![b] = [Accumulator!Nothing EXCEPT !.bound = max]]
      <4>1. Image' = [Image EXCEPT ![b] = Accumulated(Builder(max))]
        BY <3>1, OneImage
      <4>2. Accumulated(Builder(max)) = [Accumulator!Nothing EXCEPT !.bound = max]
        BY NothingIsEmpty
      <4> QED
        BY <4>1, <4>2
    <3>3. Accumulator!Create(b)
      BY <3>2 DEF Accumulator!Create, Image
    <3> QED
      BY <3>3 DEF Accumulator!Next
  <2>3. CASE Puts(b)
    BY <2>3, PutIs DEF Accumulator!Next
  <2>4. CASE Reset(b)
    BY <2>4, ResetIs DEF Accumulator!Next
  <2>5. CASE Destroy(b)
    <3>1. builders' = [builders EXCEPT ![b] = Unborn]
      BY <2>5 DEF Destroy
    <3>2. Image' = [Image EXCEPT ![b] = Accumulator!Nothing]
      <4>1. Image' = [Image EXCEPT ![b] = Accumulated(Unborn)]
        BY <3>1, OneImage
      <4>2. Accumulated(Unborn) = Accumulator!Nothing
        BY NothingIsEmpty
      <4> QED
        BY <4>1, <4>2
    <3>3. Accumulator!Destroy(b)
      BY <3>2 DEF Accumulator!Destroy, Image
    <3> QED
      BY <3>3 DEF Accumulator!Next
  <2>6. CASE \E other \in Builders : Move(b, other)
    BY <2>6, MoveIs DEF Accumulator!Next
  <2> QED
    BY <2>1, <2>2, <2>3, <2>4, <2>5, <2>6
<1>2. CASE UNCHANGED vars
  BY <1>2 DEF vars, Image
<1> QED
  BY <1>1, <1>2

\* A builder is the bounded accumulator of its promise: every append extends the bytes
\* as a whole or leaves them, fails for the bound only beyond it and for memory only
\* beyond the capacity, and is refused from then on until reset().
THEOREM BuilderImplementsAccumulator == Spec => ImplementsAccumulator
<1>1. Init => Accumulator!Init
  BY NothingIsEmpty DEF Init, Accumulator!Init
<1>2. BuilderInv /\ [Next]_vars => [Accumulator!Next]_Image
  BY ImageStep
<1> QED
  BY <1>1, <1>2, BuildersHold, PTL
  DEF Spec, ImplementsAccumulator, Accumulator!Spec, Image

-----------------------------------------------------------------------------
(* Reading back.                                                            *)

Start(bytes) == [cursor |-> bytes, read |-> <<>>]
IsReading(f, bytes, items) ==
    f = [k \in 0 .. Len(items) |->
            IF k = 0 THEN Start(bytes) ELSE ReadItem(f[k - 1], items[k])]

\* A reader's loop goes through the states that satisfy its recursion.
LEMMA ReadsAs ==
    ASSUME NEW bytes, NEW items, Len(items) \in Nat, NEW g, IsReading(g, bytes, items)
    PROVE  ReadAll(bytes, items) = g[Len(items)]
<1> DEFINE n == Len(items)
           f == CHOOSE f : IsReading(f, bytes, items)
           S == {k \in Nat : k <= n => f[k] = g[k]}
<1>1. ReadAll(bytes, items) = f[n]
  BY Zenon DEF ReadAll, IsReading, Start
<1>2. IsReading(f, bytes, items)
  OBVIOUS
<1> HIDE DEF f
<1>3. 0 \in S
  BY <1>2 DEF IsReading
<1>4. ASSUME NEW k \in Nat, k \in S PROVE k + 1 \in S
  <2> SUFFICES ASSUME k + 1 <= n PROVE f[k + 1] = g[k + 1]
    OBVIOUS
  <2>1. k + 1 \in 0 .. n /\ k + 1 # 0 /\ (k + 1) - 1 = k /\ f[k] = g[k]
    BY <1>4
  <2> QED
    BY <1>2, <2>1 DEF IsReading
<1> HIDE DEF S
<1>5. \A k \in Nat : k \in S
  BY <1>3, <1>4, NatInd
<1>6. f[n] = g[n]
  BY <1>5 DEF S
<1> QED
  BY <1>1, <1>6

\* A part of what is left is a part of the whole.
LEMMA PartOfRest ==
    ASSUME NEW S, NEW s \in Seq(S), NEW a \in Nat, NEW z \in Nat, NEW n \in Nat,
           a <= z, z <= n, n <= Len(s)
    PROVE  LET rest == SubSeq(s, a + 1, n) IN
           /\ Len(rest) = n - a /\ SubSeq(rest, 1, z - a) = SubSeq(s, a + 1, z)
           /\ SubSeq(rest, (z - a) + 1, Len(rest)) = SubSeq(s, z + 1, n)
<1> DEFINE rest == SubSeq(s, a + 1, n)
           w == z - a
           l == n - a
           first == SubSeq(rest, 0 + 1, w)
           second == SubSeq(rest, w + 1, l)
           part == SubSeq(s, a + 1, z)
           tail == SubSeq(s, z + 1, n)
<1>1. w \in Nat /\ l \in Nat /\ 0 <= w /\ w <= l /\ 0 \in Nat /\ a <= n /\ z <= Len(s)
  OBVIOUS
<1>2. rest \in Seq(S) /\ Len(rest) = l /\ \A i \in 1 .. l : rest[i] = s[a + i]
  <2> HIDE DEF rest
  <2>1. rest \in Seq(S) /\ Len(rest) = n - a /\ \A i \in 1 .. n - a : rest[i] = s[a + i]
    BY <1>1, PartIs DEF rest
  <2> QED
    BY <2>1
<1> HIDE DEF rest, w, l
<1>3. first \in Seq(S) /\ Len(first) = w - 0 /\ \A i \in 1 .. w - 0 : first[i] = rest[0 + i]
  <2> HIDE DEF first
  <2> QED
    BY <1>1, <1>2, PartIs DEF first
<1>4. second \in Seq(S) /\ Len(second) = l - w /\ \A i \in 1 .. l - w : second[i] = rest[w + i]
  <2> HIDE DEF second
  <2> QED
    BY <1>1, <1>2, PartIs DEF second
<1>5. part \in Seq(S) /\ Len(part) = z - a /\ \A i \in 1 .. z - a : part[i] = s[a + i]
  <2> HIDE DEF part
  <2> QED
    BY <1>1, PartIs DEF part
<1>6. tail \in Seq(S) /\ Len(tail) = n - z /\ \A i \in 1 .. n - z : tail[i] = s[z + i]
  <2> HIDE DEF tail
  <2> QED
    BY <1>1, PartIs DEF tail
<1> HIDE DEF first, second, part, tail
<1>7. first = part
  <2>1. Len(first) = w /\ Len(part) = w /\ \A i \in 1 .. w : first[i] = rest[i]
    BY <1>1, <1>3, <1>5 DEF w
  <2>2. \A i \in 1 .. w : i \in 1 .. l
    BY <1>1
  <2>3. \A i \in 1 .. w : first[i] = part[i]
    BY <1>2, <1>5, <2>1, <2>2 DEF w
  <2> QED
    BY <1>3, <1>5, <2>1, <2>3, SameSequence
<1>8. second = tail
  <2>1. Len(second) = n - z /\ l - w = n - z
    BY <1>1, <1>4 DEF l, w
  <2>2. \A i \in 1 .. n - z : w + i \in 1 .. l /\ a + (w + i) = z + i
    BY <1>1 DEF l, w
  <2>3. \A i \in 1 .. n - z : second[i] = tail[i]
    BY <1>2, <1>4, <1>6, <2>1, <2>2
  <2> QED
    BY <1>4, <1>6, <2>1, <2>3, SameSequence
<1>9. first = SubSeq(rest, 1, w)
  BY DEF first
<1> QED
  BY <1>2, <1>7, <1>8, <1>9 DEF first, second, part, tail, w, l, rest

\* Items that are placed in a builder's bytes are what is read from them.
LEMMA PlacedIsRead ==
    ASSUME NEW builder, Sound(builder), NEW items \in Seq(Items), Placed(builder, items)
    PROVE  LET end == ReadAll(Live(builder), items)
           IN  /\ end.cursor = <<>>
               /\ end.read = [i \in 1 .. Len(items) |-> items[i].value]
<1> DEFINE n == Len(items)
           size == builder.size
           live == Live(builder)
<1>1. PICK at : PlacedAt(builder, items, at)
  BY DEF Placed
<1> DEFINE Read(k) == [i \in 1 .. k |-> items[i].value]
           g == [k \in 0 .. n |-> [cursor |-> SubSeq(live, at[k] + 1, size), read |-> Read(k)]]
<1>2. /\ n \in Nat /\ size \in Nat /\ live \in Seq(Cells) /\ Len(live) = size
      /\ \A i \in 1 .. size : live[i] = builder.cells[i]
      /\ builder.cells \in Seq(Cells) /\ size <= Len(builder.cells)
  BY LiveIs, SoundParts
<1>3. at \in [0 .. n -> Nat] /\ at[0] = 0 /\ at[n] = size
  BY <1>1 DEF PlacedAt
<1> DEFINE V == Nat \cup Seq(Bytes)
<1>4. \A i \in 1 .. n : items[i] \in Items /\ items[i].value \in V /\ items[i].width \in Nat
  <2> TAKE i \in 1 .. n
  <2>1. items[i] \in Items
    OBVIOUS
  <2> QED
    BY <2>1 DEF Items
<1>5. \A k \in 0 .. n : Read(k) \in Seq(V) /\ Len(Read(k)) = k
  <2> TAKE k \in 0 .. n
  <2>1. k \in Nat /\ \A i \in 1 .. k : i \in 1 .. n
    BY <1>2
  <2>2. \A i \in 1 .. k : items[i].value \in V
    BY <1>4, <2>1
  <2> HIDE DEF V
  <2>3. Read(k) \in [1 .. k -> V]
    BY <2>2
  <2> HIDE DEF Read
  <2> QED
    BY <2>1, <2>3
<1>6. g[0] = Start(live)
  <2>1. SubSeq(live, 0 + 1, size) = live
    <3> DEFINE s == SubSeq(live, 0 + 1, size)
    <3>1. s \in Seq(Cells) /\ Len(s) = size - 0 /\ \A i \in 1 .. size - 0 : s[i] = live[0 + i]
      <4> HIDE DEF s, live, size
      <4> QED
        BY <1>2, PartIs DEF s
    <3> HIDE DEF s, live, size
    <3>2. Len(s) = Len(live) /\ \A i \in 1 .. Len(live) : s[i] = live[i]
      BY <1>2, <3>1
    <3>3. s = live
      BY <1>2, <3>1, <3>2, SameSequence
    <3> QED
      BY <3>3 DEF s
  <2>2. Read(0) = <<>>
    BY <1>2, <1>5
  <2>3. g[0] = [cursor |-> SubSeq(live, at[0] + 1, size), read |-> Read(0)]
    BY <1>2
  <2> QED
    BY <1>3, <2>1, <2>2, <2>3 DEF Start
<1>7. ASSUME NEW k \in 1 .. n PROVE g[k] = ReadItem(g[k - 1], items[k])
  <2> DEFINE a == at[k - 1]
             z == at[k]
             w == items[k].width
             rest == SubSeq(live, a + 1, size)
  <2>1. k - 1 \in 0 .. n /\ k \in 0 .. n /\ k \in Nat
    BY <1>2
  <2>2. /\ a \in Nat /\ z \in Nat /\ z = a + w /\ w \in Nat /\ z <= size /\ a <= z
        /\ Decoded(items[k].order, SubSeq(builder.cells, a + 1, z)) = items[k].value
    <3>1. a \in Nat /\ z \in Nat
      BY <1>3, <2>1
    <3>2. w \in Nat
      BY <1>4
    <3>3. /\ z = a + w /\ z <= size
          /\ Decoded(items[k].order, SubSeq(builder.cells, a + 1, z)) = items[k].value
      BY <1>1 DEF PlacedAt
    <3> QED
      BY <3>1, <3>2, <3>3
  <2>3. /\ g[k - 1] = [cursor |-> rest, read |-> Read(k - 1)]
        /\ g[k] = [cursor |-> SubSeq(live, z + 1, size), read |-> Read(k)]
    BY <2>1
  <2>4. SubSeq(live, a + 1, z) = SubSeq(builder.cells, a + 1, z)
    <3> DEFINE x == builder.cells
    <3> HIDE DEF a, z, live, size, x
    <3>1. x \in Seq(Cells) /\ size <= Len(x) /\ \A i \in 1 .. size : live[i] = x[i]
      BY <1>2 DEF x
    <3>2. size <= Len(live) /\ live \in Seq(Cells) /\ size \in Nat
      BY <1>2
    <3>3. a \in Nat /\ z \in Nat /\ a <= z /\ z <= size
      BY <2>2
    <3>4. SubSeq(live, a + 1, z) = SubSeq(x, a + 1, z)
      BY <3>1, <3>2, <3>3, SamePart
    <3> QED
      BY <3>4 DEF x
  <2>5. /\ Len(rest) = size - a /\ w = z - a
        /\ SubSeq(rest, 1, w) = SubSeq(live, a + 1, z)
        /\ SubSeq(rest, w + 1, Len(rest)) = SubSeq(live, z + 1, size)
    <3>1. w = z - a
      BY <2>2
    <3>2. size <= Len(live)
      BY <1>2
    <3> HIDE DEF a, z, w, live, size
    <3>3. /\ Len(rest) = size - a /\ SubSeq(rest, 1, z - a) = SubSeq(live, a + 1, z)
          /\ SubSeq(rest, (z - a) + 1, Len(rest)) = SubSeq(live, z + 1, size)
      BY <1>2, <2>2, <3>2, PartOfRest
    <3> QED
      BY <3>1, <3>3
  <2>6. Append(Read(k - 1), items[k].value) = Read(k)
    <3> DEFINE s == Read(k - 1)
               t == Read(k)
               v == items[k].value
               u == Append(s, v)
    <3>1. s \in Seq(V) /\ Len(s) = k - 1 /\ t \in Seq(V) /\ Len(t) = k /\ v \in V
      <4>1. v \in V
        BY <1>4
      <4> HIDE DEF V
      <4> QED
        BY <1>5, <2>1, <4>1
    <3>2. \A i \in 1 .. k - 1 : s[i] = t[i]
      BY <2>1
    <3>3. t[k] = v
      BY <2>1
    <3> HIDE DEF s, t, v, V
    <3>4. u \in Seq(V) /\ Len(u) = k /\ u[k] = v /\ \A i \in 1 .. k - 1 : u[i] = s[i]
      BY <2>1, <3>1
    <3> HIDE DEF u
    <3>5. \A i \in 1 .. k : u[i] = t[i]
      <4> TAKE i \in 1 .. k
      <4>1. i = k \/ i \in 1 .. k - 1
        BY <2>1
      <4> QED
        BY <3>2, <3>3, <3>4, <4>1
    <3>6. u = t
      BY <3>1, <3>4, <3>5, SameSequence
    <3> QED
      BY <3>6 DEF s, t, u, v
  <2> HIDE DEF rest, a, z, w, live, size, Read, g, n
  <2>7. Take(rest, items[k].width) = SubSeq(builder.cells, a + 1, z)
    <3>1. ~ (w > Len(rest))
      BY <1>2, <2>2, <2>5
    <3>2. Take(rest, w) = SubSeq(rest, 1, w)
      BY <3>1 DEF Take
    <3> QED
      BY <2>4, <2>5, <3>2 DEF w
  <2>8. Len(SubSeq(builder.cells, a + 1, z)) = w
    <3> DEFINE x == builder.cells
               t == SubSeq(x, a + 1, z)
    <3> HIDE DEF x
    <3>1. x \in Seq(Cells) /\ z <= Len(x)
      BY <1>2, <2>2 DEF x
    <3> HIDE DEF t
    <3>2. Len(t) = z - a
      BY <2>2, <3>1, PartIs DEF t
    <3> QED
      BY <2>5, <3>2 DEF t, x
  <2> DEFINE old == g[k - 1]
             bytes == Take(old.cursor, items[k].width)
  <2>9. old.cursor = rest /\ old.read = Read(k - 1)
    BY <2>3
  <2>10. bytes = SubSeq(builder.cells, a + 1, z) /\ Len(bytes) = w
    BY <2>7, <2>8, <2>9
  <2>11. ReadItem(old, items[k]) =
            [cursor |-> SubSeq(old.cursor, Len(bytes) + 1, Len(old.cursor)),
             read |-> Append(old.read, Decoded(items[k].order, bytes))]
    BY DEF ReadItem
  <2> HIDE DEF bytes, old
  <2>12. Decoded(items[k].order, bytes) = items[k].value
    BY <2>2, <2>10
  <2>13. SubSeq(old.cursor, Len(bytes) + 1, Len(old.cursor)) = SubSeq(live, z + 1, size)
    BY <2>5, <2>9, <2>10
  <2>14. Append(old.read, Decoded(items[k].order, bytes)) = Read(k)
    BY <2>6, <2>9, <2>12
  <2> QED
    BY <2>3, <2>11, <2>13, <2>14 DEF old
<1>8. IsReading(g, live, items)
  <2> DEFINE h == [k \in 0 .. n |-> IF k = 0 THEN Start(live) ELSE ReadItem(g[k - 1], items[k])]
  <2>1. \A k \in 0 .. n : g[k] = h[k]
    <3> TAKE k \in 0 .. n
    <3>1. CASE k = 0
      BY <1>6, <3>1
    <3>2. CASE k # 0
      <4>1. k \in 1 .. n
        BY <1>2, <3>2
      <4> HIDE DEF g
      <4> QED
        BY <1>7, <3>2, <4>1
    <3> QED
      BY <3>1, <3>2
  <2>2. g = [k \in 0 .. n |-> g[k]] /\ h = [k \in 0 .. n |-> h[k]]
    OBVIOUS
  <2> HIDE DEF g, h
  <2>3. g = h
    BY <2>1, <2>2
  <2> QED
    BY <2>3 DEF IsReading, h
<1>9. g[n] = [cursor |-> <<>>, read |-> Read(n)]
  <2>1. n \in 0 .. n
    BY <1>2
  <2>2. SubSeq(live, size + 1, size) = <<>>
    BY <1>2
  <2> QED
    BY <1>3, <2>1, <2>2
<1> HIDE DEF g
<1>10. ReadAll(live, items) = g[n]
  BY <1>2, <1>8, ReadsAs
<1> QED
  BY <1>9, <1>10

\* Whatever was put into a builder, and however it grew, was reset, moved or refused in
\* between: reading its bytes gives back every value in order and leaves nothing.
THEOREM WhatIsPutIsRead == Spec => []ReadsBack
<1>1. BuilderInv => ReadsBack
  BY PlacedIsRead DEF BuilderInv, ReadsBack
<1> QED
  BY <1>1, BuildersHold, PTL
=============================================================================
