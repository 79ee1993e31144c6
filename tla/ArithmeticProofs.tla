-------------------------- MODULE ArithmeticProofs --------------------------
(***************************************************************************)
(* The checked operations are exact, for integers of every width: a result *)
(* is returned if and only if the type can represent it, and it is the     *)
(* mathematical one.  Before that, for the proofs of other modules: least  *)
(* elements, induction, sums, powers, remainders and sequences.            *)
(***************************************************************************)
EXTENDS CheckedArithmetic, TLAPS, WellFoundedInduction, FiniteSetTheorems, SequenceTheorems

-----------------------------------------------------------------------------
(* Least elements and induction, from the well-foundedness of strict        *)
(* inclusion between finite sets.                                           *)

\* A nonempty family of finite sets has a minimal one.
LEMMA MinimalSet ==
  ASSUME NEW S, NEW F, F \subseteq FiniteSubsetsOf(S), F # {}
  PROVE  \E A \in F : \A B \in F : B \subseteq A => B = A
<1> DEFINE R == StrictSubsetOrdering(S)
<1>1. IsWellFoundedOn(R, FiniteSubsetsOf(S))
  BY FS_StrictSubsetOrderingWellFounded
<1> HIDE DEF R
<1>2. PICK A \in F : \A B \in F : ~ (<<B, A>> \in R)
  BY <1>1, WFMin
<1>3. \A B \in F : B \in SUBSET S
  BY DEF FiniteSubsetsOf
<1> QED BY <1>2, <1>3 DEF R, StrictSubsetOrdering

LEMMA Least ==
  ASSUME NEW T, T \subseteq Nat, T # {}
  PROVE \E x \in T : \A y \in T : x <= y
<1> DEFINE F == {0 .. x : x \in T}
<1>1. \A x \in T : (0 .. x) \in FiniteSubsetsOf(Nat)
  <2>1. \A x \in Nat : IsFiniteSet(0 .. x) BY FS_Interval
  <2> QED BY <2>1 DEF FiniteSubsetsOf
<1>2. F \subseteq FiniteSubsetsOf(Nat) /\ F # {}
  BY <1>1
<1> HIDE DEF F
<1>3. PICK A \in F : \A B \in F : B \subseteq A => B = A
  BY <1>2, MinimalSet
<1>4. PICK x \in T : A = 0 .. x
  BY <1>3 DEF F
<1>5. ASSUME NEW y \in T, y < x PROVE FALSE
  <2>1. (0 .. y) \in F /\ x \in Nat /\ y \in Nat BY <1>5 DEF F
  <2>2. (0 .. y) \subseteq (0 .. x) /\ x \in 0 .. x /\ x \notin 0 .. y
    BY <2>1, <1>5
  <2>3. (0 .. y) = (0 .. x) BY <1>3, <1>4, <2>1, <2>2
  <2> QED BY <2>2, <2>3
<1> QED BY <1>5

LEMMA NatInd ==
  ASSUME NEW S, 0 \in S, \A n \in Nat : n \in S => n + 1 \in S
  PROVE \A n \in Nat : n \in S
<1> DEFINE T == {n \in Nat : n \notin S}
<1> SUFFICES ASSUME T # {} PROVE FALSE
  OBVIOUS
<1>1. PICK x \in T : \A y \in T : x <= y
  BY Least
<1>2. x # 0 /\ x \in Nat /\ x - 1 \in Nat /\ x - 1 \in S
  BY <1>1
<1> QED BY <1>1, <1>2
-----------------------------------------------------------------------------
(* Sums over finite sets, the way the folds of the models compute them: by  *)
(* taking out one chosen element after the other.                           *)

Chosen(s) == CHOOSE x \in s : TRUE
IsSum(g, D, term) ==
    g = [s \in SUBSET D |-> IF s = {} THEN 0
                            ELSE term[CHOOSE x \in s : TRUE] + g[s \ {CHOOSE x \in s : TRUE}]]
Total(D, term) == (CHOOSE g : IsSum(g, D, term))[D]

LEMMA ChosenIsIn ==
    ASSUME NEW s, s # {}
    PROVE  Chosen(s) \in s
  BY DEF Chosen

LEMMA SumOfNone ==
    ASSUME NEW g, NEW D, NEW term, IsSum(g, D, term)
    PROVE  g[{}] = 0
  BY DEF IsSum

LEMMA SumOfSome ==
    ASSUME NEW g, NEW D, NEW term, IsSum(g, D, term), NEW s, s \subseteq D, s # {}
    PROVE  g[s] = term[Chosen(s)] + g[s \ {Chosen(s)}]
  BY DEF IsSum, Chosen

\* Sums of terms that agree on a set are the same there.
LEMMA SumsAgree ==
    ASSUME NEW D, IsFiniteSet(D), NEW E,
           NEW t, NEW u, NEW g, NEW h, IsSum(g, D, t), IsSum(h, E, u),
           NEW s, s \subseteq D, s \subseteq E, \A x \in s : t[x] = u[x]
    PROVE  g[s] = h[s]
<1> DEFINE F == {a \in SUBSET s : g[a] # h[a]}
<1> SUFFICES ASSUME F # {} PROVE FALSE
  OBVIOUS
<1>1. F \subseteq FiniteSubsetsOf(s)
  BY FS_Subset DEF FiniteSubsetsOf
<1>2. PICK a \in F : \A b \in F : b \subseteq a => b = a
  <2> HIDE DEF F
  <2> QED
    BY <1>1, MinimalSet
<1>3. a \subseteq s /\ a \in SUBSET D /\ a \in SUBSET E /\ g[a] # h[a]
  OBVIOUS
<1>4. a # {}
  BY <1>3, SumOfNone
<1> DEFINE c == Chosen(a)
<1>5. /\ c \in a /\ g[a] = t[c] + g[a \ {c}] /\ h[a] = u[c] + h[a \ {c}]
  <2>1. g[a] = t[c] + g[a \ {c}]
    BY <1>3, <1>4, SumOfSome
  <2>2. h[a] = u[c] + h[a \ {c}]
    BY <1>3, <1>4, SumOfSome
  <2> QED
    BY <1>4, <2>1, <2>2, ChosenIsIn
<1>6. (a \ {c}) \in SUBSET s /\ (a \ {c}) \notin F
  BY <1>2, <1>3, <1>5
<1> QED
  BY <1>3, <1>5, <1>6

LEMMA SumExists ==
    ASSUME NEW D, IsFiniteSet(D), NEW term
    PROVE  \E g : IsSum(g, D, term)
<1> DEFINE F == {s \in SUBSET D : ~ \E g : IsSum(g, s, term)}
<1> SUFFICES ASSUME F # {} PROVE FALSE
  OBVIOUS
<1>1. F \subseteq FiniteSubsetsOf(D)
  BY FS_Subset DEF FiniteSubsetsOf
<1>2. PICK s \in F : \A b \in F : b \subseteq s => b = s
  <2> HIDE DEF F
  <2> QED
    BY <1>1, MinimalSet
<1> DEFINE G(a) == CHOOSE g : IsSum(g, a, term)
           Below(a) == IF a = {} THEN 0 ELSE term[Chosen(a)] + G(a \ {Chosen(a)})[a \ {Chosen(a)}]
           h == [a \in SUBSET s |-> IF a = s THEN Below(a) ELSE G(a)[a]]
<1>3. s \in SUBSET D /\ ~ \E g : IsSum(g, s, term)
  OBVIOUS
<1>4. ASSUME NEW a \in SUBSET s, a # s PROVE IsSum(G(a), a, term)
  <2>1. a \in SUBSET D /\ a \notin F
    BY <1>2, <1>3, <1>4
  <2> QED
    BY <2>1
<1> HIDE DEF F, G
<1>5. ASSUME NEW a \in SUBSET s PROVE h[a] = Below(a)
  <2>1. CASE a = s
    BY <2>1
  <2>2. CASE a # s /\ a = {}
    BY <1>4, <2>2, SumOfNone
  <2>3. CASE a # s /\ a # {}
    <3> DEFINE c == Chosen(a)
    <3>1. IsSum(G(a), a, term) /\ a \in SUBSET a
      BY <1>4, <2>3
    <3>2. c \in a /\ G(a)[a] = term[c] + G(a)[a \ {c}]
      BY <2>3, <3>1, ChosenIsIn, SumOfSome
    <3>3. (a \ {c}) \in SUBSET s /\ a \ {c} # s
      BY <3>2
    <3>4. IsSum(G(a \ {c}), a \ {c}, term)
      BY <1>4, <3>3
    <3>5. IsFiniteSet(a)
      BY <1>3, FS_Subset
    <3>6. G(a)[a \ {c}] = G(a \ {c})[a \ {c}]
      BY <3>1, <3>4, <3>5, SumsAgree
    <3> QED
      BY <2>3, <3>2, <3>6
  <2> QED
    BY <2>1, <2>2, <2>3
<1>6. ASSUME NEW a \in SUBSET s, a # {} PROVE h[a \ {Chosen(a)}] = G(a \ {Chosen(a)})[a \ {Chosen(a)}]
  <2>1. Chosen(a) \in a
    BY <1>6 DEF Chosen
  <2>2. a \ {Chosen(a)} # s /\ (a \ {Chosen(a)}) \in SUBSET s
    BY <2>1
  <2> QED
    BY <2>2
<1>7. \A a \in SUBSET s : h[a] = IF a = {} THEN 0 ELSE term[Chosen(a)] + h[a \ {Chosen(a)}]
  BY <1>5, <1>6
<1>8. h = [a \in SUBSET s |-> h[a]]
  OBVIOUS
<1> HIDE DEF h
<1>9. IsSum(h, s, term)
  <2>1. h = [a \in SUBSET s |-> IF a = {} THEN 0 ELSE term[Chosen(a)] + h[a \ {Chosen(a)}]]
    BY <1>7, <1>8
  <2> QED
    BY <2>1 DEF IsSum, Chosen
<1> QED
  BY <1>3, <1>9

LEMMA TotalIsSum ==
    ASSUME NEW D, IsFiniteSet(D), NEW term, NEW g, IsSum(g, D, term),
           NEW s, s \subseteq D
    PROVE  g[s] = Total(s, term)
<1>1. IsFiniteSet(s)
  BY FS_Subset
<1> DEFINE h == CHOOSE i : IsSum(i, s, term)
<1>2. IsSum(h, s, term)
  BY <1>1, SumExists
<1> HIDE DEF h
<1>3. g[s] = h[s]
  BY <1>1, <1>2, SumsAgree
<1> QED
  BY <1>3 DEF Total, h

LEMMA TotalSame ==
    ASSUME NEW D, IsFiniteSet(D), NEW t, NEW u, \A x \in D : t[x] = u[x]
    PROVE  Total(D, t) = Total(D, u)
<1>1. (\E g : IsSum(g, D, t)) /\ \E g : IsSum(g, D, u)
  BY SumExists
<1>2. PICK g : IsSum(g, D, t)
  BY <1>1
<1>3. PICK h : IsSum(h, D, u)
  BY <1>1
<1>4. g[D] = h[D] /\ g[D] = Total(D, t) /\ h[D] = Total(D, u)
  BY <1>2, <1>3, SumsAgree, TotalIsSum
<1> QED
  BY <1>4

LEMMA TotalChosen ==
    ASSUME NEW D, IsFiniteSet(D), NEW term
    PROVE  /\ D = {} => Total(D, term) = 0
           /\ D # {} => /\ Chosen(D) \in D
                        /\ Total(D, term) = term[Chosen(D)] + Total(D \ {Chosen(D)}, term)
<1>1. PICK g : IsSum(g, D, term)
  BY SumExists
<1>2. D = {} => g[D] = 0
  BY <1>1, SumOfNone
<1>3. D # {} => Chosen(D) \in D /\ g[D] = term[Chosen(D)] + g[D \ {Chosen(D)}]
  BY <1>1, ChosenIsIn, SumOfSome
<1>4. g[D] = Total(D, term) /\ g[D \ {Chosen(D)}] = Total(D \ {Chosen(D)}, term)
  BY <1>1, TotalIsSum
<1> QED
  BY <1>2, <1>3, <1>4

LEMMA TotalType ==
    ASSUME NEW D, IsFiniteSet(D), NEW term
    PROVE  /\ (\A x \in D : term[x] \in Int) => Total(D, term) \in Int
           /\ (\A x \in D : term[x] \in Nat) => Total(D, term) \in Nat
<1> DEFINE F == {s \in SUBSET D :
                    \/ (\A x \in s : term[x] \in Int) /\ Total(s, term) \notin Int
                    \/ (\A x \in s : term[x] \in Nat) /\ Total(s, term) \notin Nat}
<1> SUFFICES ASSUME F # {} PROVE FALSE
  OBVIOUS
<1>1. F \subseteq FiniteSubsetsOf(D)
  BY FS_Subset DEF FiniteSubsetsOf
<1>2. PICK a \in F : \A b \in F : b \subseteq a => b = a
  <2> HIDE DEF F
  <2> QED
    BY <1>1, MinimalSet
<1>3. a \in SUBSET D /\ IsFiniteSet(a)
  BY FS_Subset
<1> DEFINE c == Chosen(a)
           rest == a \ {c}
<1>4. /\ a = {} => Total(a, term) = 0
      /\ a # {} => c \in a /\ Total(a, term) = term[c] + Total(rest, term)
  BY <1>3, TotalChosen
<1>5. a # {}
  BY <1>4
<1>6. rest \in SUBSET D /\ rest \notin F
  BY <1>2, <1>3, <1>4, <1>5
<1>7. /\ (\A x \in a : term[x] \in Int) => term[c] \in Int /\ Total(rest, term) \in Int
      /\ (\A x \in a : term[x] \in Nat) => term[c] \in Nat /\ Total(rest, term) \in Nat
  BY <1>4, <1>5, <1>6
<1> HIDE DEF c, rest
<1>8. \A x, y \in Nat : x + y \in Nat
  OBVIOUS
<1>9. \A x, y \in Int : x + y \in Int
  OBVIOUS
<1> QED
  BY <1>4, <1>5, <1>7, <1>8, <1>9

\* Any element may be taken out first.
LEMMA TotalTakesOut ==
    ASSUME NEW D, IsFiniteSet(D), NEW term, \A x \in D : term[x] \in Int, NEW e \in D
    PROVE  Total(D, term) = term[e] + Total(D \ {e}, term)
<1> DEFINE Bad(s) == \E x \in s : Total(s, term) # term[x] + Total(s \ {x}, term)
           F == {s \in SUBSET D : Bad(s)}
<1> SUFFICES ASSUME F # {} PROVE FALSE
  OBVIOUS
<1>1. F \subseteq FiniteSubsetsOf(D)
  BY FS_Subset DEF FiniteSubsetsOf
<1>2. PICK a \in F : \A b \in F : b \subseteq a => b = a
  <2> HIDE DEF F
  <2> QED
    BY <1>1, MinimalSet
<1>3. a \in SUBSET D /\ IsFiniteSet(a) /\ Bad(a)
  BY FS_Subset
<1>4. PICK x \in a : Total(a, term) # term[x] + Total(a \ {x}, term)
  BY <1>3
<1> DEFINE c == Chosen(a)
           both == a \ {x, c}
<1>5. c \in a /\ Total(a, term) = term[c] + Total(a \ {c}, term)
  BY <1>3, TotalChosen
<1>6. x # c
  BY <1>4, <1>5
<1>7. ASSUME NEW y \in a, NEW z \in a, y # z
      PROVE  Total(a \ {y}, term) = term[z] + Total((a \ {y}) \ {z}, term)
  <2>1. (a \ {y}) \in SUBSET D /\ ~ (a \ {y} = a) /\ z \in a \ {y}
    BY <1>3, <1>7
  <2>2. (a \ {y}) \notin F
    BY <1>2, <2>1
  <2> QED
    BY <2>1, <2>2
<1>8. (a \ {c}) \ {x} = both /\ (a \ {x}) \ {c} = both
  BY <1>6
<1>9. /\ Total(a \ {c}, term) = term[x] + Total(both, term)
      /\ Total(a \ {x}, term) = term[c] + Total(both, term)
  <2>1. Total(a \ {c}, term) = term[x] + Total((a \ {c}) \ {x}, term)
    BY <1>5, <1>6, <1>7
  <2>2. Total(a \ {x}, term) = term[c] + Total((a \ {x}) \ {c}, term)
    BY <1>5, <1>6, <1>7
  <2> QED
    BY <2>1, <2>2, <1>8
<1>10. term[x] \in Int /\ term[c] \in Int /\ Total(both, term) \in Int
  <2>1. IsFiniteSet(both) /\ \A y \in both : term[y] \in Int
    BY <1>3, FS_Subset
  <2> QED
    BY <1>3, <1>5, <2>1, TotalType
<1> HIDE DEF c, both
<1> QED
  BY <1>4, <1>5, <1>9, <1>10

\* One term changes, and the total by as much.
LEMMA TotalChange ==
    ASSUME NEW D, IsFiniteSet(D), NEW t, NEW u, NEW e \in D,
           \A x \in D : t[x] \in Int /\ u[x] \in Int,
           \A x \in D \ {e} : t[x] = u[x]
    PROVE  Total(D, u) = Total(D, t) + (u[e] - t[e])
<1> DEFINE rest == D \ {e}
<1>1. IsFiniteSet(rest) /\ \A x \in rest : t[x] \in Int
  BY FS_Subset
<1>2. Total(D, t) = t[e] + Total(rest, t) /\ Total(D, u) = u[e] + Total(rest, u)
  BY TotalTakesOut
<1>3. Total(rest, t) = Total(rest, u) /\ Total(rest, t) \in Int
  BY <1>1, TotalSame, TotalType
<1> HIDE DEF rest
<1> QED
  BY <1>2, <1>3

LEMMA TotalOfZeroes ==
    ASSUME NEW D, IsFiniteSet(D), NEW term, \A x \in D : term[x] = 0
    PROVE  Total(D, term) = 0
<1> DEFINE F == {s \in SUBSET D : Total(s, term) # 0}
<1> SUFFICES ASSUME F # {} PROVE FALSE
  OBVIOUS
<1>1. F \subseteq FiniteSubsetsOf(D)
  BY FS_Subset DEF FiniteSubsetsOf
<1>2. PICK a \in F : \A b \in F : b \subseteq a => b = a
  <2> HIDE DEF F
  <2> QED
    BY <1>1, MinimalSet
<1>3. a \in SUBSET D /\ IsFiniteSet(a) /\ Total(a, term) # 0
  BY FS_Subset
<1>4. a # {} /\ Chosen(a) \in a /\ Total(a, term) = term[Chosen(a)] + Total(a \ {Chosen(a)}, term)
  BY <1>3, TotalChosen
<1>5. (a \ {Chosen(a)}) \notin F /\ (a \ {Chosen(a)}) \in SUBSET D
  BY <1>2, <1>3, <1>4
<1>6. term[Chosen(a)] = 0
  BY <1>3, <1>4
<1> QED
  BY <1>3, <1>4, <1>5, <1>6

-----------------------------------------------------------------------------
(* Powers, which a recursive function lists, and remainders.                *)

IsPowers(f, base, n) == f = [k \in 0 .. n |-> IF k = 0 THEN 1 ELSE base * f[k - 1]]

LEMMA PowersExist ==
    ASSUME NEW base \in Nat
    PROVE  \A n \in Nat : \E f : IsPowers(f, base, n)
<1> DEFINE S == {n \in Nat : \E f : IsPowers(f, base, n)}
<1>1. 0 \in S
  <2> DEFINE f == [k \in 0 .. 0 |-> 1]
  <2>1. IsPowers(f, base, 0)
    BY DEF IsPowers
  <2> QED
    BY <2>1
<1>2. ASSUME NEW n \in Nat, n \in S PROVE n + 1 \in S
  <2>1. PICK f : IsPowers(f, base, n)
    BY <1>2
  <2> DEFINE g == [k \in 0 .. n + 1 |-> IF k = n + 1 THEN base * f[n] ELSE f[k]]
  <2>2. ASSUME NEW k \in 0 .. n + 1
        PROVE  g[k] = IF k = 0 THEN 1 ELSE base * g[k - 1]
    <3>1. CASE k = n + 1
      BY <3>1
    <3>2. CASE k # n + 1
      <4>1. k \in 0 .. n
        BY <3>2
      <4>2. f[k] = IF k = 0 THEN 1 ELSE base * f[k - 1]
        BY <2>1, <4>1 DEF IsPowers
      <4>3. g[k] = f[k] /\ (k # 0 => g[k - 1] = f[k - 1])
        BY <4>1
      <4> QED
        BY <4>2, <4>3
    <3> QED
      BY <3>1, <3>2
  <2>3. g = [k \in 0 .. n + 1 |-> g[k]]
    OBVIOUS
  <2> HIDE DEF g
  <2>4. IsPowers(g, base, n + 1)
    BY <2>2, <2>3 DEF IsPowers
  <2> QED
    BY <2>4
<1> HIDE DEF S
<1>3. \A n \in Nat : n \in S
  BY <1>1, <1>2, NatInd
<1> QED
  BY <1>3 DEF S

LEMMA PowersAre ==
    ASSUME NEW base \in Nat \ {0}, NEW n \in Nat, NEW f, IsPowers(f, base, n)
    PROVE  /\ f[0] = 1
           /\ \A k \in 0 .. n : f[k] \in Nat \ {0}
           /\ \A k \in 1 .. n : f[k] = base * f[k - 1]
<1>1. f[0] = 1 /\ \A k \in 1 .. n : f[k] = base * f[k - 1]
  BY DEF IsPowers
<1> DEFINE S == {k \in Nat : k <= n => f[k] \in Nat \ {0}}
<1>2. 0 \in S
  BY <1>1
<1>3. ASSUME NEW k \in Nat, k \in S PROVE k + 1 \in S
  <2> SUFFICES ASSUME k + 1 <= n PROVE f[k + 1] \in Nat \ {0}
    OBVIOUS
  <2>1. f[k + 1] = base * f[k] /\ f[k] \in Nat \ {0}
    BY <1>1, <1>3
  <2> QED
    BY <2>1
<1> HIDE DEF S
<1>4. \A k \in Nat : k \in S
  BY <1>2, <1>3, NatInd
<1>5. \A k \in 0 .. n : f[k] \in Nat \ {0}
  BY <1>4 DEF S
<1> QED
  BY <1>1, <1>5

\* Multiples of a positive number are at least that number apart.
LEMMA MultiplesApart ==
    ASSUME NEW a \in Nat \ {0}, NEW j \in Int, NEW k \in Int, a * j < a * k + a
    PROVE  j <= k
  <1> SUFFICES ASSUME j >= k + 1 PROVE FALSE
    OBVIOUS
  <1>1. a * j >= a * (k + 1)
    OBVIOUS
  <1>2. a * (k + 1) = a * k + a
    OBVIOUS
  <1> QED BY <1>1, <1>2

\* Quotient and remainder are the only ones there are.
LEMMA Euclid ==
    ASSUME NEW m \in Nat \ {0}, NEW q \in Int, NEW r \in 0 .. m - 1, NEW v, v = m * q + r
    PROVE  v \div m = q /\ v % m = r
<1> DEFINE p == v \div m
           s == v % m
           a == m * p
           b == m * q
<1>1. b \in Int /\ v \in Int /\ v = b + r
  OBVIOUS
<1>2. p \in Int /\ s \in 0 .. m - 1 /\ v = a + s
  BY <1>1
<1>3. a \in Int
  BY <1>2
<1>4. a < b + m /\ b < a + m
  <2> HIDE DEF a, b, p, s
  <2> QED
    BY <1>1, <1>2, <1>3
<1>5. p <= q /\ q <= p
  <2>1. m * p < m * q + m /\ m * q < m * p + m
    BY <1>4
  <2> HIDE DEF p
  <2> QED
    BY <1>2, <2>1, MultiplesApart
<1>6. p = q
  BY <1>2, <1>5
<1>7. a = b
  BY <1>6
<1> HIDE DEF a, b, p, s
<1>8. s = r
  BY <1>1, <1>2, <1>3, <1>7
<1> QED
  BY <1>6, <1>8 DEF p, s

\* A multiple of the modulus changes no remainder.
LEMMA WholeTurns ==
    ASSUME NEW w \in Nat \ {0}, NEW k \in Int, NEW x \in Int, NEW m, m = w * k
    PROVE  (m + x) % w = x % w
<1> DEFINE p == x \div w
           r == x % w
           s == m + x
<1>1. p \in Int /\ r \in 0 .. w - 1 /\ x = w * p + r /\ m \in Int
  OBVIOUS
<1> HIDE DEF p, r
<1>2. w * (k + p) = m + w * p
  BY <1>1
<1> DEFINE t == w * p
           u == w * (k + p)
<1>3. u = m + t /\ x = t + r /\ t \in Int /\ u \in Int
  BY <1>1, <1>2
<1> HIDE DEF t
<1>4. s = u + r
  BY <1>1, <1>3
<1> DEFINE q == k + p
<1>5. q \in Int /\ s = w * q + r
  BY <1>1, <1>4
<1> HIDE DEF q, s
<1>6. s % w = r
  BY <1>1, <1>5, Euclid
<1> QED
  BY <1>6 DEF r, s

\* A remainder may be taken before a sum or after it.
LEMMA RemainderAdds ==
    ASSUME NEW w \in Nat \ {0}, NEW a \in Int, NEW b \in Int
    PROVE  ((a % w) + b) % w = (a + b) % w
<1> DEFINE q == a \div w
           r == a % w
           m == w * q
           x == r + b
<1>1. q \in Int /\ r \in Int /\ a = m + r /\ m \in Int /\ m = w * q
  OBVIOUS
<1> HIDE DEF q, r
<1>2. x \in Int
  BY <1>1
<1>3. a + b = m + x
  BY <1>1
<1> HIDE DEF m, x
<1>4. q \in Int /\ x \in Int /\ m = w * q
  BY <1>1, <1>2
<1>5. (m + x) % w = x % w
  BY <1>4, WholeTurns, Zenon
<1> QED
  BY <1>3, <1>5 DEF r, x

-----------------------------------------------------------------------------
(* Sequences, element by element.                                           *)

LEMMA SameSequence ==
    ASSUME NEW S, NEW T, NEW s \in Seq(S), NEW t \in Seq(T), Len(s) = Len(t),
           \A i \in 1 .. Len(t) : s[i] = t[i]
    PROVE  s = t
<1>1. s = [i \in 1 .. Len(t) |-> s[i]] /\ t = [i \in 1 .. Len(t) |-> t[i]]
  OBVIOUS
<1> QED
  BY <1>1

LEMMA PartIs ==
    ASSUME NEW S, NEW s \in Seq(S), NEW a \in Nat, NEW z \in Nat, a <= z, z <= Len(s),
           NEW t, t = SubSeq(s, a + 1, z)
    PROVE  t \in Seq(S) /\ Len(t) = z - a /\ \A i \in 1 .. z - a : t[i] = s[a + i]
  OBVIOUS

\* Equal elements have equal parts.
LEMMA SamePart ==
    ASSUME NEW S, NEW old \in Seq(S), NEW new \in Seq(S), NEW n \in Nat,
           n <= Len(old), n <= Len(new), \A i \in 1 .. n : new[i] = old[i],
           NEW a \in Nat, NEW z \in Nat, a <= z, z <= n
    PROVE  SubSeq(new, a + 1, z) = SubSeq(old, a + 1, z)
<1> DEFINE s == SubSeq(new, a + 1, z)
           t == SubSeq(old, a + 1, z)
<1>0. Len(old) \in Nat /\ Len(new) \in Nat
  OBVIOUS
<1>1. s \in Seq(S) /\ Len(s) = z - a /\ \A i \in 1 .. z - a : s[i] = new[a + i]
  BY <1>0, PartIs
<1>2. t \in Seq(S) /\ Len(t) = z - a /\ \A i \in 1 .. z - a : t[i] = old[a + i]
  BY <1>0, PartIs
<1>3. \A i \in 1 .. z - a : a + i \in 1 .. n
  OBVIOUS
<1> HIDE DEF s, t
<1>4. s = t
  BY <1>1, <1>2, <1>3, SameSequence
<1> QED
  BY <1>4 DEF s, t

LEMMA JoinedIs ==
    ASSUME NEW S, NEW s \in Seq(S), NEW t \in Seq(S), NEW n \in Nat, NEW k \in Nat,
           Len(s) = n, Len(t) = k, NEW u, u = s \o t
    PROVE  /\ u \in Seq(S) /\ Len(u) = n + k
           /\ \A i \in 1 .. n : u[i] = s[i]
           /\ \A i \in n + 1 .. n + k : u[i] = t[i - n]
<1>1. /\ u \in Seq(S) /\ Len(u) = n + k
      /\ \A i \in 1 .. n + k : u[i] = IF i <= n THEN s[i] ELSE t[i - n]
  <2>1. /\ s \o t \in Seq(S) /\ Len(s \o t) = Len(s) + Len(t)
        /\ \A i \in 1 .. Len(s) + Len(t) :
              (s \o t)[i] = IF i <= Len(s) THEN s[i] ELSE t[i - Len(s)]
    BY ConcatProperties
  <2> QED
    BY <2>1
<1>2. /\ \A i \in 1 .. n : i \in 1 .. n + k /\ i <= n
      /\ \A i \in n + 1 .. n + k : i \in 1 .. n + k /\ ~ (i <= n)
  OBVIOUS
<1> QED
  BY <1>1, <1>2

\* Names for the provers to match: a sequence and its length, a concatenation, and what
\* one sequence behind another looks like.
Row(S, s, n) == s \in Seq(S) /\ Len(s) = n
Joined(s, t) == s \o t
Follows(u, s, n, t, k) ==
    /\ \A i \in 1 .. n : u[i] = s[i]
    /\ \A i \in 1 .. k : u[n + i] = t[i]

LEMMA JoinedBehind ==
    ASSUME NEW S, NEW s, NEW t, NEW n \in Nat, NEW k \in Nat, Row(S, s, n), Row(S, t, k)
    PROVE  Row(S, Joined(s, t), n + k) /\ Follows(Joined(s, t), s, n, t, k)
<1> DEFINE u == s \o t
<1>1. /\ u \in Seq(S) /\ Len(u) = n + k
      /\ \A i \in 1 .. n + k : u[i] = IF i <= n THEN s[i] ELSE t[i - n]
  <2>1. s \in Seq(S) /\ t \in Seq(S) /\ Len(s) = n /\ Len(t) = k
    BY DEF Row
  <2>2. /\ s \o t \in Seq(S) /\ Len(s \o t) = Len(s) + Len(t)
        /\ \A i \in 1 .. Len(s) + Len(t) :
              (s \o t)[i] = IF i <= Len(s) THEN s[i] ELSE t[i - Len(s)]
    BY <2>1, ConcatProperties
  <2> QED
    BY <2>1, <2>2
<1>2. u = Joined(s, t)
  BY DEF Joined
<1> HIDE DEF u
<1>3. /\ \A i \in 1 .. n : i \in 1 .. n + k /\ i <= n
      /\ \A i \in 1 .. k : n + i \in 1 .. n + k /\ ~ (n + i <= n) /\ (n + i) - n = i
  OBVIOUS
<1>4. Follows(u, s, n, t, k)
  BY <1>1, <1>3 DEF Follows
<1> QED
  BY <1>1, <1>2, <1>4 DEF Row

\* Four sequences, one behind the other.
FollowEachOther(z, s, a, t, b, u, c, v, d) ==
    /\ \A i \in 1 .. a : z[i] = s[i]
    /\ \A i \in 1 .. b : z[a + i] = t[i]
    /\ \A i \in 1 .. c : z[a + b + i] = u[i]
    /\ \A i \in 1 .. d : z[a + b + c + i] = v[i]

LEMMA FourJoined ==
    ASSUME NEW S, NEW s, NEW t, NEW u, NEW v,
           NEW a \in Nat, NEW b \in Nat, NEW c \in Nat, NEW d \in Nat,
           Row(S, s, a), Row(S, t, b), Row(S, u, c), Row(S, v, d)
    PROVE  /\ Row(S, Joined(Joined(Joined(s, t), u), v), a + b + c + d)
           /\ FollowEachOther(Joined(Joined(Joined(s, t), u), v), s, a, t, b, u, c, v, d)
<1> DEFINE z == Joined(Joined(Joined(s, t), u), v)
           x == Joined(s, t)
           y == Joined(x, u)
           ab == a + b
           abc == ab + c
<1>1. Row(S, x, ab) /\ Follows(x, s, a, t, b)
  BY JoinedBehind
<1>2. ab \in Nat /\ abc \in Nat
  OBVIOUS
<1> HIDE DEF x, ab
<1>3. Row(S, y, abc) /\ Follows(y, x, ab, u, c)
  BY <1>1, <1>2, JoinedBehind
<1>4. z = Joined(y, v)
  BY DEF x
<1> HIDE DEF y, abc, z
<1>5. Row(S, z, abc + d) /\ Follows(z, y, abc, v, d)
  BY <1>2, <1>3, <1>4, JoinedBehind
<1>6. /\ \A i \in 1 .. a : i \in 1 .. ab /\ i \in 1 .. abc
      /\ \A i \in 1 .. b : a + i \in 1 .. ab /\ a + i \in 1 .. abc
      /\ \A i \in 1 .. c : ab + i \in 1 .. abc
  BY DEF ab, abc
<1>7. /\ \A i \in 1 .. a : x[i] = s[i] /\ y[i] = x[i] /\ z[i] = y[i]
      /\ \A i \in 1 .. b : x[a + i] = t[i] /\ y[a + i] = x[a + i] /\ z[a + i] = y[a + i]
      /\ \A i \in 1 .. c : y[ab + i] = u[i] /\ z[ab + i] = y[ab + i]
      /\ \A i \in 1 .. d : z[abc + i] = v[i]
  BY <1>1, <1>3, <1>5, <1>6, Zenon DEF Follows
<1>8. /\ \A i \in 1 .. a : z[i] = s[i]
      /\ \A i \in 1 .. b : z[a + i] = t[i]
      /\ \A i \in 1 .. c : z[ab + i] = u[i]
  BY <1>7, Zenon
<1> QED
  BY <1>5, <1>7, <1>8, Zenon DEF ab, abc, z, FollowEachOther

-----------------------------------------------------------------------------
(* The checked operations.                                                  *)


LEMMA SmallRemainder ==
    ASSUME NEW x \in Nat, NEW n \in Nat, x < n PROVE x % n = x
  OBVIOUS

\* A cast does not change what the type can represent.
LEMMA WrapsNothing ==
    ASSUME NEW type \in IntegerTypes, NEW value \in Values(type)
    PROVE  Wrapped(value, type) = value
  <1>1. type.least \in Int /\ type.most \in Int /\ type.least <= type.most
    BY DEF IntegerTypes, Unsigned, Signed
  <1>2. value - type.least \in Nat /\ type.most - type.least + 1 \in Nat
        /\ value - type.least < type.most - type.least + 1
    BY <1>1 DEF Values
  <1>3. (value - type.least) % (type.most - type.least + 1) = value - type.least
    BY <1>2, SmallRemainder
  <1>4. value \in Int
    BY <1>1 DEF Values
  <1> QED BY <1>1, <1>3, <1>4 DEF Wrapped

\* The test by division is the test of the product.
LEMMA DivisionTest ==
    ASSUME NEW a \in Nat, NEW b \in Nat \ {0}, NEW m \in Nat
    PROVE  a > m \div b <=> a * b > m
  <1> DEFINE q == m \div b
             r == m % b
  <1>1. q \in Nat /\ r \in Nat /\ r < b /\ m = b * q + r
    OBVIOUS
  <1> HIDE DEF q, r
  <1>2. CASE a > q
    <2>1. a >= q + 1 BY <1>1, <1>2
    <2>2. a * b >= (q + 1) * b BY <1>1, <2>1
    <2> QED BY <1>1, <1>2, <2>2 DEF q
  <1>3. CASE a <= q
    <2>1. a * b <= q * b BY <1>1, <1>3
    <2> QED BY <1>1, <1>3, <2>1 DEF q
  <1> QED BY <1>1, <1>2, <1>3

\* checked_add returns the sum if it is a value of the type, and nothing otherwise.
THEOREM AddIsExact ==
    ASSUME NEW type \in IntegerTypes, NEW lhs \in Values(type), NEW rhs \in Values(type)
    PROVE  CheckedAdd(lhs, rhs, type) = {lhs + rhs} \cap Values(type)
  <1>1. AddOverflows(lhs, rhs, type) <=> lhs + rhs \notin Values(type)
    BY DEF AddOverflows, Values, IntegerTypes, Unsigned, Signed
  <1>2. CASE lhs + rhs \in Values(type)
    BY <1>1, <1>2, WrapsNothing DEF CheckedAdd
  <1>3. CASE lhs + rhs \notin Values(type)
    BY <1>1, <1>3 DEF CheckedAdd
  <1> QED BY <1>2, <1>3

\* checked_sub likewise.
THEOREM SubIsExact ==
    ASSUME NEW type \in IntegerTypes, NEW lhs \in Values(type), NEW rhs \in Values(type)
    PROVE  CheckedSub(lhs, rhs, type) = {lhs - rhs} \cap Values(type)
  <1>1. SubOverflows(lhs, rhs, type) <=> lhs - rhs \notin Values(type)
    BY DEF SubOverflows, Values, IntegerTypes, Unsigned, Signed
  <1>2. CASE lhs - rhs \in Values(type)
    BY <1>1, <1>2, WrapsNothing DEF CheckedSub
  <1>3. CASE lhs - rhs \notin Values(type)
    BY <1>1, <1>3 DEF CheckedSub
  <1> QED BY <1>2, <1>3

\* What the tests of checked_mul compare, by the signs of the factors.
LEMMA QuotientBySigns ==
    ASSUME NEW a \in Nat \ {0}, NEW b \in Nat \ {0}
    PROVE  /\ Quotient(a, b) = a \div b /\ Quotient(-a, b) = -(a \div b)
           /\ Quotient(a, -b) = -(a \div b) /\ Quotient(-a, -b) = a \div b
  BY DEF Quotient

LEMMA ZeroQuotient ==
    ASSUME NEW b \in Nat \ {0}
    PROVE  Quotient(0, b) = 0 /\ Quotient(0, -b) = 0
  <1>1. 0 \div b = 0 OBVIOUS
  <1> QED BY <1>1 DEF Quotient

\* The signed test in terms of magnitudes: a product of equal signs must not exceed
\* the greatest value, one of opposite signs not fall below the least.
LEMMA SignedMulTest ==
    ASSUME NEW n \in Nat, NEW a \in Nat \ {0}, NEW b \in Nat \ {0}
    PROVE  /\ MulOverflows(a, b, Signed(n)) <=> a * b > n
           /\ MulOverflows(-a, -b, Signed(n)) <=> a * b > n
           /\ MulOverflows(a, -b, Signed(n)) <=> a * b > n + 1
           /\ MulOverflows(-a, b, Signed(n)) <=> a * b > n + 1
  <1> DEFINE qa == n \div a
             qb == n \div b
             sa == (n + 1) \div a
             sb == (n + 1) \div b
  <1>1. qa \in Int /\ qb \in Int /\ sa \in Int /\ sb \in Int
    OBVIOUS
  <1>2. Quotient(n, b) = qb /\ Quotient(n, -b) = -qb
    <2>1. CASE n = 0
      <3>1. qb = 0 BY <2>1
      <3> QED BY <2>1, <3>1, ZeroQuotient
    <2>2. CASE n # 0
      BY <2>2, QuotientBySigns
    <2> QED BY <2>1, <2>2
  <1>3. Quotient(-(n + 1), a) = -sa /\ Quotient(-(n + 1), b) = -sb
    <2>1. n + 1 \in Nat \ {0}
      OBVIOUS
    <2> QED BY <2>1, QuotientBySigns
  <1>4. (a > qb <=> a * b > n) /\ (a > sb <=> a * b > n + 1) /\ (b > sa <=> b * a > n + 1)
    BY DivisionTest
  <1>5. a * b = b * a /\ a * b \in Nat
    OBVIOUS
  <1> HIDE DEF qa, qb, sa, sb
  <1>6. Signed(n).least = -(n + 1) /\ Signed(n).most = n
    BY DEF Signed
  <1> QED BY <1>1, <1>2, <1>3, <1>4, <1>5, <1>6 DEF MulOverflows

\* checked_mul likewise.
THEOREM MulIsExact ==
    ASSUME NEW type \in IntegerTypes, NEW lhs \in Values(type), NEW rhs \in Values(type)
    PROVE  CheckedMul(lhs, rhs, type) = {lhs * rhs} \cap Values(type)
  <1>1. lhs \in Int /\ rhs \in Int /\ lhs * rhs \in Int
    BY DEF Values, IntegerTypes, Unsigned, Signed
  <1>2. MulOverflows(lhs, rhs, type) <=> lhs * rhs \notin Values(type)
    <2>1. CASE \E n \in Nat : type = Unsigned(n)
      <3>1. PICK n \in Nat : type = Unsigned(n) BY <2>1
      <3>2. type.least = 0 /\ type.most = n /\ lhs \in Nat /\ rhs \in Nat
        BY <3>1 DEF Unsigned, Values
      <3>3. CASE lhs = 0
        BY <3>2, <3>3 DEF MulOverflows, Values
      <3>4. CASE lhs # 0
        <4>1. Quotient(n, lhs) = n \div lhs
          BY <3>2, <3>4 DEF Quotient
        <4>2. rhs > n \div lhs <=> rhs * lhs > n
          BY <3>2, <3>4, DivisionTest
        <4>3. rhs * lhs = lhs * rhs /\ lhs * rhs \in Nat
          BY <3>2
        <4> QED BY <3>2, <3>4, <4>1, <4>2, <4>3 DEF MulOverflows, Values
      <3> QED BY <3>3, <3>4
    <2>2. CASE \E n \in Nat : type = Signed(n)
      <3>1. PICK n \in Nat : type = Signed(n) BY <2>2
      <3>2. type.least = -n - 1 /\ type.most = n
        BY <3>1 DEF Signed
      <3>3. CASE lhs = 0 \/ rhs = 0
        <4>1. lhs * rhs = 0 BY <1>1, <3>3
        <4> QED BY <3>2, <3>3, <4>1 DEF MulOverflows, Values
      <3>4. CASE lhs > 0 /\ rhs > 0
        <4>1. lhs * rhs >= 0 BY <1>1, <3>4
        <4> QED BY <1>1, <3>1, <3>2, <3>4, <4>1, SignedMulTest DEF Values
      <3>5. CASE lhs > 0 /\ rhs < 0
        <4>1. (-rhs) \in Nat \ {0} /\ -(-rhs) = rhs BY <1>1, <3>5
        <4>2. MulOverflows(lhs, rhs, type) <=> lhs * (-rhs) > n + 1
          BY <1>1, <3>1, <3>5, <4>1, SignedMulTest
        <4>3. lhs * (-rhs) = -(lhs * rhs) /\ lhs * (-rhs) >= 0
          BY <1>1, <3>5
        <4> QED BY <1>1, <3>2, <4>2, <4>3 DEF Values
      <3>6. CASE lhs < 0 /\ rhs > 0
        <4>1. (-lhs) \in Nat \ {0} /\ -(-lhs) = lhs BY <1>1, <3>6
        <4>2. MulOverflows(lhs, rhs, type) <=> (-lhs) * rhs > n + 1
          BY <1>1, <3>1, <3>6, <4>1, SignedMulTest
        <4>3. (-lhs) * rhs = -(lhs * rhs) /\ (-lhs) * rhs >= 0
          BY <1>1, <3>6
        <4> QED BY <1>1, <3>2, <4>2, <4>3 DEF Values
      <3>7. CASE lhs < 0 /\ rhs < 0
        <4>1. (-lhs) \in Nat \ {0} /\ -(-lhs) = lhs /\ (-rhs) \in Nat \ {0} /\ -(-rhs) = rhs
          BY <1>1, <3>7
        <4>2. MulOverflows(lhs, rhs, type) <=> (-lhs) * (-rhs) > n
          BY <3>1, <4>1, SignedMulTest
        <4>3. (-lhs) * (-rhs) = lhs * rhs /\ (-lhs) * (-rhs) >= 0
          BY <1>1, <3>7
        <4> QED BY <1>1, <3>2, <4>2, <4>3 DEF Values
      <3> QED BY <1>1, <3>3, <3>4, <3>5, <3>6, <3>7
    <2> QED BY <2>1, <2>2 DEF IntegerTypes
  <1>3. CASE lhs * rhs \in Values(type)
    BY <1>2, <1>3, WrapsNothing DEF CheckedMul
  <1>4. CASE lhs * rhs \notin Values(type)
    BY <1>2, <1>4 DEF CheckedMul
  <1> QED BY <1>3, <1>4

\* checked_align_up returns the least multiple of the alignment that is not below the
\* value, if the type has it; an alignment is a power of two, so it divides the number
\* of values of the type.
THEOREM AlignUpIsExact ==
    ASSUME NEW most \in Nat, NEW alignment \in Nat \ {0}, IsAligned(most + 1, alignment),
           NEW value \in 0 .. most
    PROVE  CheckedAlignUp(value, alignment, Unsigned(most))
               = {m \in value .. most : IsAligned(m, alignment) /\ m < value + alignment}
  <1> DEFINE raised == value + alignment - 1
             q == raised \div alignment
             r == raised % alignment
             up == AlignDown(value + (alignment - 1), alignment)
             all == (most + 1) \div alignment
  <1>1. raised \in Nat /\ q \in Int /\ r \in 0 .. alignment - 1 /\ raised = alignment * q + r
    OBVIOUS
  <1>2. up = alignment * q
    BY <1>1 DEF AlignDown
  <1>3. all \in Int /\ most + 1 = alignment * all
    BY DEF IsAligned
  <1>4. up \in Int /\ value <= up /\ up < value + alignment
    BY <1>1, <1>2
  <1>5. IsAligned(up, alignment)
    BY <1>1, <1>2 DEF IsAligned
  <1>6. ASSUME NEW m \in value .. most, IsAligned(m, alignment), m < value + alignment
        PROVE  m = up
    <2> DEFINE k == m \div alignment
    <2>1. k \in Int /\ m = alignment * k
      BY <1>6 DEF IsAligned
    <2> HIDE DEF k, q, r, up
    <2>2. k <= q
      BY <1>1, <1>2, <1>4, <1>6, <2>1, MultiplesApart
    <2>3. q <= k
      BY <1>1, <1>2, <1>4, <1>6, <2>1, MultiplesApart
    <2> QED BY <1>1, <1>2, <2>1, <2>2, <2>3
  <1>7. CASE value > most - (alignment - 1)
    <2>1. CheckedAlignUp(value, alignment, Unsigned(most)) = {}
      BY <1>7 DEF CheckedAlignUp, Unsigned
    <2>2. ASSUME up <= most PROVE FALSE
      <3> HIDE DEF all, q, r, up
      <3>1. alignment * all < alignment * q + alignment
        BY <1>2, <1>3, <1>4, <1>7
      <3>2. all <= q
        BY <1>1, <1>3, <3>1, MultiplesApart
      <3>3. alignment * all <= alignment * q
        BY <1>1, <1>3, <3>2
      <3> QED BY <1>2, <1>3, <2>2, <3>3
    <2> HIDE DEF up
    <2> QED BY <1>6, <2>1, <2>2
  <1>8. CASE value <= most - (alignment - 1)
    <2>1. CheckedAlignUp(value, alignment, Unsigned(most)) = {up}
      BY <1>8 DEF CheckedAlignUp, Unsigned
    <2>2. up \in value .. most
      BY <1>4, <1>8
    <2> HIDE DEF up
    <2> QED BY <1>4, <1>5, <1>6, <2>1, <2>2
  <1> QED BY <1>7, <1>8
=============================================================================
