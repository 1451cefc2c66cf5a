----------------------------- MODULE ListLemmas -----------------------------
(***************************************************************************)
(* Least and greatest elements, sums over finite sets as the library       *)
(* defines them (MapThenSumSet, Min, Max), and what the operators of Lists *)
(* return.  The induction is over numbers: of those for which a fact fails *)
(* the least is taken, and it fails for a smaller one as well.             *)
(***************************************************************************)
EXTENDS Lists, FiniteSetsExt, FiniteSetTheorems, SequenceTheorems, WellFoundedInduction, TLAPS

\* Every set of naturals that is not empty has a least element.
LEMMA LeastNat ==
  ASSUME NEW S \in SUBSET Nat, S # {}
  PROVE  \E m \in S : \A n \in S : m <= n
  <1>1. IsWellFoundedOn(OpToRel(<, Nat), Nat)
    BY NatLessThanWellFounded
  <1>2. PICK m \in S : \A y \in Nat : <<y, m>> \in OpToRel(<, Nat) => y \notin S
    BY <1>1, WFMin
  <1>3. \A n \in S : ~(n < m)
    BY <1>2 DEF OpToRel
  <1> QED BY <1>3

\* The element the library's folds take first.
FirstOf(s) == CHOOSE x \in s : TRUE

\* The recursive function of the library's MapThenSumSet for w, over the sets in D.
IsFold(it, D, w) == it = [s \in D |-> IF s = {} THEN 0 ELSE w[FirstOf(s)] + it[s \ {FirstOf(s)}]]

\* Subsets of at most n elements.
UpTo(S, n) == {s \in SUBSET S : Cardinality(s) <= n}

\* The recursion is well founded: there is such a function.
LEMMA FoldExists ==
  ASSUME NEW S, IsFiniteSet(S), NEW w
  PROVE  \E it : IsFold(it, SUBSET S, w)
  <1> DEFINE Bad == {n \in Nat : ~ \E it : IsFold(it, UpTo(S, n), w)}
  <1>0. \A s \in SUBSET S : IsFiniteSet(s) /\ Cardinality(s) \in Nat /\ Cardinality(s) <= Cardinality(S)
    BY FS_Subset, FS_CardinalityType
  <1>1. Bad = {}
    <2> SUFFICES ASSUME Bad # {} PROVE FALSE
      OBVIOUS
    <2>1. PICK n \in Bad : \A k \in Bad : n <= k
      <3> Bad \in SUBSET Nat
        OBVIOUS
      <3> HIDE DEF Bad
      <3> QED BY LeastNat
    <2>2. \A s \in UpTo(S, 0) : s = {}
      BY <1>0, FS_EmptySet DEF UpTo
    <2>3. CASE n = 0
      <3> DEFINE g == [s \in UpTo(S, 0) |-> 0]
      <3>1. IsFold(g, UpTo(S, 0), w)
        BY <2>2 DEF IsFold
      <3> QED BY <3>1, <2>3
    <2>4. CASE n # 0
      <3>1. n - 1 \in Nat /\ n - 1 \notin Bad
        BY <2>1, <2>4
      <3>2. PICK f : IsFold(f, UpTo(S, n - 1), w)
        BY <3>1
      <3> DEFINE g == [s \in UpTo(S, n) |-> IF s = {} THEN 0 ELSE w[FirstOf(s)] + f[s \ {FirstOf(s)}]]
      <3>3. ASSUME NEW s \in UpTo(S, n), s # {} PROVE s \ {FirstOf(s)} \in UpTo(S, n - 1)
        <4>1. FirstOf(s) \in s
          BY <3>3 DEF FirstOf
        <4>2. s \in SUBSET S /\ s \ {FirstOf(s)} \in SUBSET S
          BY DEF UpTo
        <4>3. Cardinality(s \ {FirstOf(s)}) = Cardinality(s) - 1
          BY <4>1, <4>2, <1>0, FS_RemoveElement
        <4>4. Cardinality(s) \in Nat /\ Cardinality(s) <= n
          BY <4>2, <1>0 DEF UpTo
        <4> QED BY <4>2, <4>3, <4>4, <2>1 DEF UpTo
      <3>4. ASSUME NEW u \in UpTo(S, n - 1) PROVE g[u] = f[u]
        <4>1. u \in UpTo(S, n)
          BY <1>0, <2>1 DEF UpTo
        <4>2. f[u] = IF u = {} THEN 0 ELSE w[FirstOf(u)] + f[u \ {FirstOf(u)}]
          BY <3>2 DEF IsFold
        <4> QED BY <4>1, <4>2
      <3>5. IsFold(g, UpTo(S, n), w)
        <4>1. \A s \in UpTo(S, n) : (IF s = {} THEN 0 ELSE w[FirstOf(s)] + f[s \ {FirstOf(s)}])
                                  = (IF s = {} THEN 0 ELSE w[FirstOf(s)] + g[s \ {FirstOf(s)}])
          BY <3>3, <3>4
        <4>2. g = [s \in UpTo(S, n) |-> IF s = {} THEN 0 ELSE w[FirstOf(s)] + f[s \ {FirstOf(s)}]]
          OBVIOUS
        <4> HIDE DEF g
        <4> QED BY <4>1, <4>2 DEF IsFold
      <3> QED BY <3>5
    <2> QED BY <2>1, <2>3, <2>4
  <1>2. Cardinality(S) \in Nat
    BY FS_CardinalityType
  <1>3. UpTo(S, Cardinality(S)) = SUBSET S
    BY <1>0, <1>2 DEF UpTo
  <1>4. \E it : IsFold(it, UpTo(S, Cardinality(S)), w)
    BY <1>1, <1>2
  <1> QED BY <1>3, <1>4

\* A sum of naturals is a natural.
LEMMA FoldIsNat ==
  ASSUME NEW S, IsFiniteSet(S), NEW w, \A x \in S : w[x] \in Nat,
         NEW it, IsFold(it, SUBSET S, w)
  PROVE  it[S] \in Nat
  <1> DEFINE Bad == {n \in Nat : \E s \in SUBSET S : Cardinality(s) = n /\ it[s] \notin Nat}
  <1>0. \A s \in SUBSET S : IsFiniteSet(s) /\ Cardinality(s) \in Nat
    BY FS_Subset, FS_CardinalityType
  <1>1. Bad = {}
    <2> SUFFICES ASSUME Bad # {} PROVE FALSE
      OBVIOUS
    <2>1. PICK n \in Bad : \A k \in Bad : n <= k
      <3> Bad \in SUBSET Nat
        OBVIOUS
      <3> HIDE DEF Bad
      <3> QED BY LeastNat
    <2>2. PICK s \in SUBSET S : Cardinality(s) = n /\ it[s] \notin Nat
      BY <2>1
    <2>3. it[s] = IF s = {} THEN 0 ELSE w[FirstOf(s)] + it[s \ {FirstOf(s)}]
      BY DEF IsFold
    <2>4. s # {}
      BY <2>2, <2>3
    <2>5. FirstOf(s) \in s /\ FirstOf(s) \in S
      BY <2>4 DEF FirstOf
    <2> DEFINE u == s \ {FirstOf(s)}
    <2>6. u \in SUBSET S /\ Cardinality(u) = n - 1 /\ n - 1 \in Nat
      <3>1. Cardinality(s \ {FirstOf(s)}) = Cardinality(s) - 1
        BY <2>5, <1>0, FS_RemoveElement
      <3> QED BY <3>1, <2>2, <1>0
    <2>7. it[u] \in Nat
      BY <2>1, <2>6
    <2> QED BY <2>2, <2>3, <2>4, <2>5, <2>7
  <1> QED BY <1>1, <1>0

\* Every finite set of naturals that is not empty has a greatest element.
LEMMA FiniteHasGreatest ==
  ASSUME NEW S \in SUBSET Nat, IsFiniteSet(S), S # {}
  PROVE  \E m \in S : \A n \in S : n <= m
  <1> DEFINE HasGreatest(s) == \E m \in s : \A n \in s : n <= m
             Bad == {n \in Nat : \E s \in SUBSET S : s # {} /\ Cardinality(s) = n /\ ~HasGreatest(s)}
  <1>0. \A s \in SUBSET S : IsFiniteSet(s) /\ Cardinality(s) \in Nat
    BY FS_Subset, FS_CardinalityType
  <1>1. Bad = {}
    <2> SUFFICES ASSUME Bad # {} PROVE FALSE
      OBVIOUS
    <2>1. PICK n \in Bad : \A k \in Bad : n <= k
      <3> Bad \in SUBSET Nat
        OBVIOUS
      <3> HIDE DEF Bad
      <3> QED BY LeastNat
    <2>2. PICK s \in SUBSET S : s # {} /\ Cardinality(s) = n /\ ~HasGreatest(s)
      BY <2>1
    <2>3. PICK x \in s : TRUE
      BY <2>2
    <2> DEFINE u == s \ {x}
    <2>4. u \in SUBSET S /\ Cardinality(u) = n - 1 /\ n - 1 \in Nat
      <3>1. Cardinality(s \ {x}) = Cardinality(s) - 1
        BY <2>3, <1>0, FS_RemoveElement
      <3> QED BY <3>1, <2>2, <1>0
    <2>5. CASE u = {}
      <3>1. \A y \in s : y = x
        BY <2>5
      <3> QED BY <2>2, <2>3, <3>1
    <2>6. CASE u # {}
      <3>1. n - 1 \notin Bad
        BY <2>1, <2>4
      <3>2. HasGreatest(u)
        BY <3>1, <2>4, <2>6
      <3>3. PICK m \in u : \A y \in u : y <= m
        BY <3>2
      <3>4. CASE m <= x
        <4>1. \A y \in s : y <= x
          BY <3>3, <3>4
        <4> QED BY <4>1, <2>2, <2>3
      <3>5. CASE ~(m <= x)
        <4>1. \A y \in s : y <= m
          BY <3>3, <3>5
        <4> QED BY <4>1, <2>2, <3>3
      <3> QED BY <3>4, <3>5
    <2> QED BY <2>5, <2>6
  <1>2. Cardinality(S) \in Nat /\ Cardinality(S) \notin Bad
    BY <1>0, <1>1
  <1>3. HasGreatest(S)
    BY <1>2
  <1> QED BY <1>3

\* What the library's Min and Max choose.
LEMMA MinIsLeast ==
  ASSUME NEW S \in SUBSET Nat, S # {}
  PROVE  Min(S) \in S /\ \A n \in S : Min(S) <= n
  BY LeastNat DEF Min

\* A finite non-empty set of naturals has its Max among its elements.
LEMMA MaxIsGreatest ==
  ASSUME NEW S \in SUBSET Nat, IsFiniteSet(S), S # {}
  PROVE  Max(S) \in S /\ \A n \in S : n <= Max(S)
  BY FiniteHasGreatest DEF Max

\* What std::cmp::min of two numbers is.
LEMMA MinOfTwo ==
  ASSUME NEW a \in Int, NEW b \in Int
  PROVE  Min({a, b}) \in {a, b} /\ Min({a, b}) <= a /\ Min({a, b}) <= b
  BY DEF Min

\* What std::cmp::max of two numbers is.
LEMMA MaxOfTwo ==
  ASSUME NEW a \in Int, NEW b \in Int
  PROVE  Max({a, b}) \in {a, b} /\ a <= Max({a, b}) /\ b <= Max({a, b})
  BY DEF Max
-----------------------------------------------------------------------------
(* Sums do not depend on the order the fold takes.                         *)

\* The sum over each part is a natural number.
LEMMA PartSums ==
  ASSUME NEW S, NEW w, NEW it,
         IsFiniteSet(S), \A x \in S : w[x] \in Nat, IsFold(it, SUBSET S, w)
  PROVE  \A u \in SUBSET S : it[u] \in Nat
  <1> DEFINE Bad == {n \in Nat : \E s \in SUBSET S : Cardinality(s) = n /\ it[s] \notin Nat}
  <1>0. \A s \in SUBSET S : IsFiniteSet(s) /\ Cardinality(s) \in Nat
    BY FS_Subset, FS_CardinalityType
  <1>1. Bad = {}
    <2> SUFFICES ASSUME Bad # {} PROVE FALSE
      OBVIOUS
    <2>1. PICK n \in Bad : \A k \in Bad : n <= k
      <3> Bad \in SUBSET Nat
        OBVIOUS
      <3> HIDE DEF Bad
      <3> QED BY LeastNat
    <2>2. PICK s \in SUBSET S : Cardinality(s) = n /\ it[s] \notin Nat
      BY <2>1
    <2>3. it[s] = IF s = {} THEN 0 ELSE w[FirstOf(s)] + it[s \ {FirstOf(s)}]
      BY DEF IsFold
    <2>4. s # {}
      BY <2>2, <2>3
    <2>5. FirstOf(s) \in s /\ FirstOf(s) \in S
      BY <2>4 DEF FirstOf
    <2> DEFINE u == s \ {FirstOf(s)}
    <2>6. u \in SUBSET S /\ Cardinality(u) = n - 1 /\ n - 1 \in Nat
      <3>1. Cardinality(s \ {FirstOf(s)}) = Cardinality(s) - 1
        BY <2>5, <1>0, FS_RemoveElement
      <3> QED BY <3>1, <2>2, <1>0
    <2>7. it[u] \in Nat
      BY <2>1, <2>6
    <2> QED BY <2>2, <2>3, <2>4, <2>5, <2>7
  <1> QED BY <1>1, <1>0

\* it[u] is the sum of the weights w of the elements of u, in any order.
SumsUp(it, S, w) ==
  it[{}] = 0 /\ \A u \in SUBSET S : \A x \in u : it[u] = w[x] + it[u \ {x}]

\* Any element may be the first.
LEMMA AnyFirst ==
  ASSUME NEW S, NEW w, NEW it,
         IsFiniteSet(S), \A x \in S : w[x] \in Nat, IsFold(it, SUBSET S, w)
  PROVE  SumsUp(it, S, w)
  <1> DEFINE Wrong(s) == \E x \in s : it[s] # w[x] + it[s \ {x}]
             Bad == {n \in Nat : \E s \in SUBSET S : Cardinality(s) = n /\ Wrong(s)}
  <1>0. \A s \in SUBSET S : IsFiniteSet(s) /\ Cardinality(s) \in Nat
    BY FS_Subset, FS_CardinalityType
  <1>1. \A s \in SUBSET S : it[s] \in Nat
    BY PartSums
  <1>2. Bad = {}
    <2> SUFFICES ASSUME Bad # {} PROVE FALSE
      OBVIOUS
    <2>1. PICK n \in Bad : \A k \in Bad : n <= k
      <3> Bad \in SUBSET Nat
        OBVIOUS
      <3> HIDE DEF Bad
      <3> QED BY LeastNat
    <2>2. PICK s \in SUBSET S : Cardinality(s) = n /\ Wrong(s)
      BY <2>1
    <2>3. PICK x \in s : it[s] # w[x] + it[s \ {x}]
      BY <2>2
    <2> DEFINE y == FirstOf(s)
    <2>4. y \in s /\ y \in S /\ x \in S
      BY DEF FirstOf
    <2>5. it[s] = w[y] + it[s \ {y}]
      BY <2>4 DEF IsFold
    <2> HIDE DEF y
    <2>6. x # y
      BY <2>3, <2>5
    <2>7. \A z \in s : s \ {z} \in SUBSET S /\ Cardinality(s \ {z}) = n - 1 /\ n - 1 \in Nat
      <3>1. \A z \in s : Cardinality(s \ {z}) = Cardinality(s) - 1
        BY <1>0, FS_RemoveElement
      <3> QED BY <1>0, <2>2, <3>1
    <2>8. n - 1 \notin Bad
      BY <2>1, <2>7
    <2> HIDE DEF Bad
    <2>9. ~Wrong(s \ {y}) /\ ~Wrong(s \ {x})
      BY <2>4, <2>7, <2>8 DEF Bad
    <2>10. it[s \ {y}] = w[x] + it[(s \ {y}) \ {x}] /\ it[s \ {x}] = w[y] + it[(s \ {x}) \ {y}]
      BY <2>4, <2>6, <2>9
    <2>11. (s \ {y}) \ {x} = (s \ {x}) \ {y} /\ (s \ {x}) \ {y} \in SUBSET S
      OBVIOUS
    <2> DEFINE rest == it[(s \ {x}) \ {y}]
    <2>12. w[x] \in Nat /\ w[y] \in Nat /\ rest \in Nat
      BY <1>1, <2>4, <2>11
    <2>13. it[s \ {y}] = w[x] + rest /\ it[s \ {x}] = w[y] + rest
      BY <2>10, <2>11
    <2> HIDE DEF rest
    <2> QED BY ONLY <2>3, <2>5, <2>12, <2>13
  <1>3. \A s \in SUBSET S : ~Wrong(s)
    BY <1>0, <1>2
  <1>4. it[{}] = 0
    BY DEF IsFold
  <1> QED BY <1>3, <1>4 DEF SumsUp

\* A part sums up to no more than the whole.
LEMMA PartIsLess ==
  ASSUME NEW S, NEW w, NEW it,
         IsFiniteSet(S), \A x \in S : w[x] \in Nat, IsFold(it, SUBSET S, w)
  PROVE  \A u \in SUBSET S : it[u] <= it[S]
  <1> DEFINE Bad == {n \in Nat : \E s \in SUBSET S : Cardinality(S \ s) = n /\ ~(it[s] <= it[S])}
  <1>0. \A s \in SUBSET S : IsFiniteSet(S \ s) /\ Cardinality(S \ s) \in Nat
    <2>1. \A s \in SUBSET S : S \ s \in SUBSET S
      OBVIOUS
    <2> QED BY <2>1, FS_Subset, FS_CardinalityType
  <1>1. \A s \in SUBSET S : it[s] \in Nat
    BY PartSums
  <1>2. Bad = {}
    <2> SUFFICES ASSUME Bad # {} PROVE FALSE
      OBVIOUS
    <2>1. PICK n \in Bad : \A k \in Bad : n <= k
      <3> Bad \in SUBSET Nat
        OBVIOUS
      <3> HIDE DEF Bad
      <3> QED BY LeastNat
    <2>2. PICK s \in SUBSET S : Cardinality(S \ s) = n /\ ~(it[s] <= it[S])
      BY <2>1
    <2>3. s # S
      BY <1>1, <2>2
    <2>4. PICK x \in S \ s : TRUE
      BY <2>3
    <2> DEFINE v == s \union {x}
    <2>5. v \in SUBSET S /\ x \in v /\ v \ {x} = s /\ S \ v = (S \ s) \ {x}
      BY <2>4
    <2>6. Cardinality(S \ v) = n - 1 /\ n - 1 \in Nat
      <3>1. Cardinality((S \ s) \ {x}) = Cardinality(S \ s) - 1
        BY <1>0, <2>4, FS_RemoveElement
      <3> QED BY <1>0, <2>2, <2>5, <3>1
    <2> HIDE DEF v
    <2>7. it[v] <= it[S]
      <3>1. n - 1 \notin Bad
        BY <2>1, <2>6
      <3> QED BY <2>5, <2>6, <3>1
    <2>8. it[v] = w[x] + it[s]
      BY <2>5, AnyFirst DEF SumsUp
    <2>9. w[x] \in Nat /\ it[s] \in Nat /\ it[v] \in Nat /\ it[S] \in Nat
      BY <1>1, <2>4, <2>5
    <2> QED BY <2>2, <2>7, <2>8, <2>9
  <1> QED BY <1>0, <1>2

\* h tells where the weights w of S are among the weights z of T.
Embeds(h, S, w, T, z) ==
  /\ h \in [S -> T]
  /\ \A x, y \in S : x # y => h[x] # h[y]
  /\ \A x \in S : w[x] = z[h[x]]

ImageOf(h, S) == {h[x] : x \in S}

\* The same weights have the same sum, over whatever they are indexed by.
LEMMA SameSum ==
  ASSUME NEW S, NEW w, NEW it, NEW T, NEW z, NEW jt, NEW h,
         IsFiniteSet(S), SumsUp(it, S, w), SumsUp(jt, T, z), Embeds(h, S, w, T, z)
  PROVE  it[S] = jt[ImageOf(h, S)]
  <1>a. /\ h \in [S -> T] /\ \A x, y \in S : x # y => h[x] # h[y]
        /\ \A x \in S : w[x] = z[h[x]]
    BY DEF Embeds
  <1> DEFINE Image(s) == {h[x] : x \in s}
             Bad == {n \in Nat : \E s \in SUBSET S : Cardinality(s) = n /\ it[s] # jt[Image(s)]}
  <1>0. \A s \in SUBSET S : IsFiniteSet(s) /\ Cardinality(s) \in Nat
    BY FS_Subset, FS_CardinalityType
  <1>1. Bad = {}
    <2> SUFFICES ASSUME Bad # {} PROVE FALSE
      OBVIOUS
    <2>1. PICK n \in Bad : \A k \in Bad : n <= k
      <3> Bad \in SUBSET Nat
        OBVIOUS
      <3> HIDE DEF Bad
      <3> QED BY LeastNat
    <2>2. PICK s \in SUBSET S : Cardinality(s) = n /\ it[s] # jt[Image(s)]
      BY <2>1
    <2>3. s # {}
      <3>1. it[{}] = 0 /\ jt[{}] = 0
        BY DEF SumsUp
      <3>2. Image({}) = {}
        OBVIOUS
      <3> QED BY <2>2, <3>1, <3>2
    <2>4. PICK x \in s : TRUE
      BY <2>3
    <2>5. it[s] = w[x] + it[s \ {x}]
      BY <2>4 DEF SumsUp
    <2>6. Image(s) \in SUBSET T /\ h[x] \in Image(s)
      BY <1>a, <2>4
    <2>7. jt[Image(s)] = z[h[x]] + jt[Image(s) \ {h[x]}]
      <3> HIDE DEF Image
      <3> QED BY <2>6 DEF SumsUp
    <2>8. Image(s) \ {h[x]} = Image(s \ {x})
      BY <1>a, <2>4
    <2>9. Cardinality(s \ {x}) = n - 1 /\ n - 1 \in Nat /\ s \ {x} \in SUBSET S
      <3>1. Cardinality(s \ {x}) = Cardinality(s) - 1
        BY <1>0, <2>4, FS_RemoveElement
      <3> QED BY <1>0, <2>2, <3>1
    <2>10. it[s \ {x}] = jt[Image(s \ {x})]
      <3>1. n \in Nat
        OBVIOUS
      <3>2. n - 1 \notin Bad
        <4> HIDE DEF Bad
        <4> QED BY <2>1, <2>9, <3>1
      <3> QED BY <2>9, <3>2
    <2> HIDE DEF Image
    <2> QED BY <1>a, <2>2, <2>4, <2>5, <2>7, <2>8, <2>10
  <1>2. it[S] = jt[Image(S)]
    BY <1>0, <1>1
  <1> QED BY <1>2 DEF ImageOf
-----------------------------------------------------------------------------
(* Recursive functions.                                                    *)

\* f goes from base over step by step.
GoesOn(f, base, step, n) ==
  f = [k \in 0 .. n |-> IF k = 0 THEN base ELSE step[<<f[k - 1], k>>]]

\* A function that is defined by its value before exists, and stays in S if its steps do.
LEMMA RecursionExists ==
  ASSUME NEW S, NEW base \in S, NEW n \in Nat, NEW step \in [S \X (1 .. n) -> S]
  PROVE  \E f \in [0 .. n -> S] : GoesOn(f, base, step, n)
  <1> DEFINE Bad == {m \in Nat : m <= n /\ ~ \E f \in [0 .. m -> S] : GoesOn(f, base, step, m)}
  <1>1. Bad = {}
    <2> SUFFICES ASSUME Bad # {} PROVE FALSE
      OBVIOUS
    <2>1. PICK m \in Bad : \A k \in Bad : m <= k
      <3> Bad \in SUBSET Nat
        OBVIOUS
      <3> HIDE DEF Bad
      <3> QED BY LeastNat
    <2>2. CASE m = 0
      <3>1. GoesOn([k \in 0 .. 0 |-> base], base, step, 0)
        BY DEF GoesOn
      <3>2. [k \in 0 .. 0 |-> base] \in [0 .. 0 -> S]
        OBVIOUS
      <3> QED BY <2>1, <2>2, <3>1, <3>2
    <2>3. CASE m # 0
      <3>1. m - 1 \in Nat /\ m - 1 \notin Bad /\ m <= n /\ m \in Nat
        BY <2>1, <2>3
      <3>2. PICK f \in [0 .. m - 1 -> S] : GoesOn(f, base, step, m - 1)
        BY <3>1
      <3> DEFINE h(k) == step[<<f[k - 1], k>>]
                 g == [k \in 0 .. m |-> IF k = 0 THEN base ELSE h(k)]
      <3>3. \A k \in 0 .. m - 1 : f[k] = IF k = 0 THEN base ELSE h(k)
        BY <3>2 DEF GoesOn
      <3>4. \A k \in 0 .. m - 1 : g[k] = f[k]
        <4> HIDE DEF h
        <4> QED BY <3>1, <3>3
      <3>5. \A k \in 0 .. m : k # 0 => k - 1 \in 0 .. m - 1 /\ k \in 1 .. n /\ g[k - 1] = f[k - 1]
        <4>1. \A k \in 0 .. m : k # 0 => k - 1 \in 0 .. m - 1 /\ k \in 1 .. n
          BY <3>1
        <4> HIDE DEF g
        <4> QED BY <3>4, <4>1
      <3>6. \A k \in 0 .. m : k # 0 => h(k) \in S
        BY <3>2, <3>5
      <3>7. g \in [0 .. m -> S]
        <4> HIDE DEF h
        <4> QED BY <3>6
      <3>8. \A k \in 0 .. m : (IF k = 0 THEN base ELSE h(k))
                            = (IF k = 0 THEN base ELSE step[<<g[k - 1], k>>])
        <4> HIDE DEF g
        <4> QED BY <3>5
      <3>9. GoesOn(g, base, step, m)
        <4>1. g = [k \in 0 .. m |-> IF k = 0 THEN base ELSE h(k)]
          OBVIOUS
        <4> HIDE DEF g, h
        <4> QED BY <3>8, <4>1 DEF GoesOn
      <3> HIDE DEF g
      <3> QED BY <2>1, <3>7, <3>9
    <2> QED BY <2>2, <2>3
  <1> QED BY <1>1
-----------------------------------------------------------------------------
(* Sorted.                                                                 *)

StrictOrder(R, S) ==
  /\ \A a, b \in S : a # b => <<a, b>> \in R \/ <<b, a>> \in R
  /\ \A a \in S : <<a, a>> \notin R
  /\ \A a, b, c \in S : <<a, b>> \in R /\ <<b, c>> \in R => <<a, c>> \in R

\* A finite set has a last element in every strict order.
LEMMA HasLast ==
  ASSUME NEW S, IsFiniteSet(S), S # {}, NEW R, StrictOrder(R, S)
  PROVE  \E m \in S : \A x \in S \ {m} : <<x, m>> \in R
  <1> DEFINE Last1(s) == \E m \in s : \A x \in s \ {m} : <<x, m>> \in R
             Bad == {n \in Nat : \E s \in SUBSET S : s # {} /\ Cardinality(s) = n /\ ~Last1(s)}
  <1>0. \A s \in SUBSET S : IsFiniteSet(s) /\ Cardinality(s) \in Nat
    BY FS_Subset, FS_CardinalityType
  <1>1. Bad = {}
    <2> SUFFICES ASSUME Bad # {} PROVE FALSE
      OBVIOUS
    <2>1. PICK n \in Bad : \A k \in Bad : n <= k
      <3> Bad \in SUBSET Nat
        OBVIOUS
      <3> HIDE DEF Bad
      <3> QED BY LeastNat
    <2>2. PICK s \in SUBSET S : s # {} /\ Cardinality(s) = n /\ ~Last1(s)
      BY <2>1
    <2>3. PICK x \in s : TRUE
      BY <2>2
    <2> DEFINE u == s \ {x}
    <2>4. u \in SUBSET S /\ Cardinality(u) = n - 1 /\ n - 1 \in Nat
      <3>1. Cardinality(s \ {x}) = Cardinality(s) - 1
        BY <2>3, <1>0, FS_RemoveElement
      <3> QED BY <3>1, <2>2, <1>0
    <2>5. CASE u = {}
      BY <2>2, <2>3, <2>5
    <2>6. CASE u # {}
      <3>1. n - 1 \notin Bad
        BY <2>1, <2>4
      <3>2. Last1(u)
        BY <3>1, <2>4, <2>6
      <3>3. PICK m \in u : \A y \in u \ {m} : <<y, m>> \in R
        BY <3>2
      <3>4. m \in S /\ x \in S /\ m # x
        BY <2>2, <2>3, <3>3
      <3>5. CASE <<x, m>> \in R
        <4>1. \A y \in s \ {m} : <<y, m>> \in R
          BY <3>3, <3>5
        <4> QED BY <2>2, <3>3, <4>1
      <3>6. CASE <<m, x>> \in R
        <4>1. \A y \in s \ {x} : <<y, x>> \in R
          BY <2>2, <3>3, <3>4, <3>6 DEF StrictOrder
        <4> QED BY <2>2, <2>3, <4>1
      <3> QED BY <3>4, <3>5, <3>6 DEF StrictOrder
    <2> QED BY <2>5, <2>6
  <1> QED BY <1>0, <1>1

\* s lists S in the order R.
ListsInOrder(s, S, R) ==
  /\ s \in [1 .. Cardinality(S) -> S]
  /\ \A i, j \in 1 .. Cardinality(S) : i < j => <<s[i], s[j]>> \in R

\* Every finite set can be listed in every strict order.
LEMMA SortedExists ==
  ASSUME NEW S, IsFiniteSet(S), NEW R, StrictOrder(R, S)
  PROVE  \E s : ListsInOrder(s, S, R)
  <1> DEFINE Bad == {n \in Nat : \E T \in SUBSET S : Cardinality(T) = n /\ ~ \E s : ListsInOrder(s, T, R)}
  <1>0. \A T \in SUBSET S : IsFiniteSet(T) /\ Cardinality(T) \in Nat
    BY FS_Subset, FS_CardinalityType
  <1>1. Bad = {}
    <2> SUFFICES ASSUME Bad # {} PROVE FALSE
      OBVIOUS
    <2>1. PICK n \in Bad : \A k \in Bad : n <= k
      <3> Bad \in SUBSET Nat
        OBVIOUS
      <3> HIDE DEF Bad
      <3> QED BY LeastNat
    <2>2. PICK T \in SUBSET S : Cardinality(T) = n /\ ~ \E s : ListsInOrder(s, T, R)
      BY <2>1
    <2>3. CASE T = {}
      <3>1. Cardinality(T) = 0
        BY <2>3, FS_EmptySet
      <3>2. ListsInOrder([i \in 1 .. 0 |-> i], T, R)
        BY <3>1 DEF ListsInOrder
      <3> QED BY <2>2, <3>2
    <2>4. CASE T # {}
      <3>1. StrictOrder(R, T)
        BY DEF StrictOrder
      <3>2. PICK m \in T : \A x \in T \ {m} : <<x, m>> \in R
        BY <1>0, <2>4, <3>1, HasLast
      <3> DEFINE U == T \ {m}
      <3>3. U \in SUBSET S /\ Cardinality(U) = n - 1 /\ n - 1 \in Nat
        <4>1. Cardinality(T \ {m}) = Cardinality(T) - 1
          BY <3>2, <1>0, FS_RemoveElement
        <4> QED BY <4>1, <2>2, <1>0
      <3>4. n - 1 \notin Bad
        BY <2>1, <3>3
      <3>5. PICK s : ListsInOrder(s, U, R)
        BY <3>3, <3>4
      <3> DEFINE g == [i \in 1 .. n |-> IF i = n THEN m ELSE s[i]]
      <3>6. \A i \in 1 .. n - 1 : s[i] \in U
        BY <3>3, <3>5 DEF ListsInOrder
      <3>7. g \in [1 .. n -> T]
        BY <3>3, <3>6
      <3>8. ASSUME NEW i \in 1 .. n, NEW j \in 1 .. n, i < j
            PROVE  <<g[i], g[j]>> \in R
        <4>1. i \in 1 .. n - 1 /\ g[i] = s[i] /\ s[i] \in U
          BY <3>6, <3>8, <3>3
        <4>2. CASE j = n
          BY <3>2, <4>1, <4>2
        <4>3. CASE j # n
          <5>1. j \in 1 .. n - 1 /\ g[j] = s[j]
            BY <4>3, <3>3
          <5> QED BY <3>3, <3>5, <3>8, <4>1, <5>1 DEF ListsInOrder
        <4> QED BY <4>2, <4>3
      <3>9. ListsInOrder(g, T, R)
        BY <2>2, <3>7, <3>8 DEF ListsInOrder
      <3> QED BY <2>2, <3>9
    <2> QED BY <2>3, <2>4
  <1> QED BY <1>0, <1>1

\* Such a list names every element once.
LEMMA ListedOnce ==
  ASSUME NEW S, IsFiniteSet(S), NEW R, StrictOrder(R, S), NEW s, ListsInOrder(s, S, R)
  PROVE  /\ Cardinality(S) \in Nat
         /\ \A x \in S : \E i \in 1 .. Cardinality(S) : s[i] = x
         /\ \A i, j \in 1 .. Cardinality(S) : i # j => s[i] # s[j]
  <1> DEFINE n == Cardinality(S)
  <1>1. n \in Nat
    BY FS_CardinalityType
  <1>2. \A i, j \in 1 .. n : i # j => s[i] # s[j]
    <2> SUFFICES ASSUME NEW i \in 1 .. n, NEW j \in 1 .. n, i # j PROVE s[i] # s[j]
      OBVIOUS
    <2>1. i < j \/ j < i
      BY <1>1
    <2>2. <<s[i], s[j]>> \in R \/ <<s[j], s[i]>> \in R
      BY <2>1 DEF ListsInOrder
    <2>3. s[i] \in S
      BY DEF ListsInOrder
    <2> QED BY <2>2, <2>3 DEF StrictOrder
  <1>3. s \in Injection(1 .. n, S)
    <2>1. s \in [1 .. n -> S]
      BY DEF ListsInOrder
    <2> QED BY <1>2, <2>1 DEF Injection, IsInjective
  <1>4. Cardinality(1 .. n) = n
    <2>1. Cardinality(1 .. n) = IF 1 > n THEN 0 ELSE n - 1 + 1
      BY <1>1, FS_Interval
    <2> QED BY <1>1, <2>1
  <1>5. s \in Surjection(1 .. n, S)
    BY <1>3, <1>4, FS_Injection
  <1> QED BY <1>1, <1>2, <1>5 DEF Surjection

\* A finite set of numbers in ascending order.
LEMMA AscendingOrder ==
  ASSUME NEW S \in SUBSET Int, IsFiniteSet(S)
  PROVE  /\ Cardinality(S) \in Nat
         /\ Sorted(S, <) \in [1 .. Cardinality(S) -> S]
         /\ \A i, j \in 1 .. Cardinality(S) : i < j => Sorted(S, <)[i] < Sorted(S, <)[j]
         /\ \A x \in S : \E i \in 1 .. Cardinality(S) : Sorted(S, <)[i] = x
  <1> DEFINE R == {p \in S \X S : p[1] < p[2]}
             Ascends(s) == s \in [1 .. Cardinality(S) -> S] /\ \A i, j \in DOMAIN s : i < j => s[i] < s[j]
  <1>1. StrictOrder(R, S)
    BY DEF StrictOrder
  <1>2. \A s : Ascends(s) <=> ListsInOrder(s, S, R)
    <2> SUFFICES ASSUME NEW s, s \in [1 .. Cardinality(S) -> S]
                 PROVE  Ascends(s) <=> ListsInOrder(s, S, R)
      BY DEF ListsInOrder
    <2>1. \A i, j \in 1 .. Cardinality(S) : s[i] < s[j] <=> <<s[i], s[j]>> \in R
      OBVIOUS
    <2> QED BY <2>1 DEF ListsInOrder
  <1>3. \E s \in [1 .. Cardinality(S) -> S] : \A i, j \in DOMAIN s : i < j => s[i] < s[j]
    <2> HIDE DEF R
    <2>1. PICK s : ListsInOrder(s, S, R)
      BY <1>1, SortedExists
    <2> QED BY <1>2, <2>1
  <1>4. Ascends(Sorted(S, <))
    BY <1>3 DEF Sorted
  <1>5. ListsInOrder(Sorted(S, <), S, R)
    BY <1>2, <1>4
  <1> DEFINE t == Sorted(S, <)
  <1>6. Ascends(t) /\ ListsInOrder(t, S, R)
    BY <1>4, <1>5
  <1>7. t \in [1 .. Cardinality(S) -> S] /\ \A i, j \in 1 .. Cardinality(S) : i < j => t[i] < t[j]
    <2> HIDE DEF t
    <2> QED BY <1>6
  <1>8. Cardinality(S) \in Nat /\ \A x \in S : \E i \in 1 .. Cardinality(S) : t[i] = x
    <2> HIDE DEF R, t
    <2> QED BY <1>1, <1>6, ListedOnce
  <1> QED BY <1>7, <1>8
-----------------------------------------------------------------------------
(* Filter, K being the indexes of the elements to be kept.                 *)

IsFilter(f, s, K, n) ==
  f = [k \in 0 .. n |-> IF k = 0 THEN <<>>
                        ELSE IF k \in K THEN Append(f[k - 1], s[k]) ELSE f[k - 1]]

\* The recursion is well founded.
LEMMA FilterExists ==
  ASSUME NEW s, NEW K, NEW n \in Nat
  PROVE  \E f : IsFilter(f, s, K, n)
  <1> DEFINE Bad == {k \in Nat : ~ \E f : IsFilter(f, s, K, k)}
  <1>1. Bad = {}
    <2> SUFFICES ASSUME Bad # {} PROVE FALSE
      OBVIOUS
    <2>1. PICK m \in Bad : \A k \in Bad : m <= k
      <3> Bad \in SUBSET Nat
        OBVIOUS
      <3> HIDE DEF Bad
      <3> QED BY LeastNat
    <2>2. CASE m = 0
      <3>1. IsFilter([k \in 0 .. 0 |-> <<>>], s, K, 0)
        BY DEF IsFilter
      <3> QED BY <2>1, <2>2, <3>1
    <2>3. CASE m # 0
      <3>1. m - 1 \in Nat /\ m - 1 \notin Bad
        BY <2>1, <2>3
      <3>2. PICK f : IsFilter(f, s, K, m - 1)
        BY <3>1
      <3> DEFINE step(k) == IF k \in K THEN Append(f[k - 1], s[k]) ELSE f[k - 1]
                 g == [k \in 0 .. m |-> IF k = 0 THEN <<>> ELSE step(k)]
      <3>3. \A k \in 0 .. m - 1 : f[k] = IF k = 0 THEN <<>> ELSE step(k)
        BY <3>2 DEF IsFilter
      <3>4. \A k \in 0 .. m - 1 : g[k] = f[k]
        <4> HIDE DEF step
        <4> QED BY <3>1, <3>3
      <3>5. \A k \in 0 .. m : k # 0 => k - 1 \in 0 .. m - 1 /\ g[k - 1] = f[k - 1]
        <4>1. \A k \in 0 .. m : k # 0 => k - 1 \in 0 .. m - 1
          BY <3>1
        <4> HIDE DEF g
        <4> QED BY <3>4, <4>1
      <3>6. \A k \in 0 .. m : (IF k = 0 THEN <<>> ELSE step(k))
                            = (IF k = 0 THEN <<>>
                               ELSE IF k \in K THEN Append(g[k - 1], s[k]) ELSE g[k - 1])
        <4> HIDE DEF g
        <4> QED BY <3>5
      <3>7. IsFilter(g, s, K, m)
        <4>1. g = [k \in 0 .. m |-> IF k = 0 THEN <<>> ELSE step(k)]
          OBVIOUS
        <4> HIDE DEF g, step
        <4> QED BY <3>6, <4>1 DEF IsFilter
      <3> QED BY <2>1, <3>7
    <2> QED BY <2>1, <2>2, <2>3
  <1> QED BY <1>1

\* r holds the elements of s at the indexes of K up to k, in their order: h
\* tells where each comes from.
Picks(h, r, s, K, k) ==
  /\ h \in [1 .. Len(r) -> 1 .. k]
  /\ \A i \in 1 .. Len(r) : h[i] \in K /\ r[i] = s[h[i]]
  /\ \A i, j \in 1 .. Len(r) : i < j => h[i] < h[j]
  /\ \A m \in 1 .. k : m \in K => \E i \in 1 .. Len(r) : h[i] = m

\* One more element is kept, or passed over.
LEMMA PickNext ==
  ASSUME NEW A, NEW s \in Seq(A), NEW K, NEW r \in Seq(A), NEW k \in 1 .. Len(s),
         NEW h, Picks(h, r, s, K, k - 1)
  PROVE  LET q == IF k \in K THEN Append(r, s[k]) ELSE r
         IN  q \in Seq(A) /\ \E g : Picks(g, q, s, K, k)
  <1>0. Len(r) \in Nat /\ k \in Nat /\ Len(s) \in Nat
    OBVIOUS
  <1>1. /\ h \in [1 .. Len(r) -> 1 .. k - 1]
        /\ \A i \in 1 .. Len(r) : h[i] \in K /\ r[i] = s[h[i]]
        /\ \A i, j \in 1 .. Len(r) : i < j => h[i] < h[j]
        /\ \A m \in 1 .. k - 1 : m \in K => \E i \in 1 .. Len(r) : h[i] = m
    BY DEF Picks
  <1>2. CASE k \notin K
    <2>1. Picks(h, r, s, K, k)
      <3>1. h \in [1 .. Len(r) -> 1 .. k]
        BY <1>0, <1>1
      <3>2. \A m \in 1 .. k : m \in K => m \in 1 .. k - 1
        BY <1>0, <1>2
      <3> QED BY <1>1, <3>1, <3>2 DEF Picks
    <2> QED BY <1>2, <2>1
  <1>3. CASE k \in K
    <2> DEFINE q == Append(r, s[k])
               n == Len(r) + 1
               g == [i \in 1 .. n |-> IF i = n THEN k ELSE h[i]]
    <2>1. q \in Seq(A) /\ Len(q) = n /\ q[n] = s[k] /\ \A i \in 1 .. Len(r) : q[i] = r[i]
      BY <1>0
    <2>2. \A i \in 1 .. Len(r) : i \in 1 .. n /\ i # n /\ g[i] = h[i] /\ g[i] \in 1 .. k - 1
      BY <1>0, <1>1
    <2>3. g[n] = k /\ n \in 1 .. n /\ \A i \in 1 .. n : i = n \/ i \in 1 .. Len(r)
      BY <1>0
    <2>4. \A i \in 1 .. n : g[i] \in 1 .. k
      <3> HIDE DEF g, n
      <3> QED BY <1>0, <2>2, <2>3
    <2>4a. g \in [1 .. n -> 1 .. k]
      BY <2>4
    <2> HIDE DEF g, q
    <2>5. \A i \in 1 .. n : g[i] \in K /\ q[i] = s[g[i]]
      <3> HIDE DEF n
      <3> QED BY <1>1, <1>3, <2>1, <2>2, <2>3
    <2>6. ASSUME NEW i \in 1 .. n, NEW j \in 1 .. n, i < j PROVE g[i] < g[j]
      <3>1. i \in 1 .. Len(r) /\ g[i] = h[i] /\ h[i] \in 1 .. k - 1
        <4>1. i \in 1 .. Len(r)
          BY <1>0, <2>6
        <4> QED BY <2>2, <4>1
      <3>2. CASE j = n
        BY <1>0, <2>3, <3>1, <3>2
      <3>3. CASE j # n
        <4>1. j \in 1 .. Len(r) /\ g[j] = h[j]
          BY <2>2, <2>3, <3>3
        <4> QED BY <1>1, <2>6, <3>1, <4>1
      <3> QED BY <3>2, <3>3
    <2>7. ASSUME NEW m \in 1 .. k, m \in K PROVE \E i \in 1 .. n : g[i] = m
      <3>1. CASE m = k
        BY <2>3, <3>1
      <3>2. CASE m # k
        <4>1. m \in 1 .. k - 1
          BY <1>0, <3>2
        <4>2. PICK i \in 1 .. Len(r) : h[i] = m
          BY <1>1, <2>7, <4>1
        <4>3. i \in 1 .. n /\ g[i] = m
          BY <2>2, <4>2
        <4> QED BY <4>3
      <3> QED BY <3>1, <3>2
    <2>8. Picks(g, q, s, K, k)
      <3> HIDE DEF n
      <3> QED BY <2>1, <2>4a, <2>5, <2>6, <2>7 DEF Picks
    <2> QED BY <1>3, <2>1, <2>8 DEF q
  <1> QED BY <1>2, <1>3

\* The result of the recursion holds what was to be kept, in its order.
LEMMA FilterPicks ==
  ASSUME NEW A, NEW s \in Seq(A), NEW K, NEW f, IsFilter(f, s, K, Len(s))
  PROVE  f[Len(s)] \in Seq(A) /\ \E h : Picks(h, f[Len(s)], s, K, Len(s))
  <1> DEFINE Right(k) == f[k] \in Seq(A) /\ \E h : Picks(h, f[k], s, K, k)
             Bad == {k \in Nat : k <= Len(s) /\ ~Right(k)}
  <1>0. Len(s) \in Nat
    OBVIOUS
  <1>1. Bad = {}
    <2> SUFFICES ASSUME Bad # {} PROVE FALSE
      OBVIOUS
    <2>1. PICK m \in Bad : \A k \in Bad : m <= k
      <3> Bad \in SUBSET Nat
        OBVIOUS
      <3> HIDE DEF Bad
      <3> QED BY LeastNat
    <2>2. f[m] = IF m = 0 THEN <<>> ELSE IF m \in K THEN Append(f[m - 1], s[m]) ELSE f[m - 1]
      <3>1. m \in 0 .. Len(s)
        BY <1>0, <2>1
      <3>2. \A k \in 0 .. Len(s) :
              f[k] = IF k = 0 THEN <<>> ELSE IF k \in K THEN Append(f[k - 1], s[k]) ELSE f[k - 1]
        BY DEF IsFilter
      <3> QED BY <3>1, <3>2
    <2>3. CASE m = 0
      <3>1. f[0] = <<>> /\ Len(<<>>) = 0 /\ <<>> \in Seq(A)
        BY <2>2, <2>3
      <3>2. Picks(<<>>, <<>>, s, K, 0)
        BY DEF Picks
      <3> QED BY <2>1, <2>3, <3>1, <3>2
    <2>4. CASE m # 0
      <3>1. m - 1 \in Nat /\ m - 1 \notin Bad /\ m - 1 <= Len(s) /\ m \in 1 .. Len(s)
        BY <1>0, <2>1, <2>4
      <3>2. Right(m - 1)
        BY <3>1
      <3>3. PICK h : Picks(h, f[m - 1], s, K, m - 1)
        BY <3>2
      <3> DEFINE q == IF m \in K THEN Append(f[m - 1], s[m]) ELSE f[m - 1]
      <3>4. q \in Seq(A) /\ \E g : Picks(g, q, s, K, m)
        BY <3>1, <3>2, <3>3, PickNext
      <3>5. f[m] = q
        BY <2>2, <2>4
      <3> QED BY <2>1, <3>4, <3>5
    <2> QED BY <2>3, <2>4
  <1> QED BY <1>0, <1>1
-----------------------------------------------------------------------------
(* Concat.                                                                 *)

\* The places in the first n of the lists.
Places(L, n) == UNION {{k} \X (1 .. Len(L[k])) : k \in 1 .. n}

\* at tells where in the first n of the lists the elements of q are: each place once.
Locates(at, q, L, n) ==
  /\ at \in [1 .. Len(q) -> Places(L, n)]
  /\ \A i \in 1 .. Len(q) : q[i] = L[at[i][1]][at[i][2]]
  /\ \A i, j \in 1 .. Len(q) : i # j => at[i] # at[j]
  /\ \A p \in Places(L, n) : \E i \in 1 .. Len(q) : at[i] = p

\* One more list.
LEMMA LocateNext ==
  ASSUME NEW A, NEW n \in Nat, NEW L \in [1 .. n -> Seq(A)], NEW k \in 1 .. n,
         NEW q \in Seq(A), NEW at, Locates(at, q, L, k - 1)
  PROVE  q \o L[k] \in Seq(A) /\ \E to : Locates(to, q \o L[k], L, k)
  <1> DEFINE l == L[k]
             r == q \o l
             to == [i \in 1 .. Len(r) |-> IF i <= Len(q) THEN at[i] ELSE <<k, i - Len(q)>>]
  <1>1. l \in Seq(A) /\ Len(l) \in Nat /\ Len(q) \in Nat
    OBVIOUS
  <1>2. r \in Seq(A) /\ Len(r) = Len(q) + Len(l)
        /\ \A i \in 1 .. Len(r) : r[i] = IF i <= Len(q) THEN q[i] ELSE l[i - Len(q)]
    <2> HIDE DEF l
    <2> QED BY <1>1, ConcatProperties
  <1>3. /\ at \in [1 .. Len(q) -> Places(L, k - 1)]
        /\ \A i \in 1 .. Len(q) : q[i] = L[at[i][1]][at[i][2]]
        /\ \A i, j \in 1 .. Len(q) : i # j => at[i] # at[j]
        /\ \A p \in Places(L, k - 1) : \E i \in 1 .. Len(q) : at[i] = p
    BY DEF Locates
  <1>4. Places(L, k) = Places(L, k - 1) \union ({k} \X (1 .. Len(l)))
    <2>1. 1 .. k = (1 .. k - 1) \union {k}
      OBVIOUS
    <2> QED BY <2>1, Zenon DEF Places
  <1>5. \A p \in Places(L, k - 1) : p[1] # k
    <2> SUFFICES ASSUME NEW j \in 1 .. k - 1, NEW p \in {j} \X (1 .. Len(L[j])) PROVE p[1] # k
      BY DEF Places
    <2> QED OBVIOUS
  <1> HIDE DEF r, l
  <1>6. \A i \in 1 .. Len(r) :
          /\ i <= Len(q) => i \in 1 .. Len(q)
          /\ ~(i <= Len(q)) => i - Len(q) \in 1 .. Len(l)
    BY <1>1, <1>2
  <1>7. to \in [1 .. Len(r) -> Places(L, k)]
    <2> SUFFICES ASSUME NEW i \in 1 .. Len(r)
                 PROVE  (IF i <= Len(q) THEN at[i] ELSE <<k, i - Len(q)>>) \in Places(L, k)
      BY Zenon
    <2>1. CASE i <= Len(q)
      BY <1>3, <1>4, <1>6, <2>1
    <2>2. CASE ~(i <= Len(q))
      BY <1>4, <1>6, <2>2
    <2> QED BY <2>1, <2>2
  <1>8. ASSUME NEW i \in 1 .. Len(r) PROVE r[i] = L[to[i][1]][to[i][2]]
    <2>1. CASE i <= Len(q)
      <3>1. to[i] = at[i] /\ i \in 1 .. Len(q) /\ r[i] = q[i]
        BY <1>2, <1>6, <2>1
      <3> HIDE DEF to
      <3> QED BY <1>3, <3>1
    <2>2. CASE ~(i <= Len(q))
      <3>1. to[i] = <<k, i - Len(q)>> /\ r[i] = l[i - Len(q)]
        BY <1>2, <1>6, <2>2
      <3> HIDE DEF to
      <3>2. to[i][1] = k /\ to[i][2] = i - Len(q)
        BY <3>1
      <3> QED BY <3>1, <3>2 DEF l
    <2> QED BY <2>1, <2>2
  <1>9. ASSUME NEW i \in 1 .. Len(r), NEW j \in 1 .. Len(r), i # j PROVE to[i] # to[j]
    <2>1. CASE i <= Len(q) /\ j <= Len(q)
      <3>1. to[i] = at[i] /\ to[j] = at[j] /\ i \in 1 .. Len(q) /\ j \in 1 .. Len(q)
        BY <1>6, <2>1
      <3> HIDE DEF to
      <3> QED BY <1>3, <1>9, <3>1
    <2>2. CASE i <= Len(q) /\ ~(j <= Len(q))
      <3>1. to[i] = at[i] /\ i \in 1 .. Len(q) /\ to[j] = <<k, j - Len(q)>>
        BY <1>6, <2>2
      <3> HIDE DEF to
      <3>2. at[i] \in Places(L, k - 1)
        BY <1>3, <3>1
      <3>3. to[i][1] # k
        BY <1>5, <3>1, <3>2
      <3>4. to[j][1] = k
        BY <3>1
      <3> QED BY <3>3, <3>4
    <2>3. CASE ~(i <= Len(q)) /\ j <= Len(q)
      <3>1. to[j] = at[j] /\ j \in 1 .. Len(q) /\ to[i] = <<k, i - Len(q)>>
        BY <1>6, <2>3
      <3> HIDE DEF to
      <3>2. at[j] \in Places(L, k - 1)
        BY <1>3, <3>1
      <3>3. to[j][1] # k
        BY <1>5, <3>1, <3>2
      <3>4. to[i][1] = k
        BY <3>1
      <3> QED BY <3>3, <3>4
    <2>4. CASE ~(i <= Len(q)) /\ ~(j <= Len(q))
      <3>1. to[i] = <<k, i - Len(q)>> /\ to[j] = <<k, j - Len(q)>>
        BY <2>4
      <3> HIDE DEF to
      <3>2. to[i][2] = i - Len(q) /\ to[j][2] = j - Len(q)
        BY <3>1
      <3>3. i - Len(q) # j - Len(q)
        BY <1>1, <1>2, <1>9
      <3> QED BY <3>2, <3>3
    <2> QED BY <2>1, <2>2, <2>3, <2>4
  <1>10. ASSUME NEW p \in Places(L, k) PROVE \E i \in 1 .. Len(r) : to[i] = p
    <2>1. CASE p \in Places(L, k - 1)
      <3>1. PICK i \in 1 .. Len(q) : at[i] = p
        BY <1>3, <2>1
      <3>2. i \in 1 .. Len(r) /\ i <= Len(q)
        BY <1>1, <1>2
      <3> QED BY <3>1, <3>2
    <2>2. CASE p \in {k} \X (1 .. Len(l))
      <3>1. PICK j \in 1 .. Len(l) : p = <<k, j>>
        BY <2>2
      <3> DEFINE i == Len(q) + j
      <3>2. i \in 1 .. Len(r) /\ ~(i <= Len(q)) /\ i - Len(q) = j
        BY <1>1, <1>2
      <3> HIDE DEF i
      <3>3. to[i] = <<k, j>>
        BY <3>2
      <3> QED BY <3>1, <3>2, <3>3
    <2> QED BY <1>4, <2>1, <2>2
  <1> HIDE DEF to
  <1>11. Locates(to, r, L, k)
    BY <1>7, <1>8, <1>9, <1>10 DEF Locates
  <1> QED BY <1>2, <1>11 DEF r, l

\* Concat has the elements of the lists, each once.
LEMMA ConcatLocates ==
  ASSUME NEW A, NEW n \in Nat, NEW L \in [1 .. n -> Seq(A)]
  PROVE  Concat(L) \in Seq(A) /\ \E at : Locates(at, Concat(L), L, n)
  <1> DEFINE S == Seq(A)
             step == [p \in S \X (1 .. n) |-> p[1] \o L[p[2]]]
             Takes(f) == f = [k \in 0 .. n |-> IF k = 0 THEN <<>> ELSE f[k - 1] \o L[k]]
             J == CHOOSE f : Takes(f)
  <1>1. Concat(L) = J[n]
    <2>1. Cardinality(DOMAIN L) = n
      BY FS_Interval
    <2> DEFINE C(x) == (CHOOSE f : f = [k \in 0 .. x |-> IF k = 0 THEN <<>> ELSE f[k - 1] \o L[k]])[x]
    <2>2. Concat(L) = C(Cardinality(DOMAIN L))
      BY Zenon DEF Concat
    <2> HIDE DEF C
    <2>3. Concat(L) = C(n)
      BY <2>1, <2>2
    <2> QED BY <2>3 DEF C
  <1>2. <<>> \in S /\ step \in [S \X (1 .. n) -> S]
    <2>1. ASSUME NEW p \in S \X (1 .. n) PROVE p[1] \o L[p[2]] \in S
      <3>1. p[1] \in Seq(A) /\ L[p[2]] \in Seq(A)
        OBVIOUS
      <3> DEFINE x == p[1]
                 y == L[p[2]]
      <3> HIDE DEF x, y
      <3>2. x \o y \in Seq(A)
        BY <3>1, ConcatProperties DEF x, y
      <3> QED BY <3>2 DEF x, y
    <2> HIDE DEF S
    <2>2. step \in [S \X (1 .. n) -> S]
      BY <2>1
    <2> QED BY <2>2, EmptySeq DEF S
  <1>3. \E f : Takes(f)
    <2>1. PICK f \in [0 .. n -> S] : GoesOn(f, <<>>, step, n)
      <3> HIDE DEF S, step
      <3> QED BY <1>2, RecursionExists
    <2>2. f = [k \in 0 .. n |-> IF k = 0 THEN <<>> ELSE step[<<f[k - 1], k>>]]
      BY <2>1 DEF GoesOn
    <2>3. ASSUME NEW k \in 0 .. n, k # 0 PROVE step[<<f[k - 1], k>>] = f[k - 1] \o L[k]
      <3>1. k - 1 \in 0 .. n /\ k \in 1 .. n
        BY <2>3
      <3>2. <<f[k - 1], k>> \in S \X (1 .. n)
        <4> HIDE DEF S
        <4> QED BY <2>1, <3>1
      <3> QED BY <3>2
    <2> HIDE DEF step, S
    <2>4. Takes(f)
      BY <2>2, <2>3
    <2> QED BY <2>4
  <1>4. Takes(J)
    <2> HIDE DEF Takes
    <2> QED BY <1>3
  <1> DEFINE Fine(k) == J[k] \in Seq(A) /\ \E at : Locates(at, J[k], L, k)
             Bad == {k \in Nat : k <= n /\ ~Fine(k)}
  <1>5. \A k \in 0 .. n : J[k] = IF k = 0 THEN <<>> ELSE J[k - 1] \o L[k]
    <2> HIDE DEF J
    <2> QED BY <1>4
  <1> HIDE DEF J, S, step, Takes
  <1>6. Bad = {}
    <2> SUFFICES ASSUME Bad # {} PROVE FALSE
      OBVIOUS
    <2>1. PICK k \in Bad : \A i \in Bad : k <= i
      <3> Bad \in SUBSET Nat
        OBVIOUS
      <3> HIDE DEF Bad
      <3> QED BY LeastNat
    <2>2. k \in Nat /\ k <= n /\ k \in 0 .. n
      BY <2>1
    <2>3. Fine(k)
      <3>1. CASE k = 0
        <4>1. J[k] = <<>>
          BY <1>5, <2>2, <3>1
        <4> DEFINE bs == <<>>
                   at == [i \in 1 .. 0 |-> 0]
        <4>2. bs \in Seq(A) /\ Len(bs) = 0
          OBVIOUS
        <4>3. Places(L, 0) = {}
          BY DEF Places
        <4>4. at \in [1 .. 0 -> Places(L, 0)]
          OBVIOUS
        <4> HIDE DEF bs, at
        <4>5. Locates(at, bs, L, 0)
          BY <4>2, <4>3, <4>4 DEF Locates
        <4> QED BY <3>1, <4>1, <4>2, <4>5 DEF bs
      <3>2. CASE k # 0
        <4>1. k - 1 \in Nat /\ k - 1 <= n /\ k - 1 \notin Bad /\ k \in 1 .. n
          <5> HIDE DEF Fine
          <5> QED BY <2>1, <2>2, <3>2
        <4>2. Fine(k - 1)
          <5> HIDE DEF Fine
          <5> QED BY <4>1
        <4>3. PICK at : Locates(at, J[k - 1], L, k - 1)
          BY <4>2
        <4>4. J[k - 1] \o L[k] \in Seq(A) /\ \E to : Locates(to, J[k - 1] \o L[k], L, k)
          BY <4>1, <4>2, <4>3, LocateNext
        <4>5. J[k] = J[k - 1] \o L[k]
          BY <1>5, <2>2, <3>2
        <4> QED BY <4>4, <4>5
      <3> QED BY <3>1, <3>2
    <2> HIDE DEF Fine
    <2> QED BY <2>1, <2>3
  <1>7. Fine(n)
    <2>1. n \in Nat /\ n <= n
      OBVIOUS
    <2> HIDE DEF Fine
    <2> QED BY <1>6, <2>1
  <1> QED BY <1>1, <1>7
=============================================================================
