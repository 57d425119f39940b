-------------------------- MODULE FiniteSetLemmas --------------------------
(***************************************************************************)
(* Facts about finite sets of numbers and about sums that the proofs of    *)
(* this project share.  The induction theorems of the library take an      *)
(* operator as a parameter; here each induction is a set of numbers with a *)
(* least element (NatMin).                                                 *)
(***************************************************************************)
EXTENDS FiniteSetsExt, FiniteSetTheorems, WellFoundedInduction, TLAPS

\* A nonempty set of natural numbers has a least element.
LEMMA NatLeast ==
  ASSUME NEW S, S \subseteq Nat, S # {}
  PROVE  \E n \in S : \A m \in S : n <= m
<1>. DEFINE R == OpToRel(<, Nat)
<1>1. PICK n \in S : \A m \in S : ~(<<m, n>> \in R)
  BY NatLessThanWellFounded, WFMin, Zenon
<1>2. \A m \in Nat : m < n => <<m, n>> \in R
  BY DEF OpToRel
<1>. HIDE DEF R
<1>3. \A m \in S : ~(m < n)
  BY <1>1, <1>2
<1>. QED
  BY <1>3

LEMMA NatMin ==
  ASSUME NEW S, S \subseteq Nat, S # {}
  PROVE  Min(S) \in S /\ \A x \in S : Min(S) <= x
BY NatLeast DEF Min

\* A nonempty finite set of natural numbers has an element with none above it.
LEMMA Greatest ==
  ASSUME NEW S, S \subseteq Nat, IsFiniteSet(S), S # {}
  PROVE  \E x \in S : \A y \in S : y <= x
<1>. DEFINE Above(x) == {y \in S : y > x}
            Size == {Cardinality(Above(x)) : x \in S}
<1>1. \A x \in S : IsFiniteSet(Above(x)) /\ Cardinality(Above(x)) \in Nat
  BY FS_Subset, FS_CardinalityType
<1>2. PICK x \in S : \A y \in S : Cardinality(Above(x)) <= Cardinality(Above(y))
  <2>1. Size \subseteq Nat /\ Size # {}
    BY <1>1
  <2>2. \A n : n \in Size <=> \E y \in S : n = Cardinality(Above(y))
    OBVIOUS
  <2>. HIDE DEF Above, Size
  <2>3. PICK n \in Size : \A m \in Size : n <= m
    BY <2>1, NatLeast
  <2>. QED
    BY <2>2, <2>3
<1>3. ASSUME NEW y \in S, y > x PROVE FALSE
  <2>1. x \in Nat /\ y \in Nat
    OBVIOUS
  <2>2. \A z \in Nat : z > y => z > x
    BY <1>3, <2>1
  <2>3. Above(y) \subseteq Above(x)
    BY <2>2
  <2>4. y \in Above(x) /\ y \notin Above(y)
    BY <1>3, <2>1
  <2>. HIDE DEF Above
  <2>5. Cardinality(Above(y)) <= Cardinality(Above(x))
        /\ Cardinality(Above(y)) # Cardinality(Above(x))
    BY <1>1, <2>3, <2>4, FS_Subset
  <2>. QED
    BY <1>1, <1>2, <2>5
<1>. QED
  BY <1>3

-----------------------------------------------------------------------------
(* Sums. *)

Some(s) == CHOOSE x \in s : TRUE

\* g is the sum of f over each set of D, as the fold computes it: the value of
\* some element and the sum over the others.
IsSum(f, D, g) ==
  g = [s \in D |-> IF s = {} THEN 0 ELSE f[Some(s)] + g[s \ {Some(s)}]]

UpTo(T, n) == {s \in SUBSET T : Cardinality(s) <= n}

LEMMA SomeLess ==
  ASSUME NEW s, IsFiniteSet(s), s # {}
  PROVE  /\ Some(s) \in s /\ IsFiniteSet(s \ {Some(s)})
         /\ Cardinality(s) \in Nat /\ Cardinality(s \ {Some(s)}) \in Nat
         /\ Cardinality(s \ {Some(s)}) = Cardinality(s) - 1
<1>1. Some(s) \in s
  BY DEF Some
<1>. QED
  BY <1>1, FS_RemoveElement, FS_CardinalityType

LEMMA SumExists ==
  ASSUME NEW f, NEW T, IsFiniteSet(T)
  PROVE  \E g : IsSum(f, SUBSET T, g)
<1>. DEFINE Bad == {n \in Nat : ~ \E g : IsSum(f, UpTo(T, n), g)}
<1>0. \A s \in SUBSET T : IsFiniteSet(s) /\ Cardinality(s) \in Nat
  BY FS_Subset, FS_CardinalityType
<1>1. Bad = {}
  <2>. SUFFICES ASSUME Bad # {} PROVE FALSE
    OBVIOUS
  <2>1. PICK n \in Bad : \A m \in Bad : n <= m
    BY NatLeast
  <2>2. n # 0
    <3>. SUFFICES ASSUME n = 0 PROVE FALSE
      OBVIOUS
    <3>1. UpTo(T, 0) = {{}}
      BY <1>0, FS_EmptySet DEF UpTo
    <3>2. IsSum(f, UpTo(T, 0), [s \in UpTo(T, 0) |-> 0])
      BY <3>1 DEF IsSum
    <3>. QED
      BY <2>1, <3>2
  <2>3. PICK g : IsSum(f, UpTo(T, n - 1), g)
    BY <2>1, <2>2
  <2>. DEFINE h == [s \in UpTo(T, n) |->
                      IF s = {} THEN 0 ELSE f[Some(s)] + g[s \ {Some(s)}]]
  <2>4. \A s \in UpTo(T, n) : s # {} => s \ {Some(s)} \in UpTo(T, n - 1)
    BY <1>0, <2>1, SomeLess DEF UpTo
  <2>5. UpTo(T, n - 1) \subseteq UpTo(T, n)
    BY <1>0, <2>1 DEF UpTo
  <2>6. \A s \in UpTo(T, n - 1) : g[s] = h[s]
    BY <2>3, <2>5 DEF IsSum
  <2>7. IsSum(f, UpTo(T, n), h)
    BY <2>4, <2>5, <2>6 DEF IsSum
  <2>. QED
    BY <2>1, <2>7
<1>2. UpTo(T, Cardinality(T)) = SUBSET T
  BY <1>0, FS_Subset DEF UpTo
<1>3. Cardinality(T) \in Nat
  BY <1>0
<1>4. \E g : IsSum(f, UpTo(T, Cardinality(T)), g)
  BY <1>1, <1>3
<1>. QED
  BY <1>2, <1>4

\* The sum is that of the definition of a fold.
LEMMA SumIs ==
  ASSUME NEW f, NEW S, IsFiniteSet(S)
  PROVE  \E g : IsSum(f, SUBSET S, g) /\ SumFunctionOnSet(f, S) = g[S]
<1>. DEFINE g == CHOOSE g : IsSum(f, SUBSET S, g)
<1>1. IsSum(f, SUBSET S, g)
  BY SumExists
<1>2. SumFunctionOnSet(f, S) = g[S]
  BY DEF SumFunctionOnSet, FoldFunctionOnSet, MapThenFoldSet, IsSum, Some
<1>. QED
  BY <1>1, <1>2

LEMMA SumEmpty == ASSUME NEW f PROVE SumFunctionOnSet(f, {}) = 0
<1>1. PICK g : IsSum(f, SUBSET {}, g) /\ SumFunctionOnSet(f, {}) = g[{}]
  BY SumIs, FS_EmptySet
<1>2. {} \in SUBSET {}
  OBVIOUS
<1>. QED
  BY <1>1, <1>2 DEF IsSum

LEMMA SumSome ==
  ASSUME NEW f, NEW S, IsFiniteSet(S), S # {}
  PROVE  SumFunctionOnSet(f, S)
           = f[Some(S)] + SumFunctionOnSet(f, S \ {Some(S)})
<1>. DEFINE R == S \ {Some(S)}
<1>1. PICK g : IsSum(f, SUBSET S, g) /\ SumFunctionOnSet(f, S) = g[S]
  BY SumIs
<1>2. IsFiniteSet(R) /\ R \in SUBSET S
  BY SomeLess
<1>3. PICK h : IsSum(f, SUBSET R, h) /\ SumFunctionOnSet(f, R) = h[R]
  BY <1>2, SumIs
<1>. DEFINE Bad == {n \in Nat : \E s \in SUBSET R : Cardinality(s) = n /\ g[s] # h[s]}
<1>. HIDE DEF R
<1>4. \A s \in SUBSET R : IsFiniteSet(s) /\ Cardinality(s) \in Nat
  BY <1>2, FS_Subset, FS_CardinalityType
<1>5. Bad = {}
  <2>. SUFFICES ASSUME Bad # {} PROVE FALSE
    OBVIOUS
  <2>1. PICK n \in Bad : \A m \in Bad : n <= m
    BY NatLeast
  <2>2. PICK s \in SUBSET R : Cardinality(s) = n /\ g[s] # h[s]
    BY <2>1
  <2>3. s # {}
    BY <1>1, <1>2, <1>3, <2>2 DEF IsSum
  <2>4. s \ {Some(s)} \in SUBSET R /\ Cardinality(s \ {Some(s)}) \in Nat
        /\ Cardinality(s \ {Some(s)}) < n
    BY <1>4, <2>2, <2>3, SomeLess
  <2>5. g[s \ {Some(s)}] = h[s \ {Some(s)}]
    BY <2>1, <2>4
  <2>6. /\ g[s] = f[Some(s)] + g[s \ {Some(s)}]
        /\ h[s] = f[Some(s)] + h[s \ {Some(s)}]
    BY <1>1, <1>2, <1>3, <2>3 DEF IsSum
  <2>. QED
    BY <2>2, <2>5, <2>6
<1>6. g[R] = h[R]
  BY <1>2, <1>4, <1>5
<1>7. g[S] = f[Some(S)] + g[R]
  BY <1>1 DEF IsSum, R
<1>8. SumFunctionOnSet(f, R) = g[R] /\ SumFunctionOnSet(f, S) = g[S]
  BY <1>1, <1>3, <1>6
<1>. QED
  BY <1>7, <1>8 DEF R

\* A sum of naturals is one, whichever element is added last.
LEMMA SumAny ==
  ASSUME NEW f, NEW S, IsFiniteSet(S), \A x \in S : f[x] \in Nat
  PROVE  /\ SumFunctionOnSet(f, S) \in Nat
         /\ \A x \in S : SumFunctionOnSet(f, S) = f[x] + SumFunctionOnSet(f, S \ {x})
<1>. DEFINE Sum(s) == SumFunctionOnSet(f, s)
            Good(s) == /\ Sum(s) \in Nat
                       /\ \A x \in s : Sum(s) = f[x] + Sum(s \ {x})
            Bad == {n \in Nat : \E s \in SUBSET S : Cardinality(s) = n /\ ~Good(s)}
<1>0. \A s \in SUBSET S : IsFiniteSet(s) /\ Cardinality(s) \in Nat
  BY FS_Subset, FS_CardinalityType
<1>1. Bad = {}
  <2>. SUFFICES ASSUME Bad # {} PROVE FALSE
    OBVIOUS
  <2>1. PICK n \in Bad : \A m \in Bad : n <= m
    BY NatLeast
  <2>2. PICK s \in SUBSET S : Cardinality(s) = n /\ ~Good(s)
    BY <2>1
  <2>3. s # {}
    BY <2>2, SumEmpty
  <2>4. \A x \in s : Good(s \ {x})
    <3>. TAKE x \in s
    <3>1. s \ {x} \in SUBSET S /\ Cardinality(s \ {x}) = n - 1
      BY <1>0, <2>2, FS_RemoveElement
    <3>2. Cardinality(s \ {x}) \in Nat /\ n - 1 \notin Bad
      BY <1>0, <2>1, <3>1
    <3>. QED
      BY <3>1, <3>2
  <2>. DEFINE y == Some(s)
  <2>5. y \in s /\ f[y] \in Nat /\ Sum(s) = f[y] + Sum(s \ {y})
    BY <1>0, <2>3, SumSome, SomeLess
  <2>. HIDE DEF y
  <2>6. Sum(s \ {y}) \in Nat
    BY <2>4, <2>5
  <2>7. ASSUME NEW x \in s, x # y PROVE Sum(s) = f[x] + Sum(s \ {x})
    <3>. DEFINE rest == (s \ {x}) \ {y}
    <3>1. rest = (s \ {y}) \ {x} /\ rest \in SUBSET S
      OBVIOUS
    <3>2. Sum(s \ {y}) = f[x] + Sum(rest)
      <4>1. x \in s \ {y}
        BY <2>7
      <4>2. \A z \in s \ {y} : Sum(s \ {y}) = f[z] + Sum((s \ {y}) \ {z})
        BY <2>4, <2>5
      <4>3. Sum(s \ {y}) = f[x] + Sum((s \ {y}) \ {x})
        BY <4>1, <4>2
      <4>. HIDE DEF Sum, rest
      <4>. QED
        BY <3>1, <4>3
    <3>3. Sum(s \ {x}) = f[y] + Sum(rest)
      <4>1. y \in s \ {x}
        BY <2>5, <2>7
      <4>2. \A z \in s \ {x} : Sum(s \ {x}) = f[z] + Sum((s \ {x}) \ {z})
        BY <2>4, <2>7
      <4>. QED
        BY <4>1, <4>2
    <3>4. Sum(rest) \in Nat
      <4>1. Cardinality(rest) = n - 2 /\ Cardinality(rest) \in Nat
        <5>1. /\ Cardinality(s \ {x}) = n - 1
              /\ IsFiniteSet(s \ {x}) /\ IsFiniteSet(s)
          BY <1>0, <2>2, <2>7, FS_RemoveElement
        <5>2. y \in s \ {x}
          BY <2>5, <2>7
        <5>. HIDE DEF y
        <5>3. Cardinality((s \ {x}) \ {y}) = Cardinality(s \ {x}) - 1
          BY <5>1, <5>2, FS_RemoveElement
        <5>4. Cardinality(rest) \in Nat
          BY <1>0, <3>1
        <5>. QED
          BY <5>1, <5>3, <5>4
      <4>2. Cardinality(rest) \notin Bad
        <5>1. n \in Nat
          OBVIOUS
        <5>. HIDE DEF Bad
        <5>. QED
          BY <2>1, <4>1, <5>1
      <4>. QED
        BY <3>1, <4>1, <4>2
    <3>5. f[x] \in Nat
      BY <2>2
    <3>. HIDE DEF Sum, rest
    <3>. QED
      BY <2>5, <3>2, <3>3, <3>4, <3>5
  <2>8. Good(s)
    <3>1. Sum(s) \in Nat
      BY <2>5, <2>6
    <3>. QED
      BY <2>5, <2>7, <3>1
  <2>. QED
    BY <2>2, <2>8
<1>. QED
  BY <1>0, <1>1

\* A part of the elements, each with at most its value, sums to at most as much.
LEMMA SumMonotone ==
  ASSUME NEW T, IsFiniteSet(T), NEW S, S \subseteq T, NEW f, NEW g,
         \A x \in S : f[x] \in Nat /\ f[x] <= g[x], \A x \in T : g[x] \in Nat
  PROVE  SumFunctionOnSet(f, S) <= SumFunctionOnSet(g, T)
<1>. DEFINE F(s) == SumFunctionOnSet(f, s)
            G(s) == SumFunctionOnSet(g, s)
            Good(s) == F(s \cap S) <= G(s)
            Bad == {n \in Nat : \E s \in SUBSET T : Cardinality(s) = n /\ ~Good(s)}
<1>0. \A s \in SUBSET T : IsFiniteSet(s) /\ Cardinality(s) \in Nat
  BY FS_Subset, FS_CardinalityType
<1>1. Bad = {}
  <2>. SUFFICES ASSUME Bad # {} PROVE FALSE
    OBVIOUS
  <2>1. PICK n \in Bad : \A m \in Bad : n <= m
    BY NatLeast
  <2>2. PICK s \in SUBSET T : Cardinality(s) = n /\ ~Good(s)
    BY <2>1
  <2>3. s # {}
    <3>. SUFFICES ASSUME s = {} PROVE FALSE
      OBVIOUS
    <3>1. s \cap S = {}
      OBVIOUS
    <3>2. F({}) = 0 /\ G({}) = 0
      BY SumEmpty
    <3>. QED
      BY <2>2, <3>1, <3>2
  <2>4. PICK x \in s : TRUE
    BY <2>3
  <2>. DEFINE r == s \ {x}
  <2>5. r \in SUBSET T /\ Cardinality(r) = n - 1 /\ Cardinality(r) \in Nat
    BY <1>0, <2>2, FS_RemoveElement
  <2>6. Good(r)
    <3>1. Cardinality(r) \notin Bad
      <4>1. n \in Nat
        OBVIOUS
      <4>. HIDE DEF Bad
      <4>. QED
        BY <2>1, <2>5, <4>1
    <3>. QED
      BY <2>5, <3>1
  <2>7. G(s) = g[x] + G(r) /\ g[x] \in Nat /\ G(r) \in Nat
    BY <1>0, <2>2, <2>5, SumAny
  <2>8. F(r \cap S) \in Nat /\ IsFiniteSet(s \cap S)
    BY <1>0, SumAny
  <2>9. CASE x \notin S
    <3>1. s \cap S = r \cap S
      BY <2>9
    <3>2. F(s \cap S) <= G(s)
      <4>1. F(r \cap S) <= G(r)
        BY <2>6
      <4>2. F(s \cap S) = F(r \cap S)
        BY <3>1
      <4>. HIDE DEF F, G, r
      <4>. QED
        BY <2>7, <2>8, <4>1, <4>2
    <3>. QED
      BY <2>2, <3>2
  <2>10. CASE x \in S
    <3>1. (s \cap S) \ {x} = r \cap S /\ x \in s \cap S
      BY <2>10
    <3>2. F(s \cap S) = f[x] + F(r \cap S)
      BY <2>8, <3>1, SumAny
    <3>3. f[x] \in Nat /\ f[x] <= g[x]
      BY <2>10
    <3>. HIDE DEF F, G, r
    <3>. QED
      BY <2>2, <2>6, <2>7, <2>8, <3>2, <3>3
  <2>. QED
    BY <2>9, <2>10
<1>2. Good(T)
  BY <1>0, <1>1
<1>3. T \cap S = S
  OBVIOUS
<1>. QED
  BY <1>2, <1>3

\* The same of functions.
LEMMA SumAtMost ==
  ASSUME NEW f, NEW g, IsFiniteSet(DOMAIN g), DOMAIN f \subseteq DOMAIN g,
         \A x \in DOMAIN f : f[x] \in Nat /\ f[x] <= g[x],
         \A x \in DOMAIN g : g[x] \in Nat
  PROVE  /\ SumFunction(f) \in Nat /\ SumFunction(g) \in Nat
         /\ SumFunction(f) <= SumFunction(g)
<1>1. IsFiniteSet(DOMAIN f)
  BY FS_Subset
<1>. QED
  BY <1>1, SumAny, SumMonotone DEF SumFunction

\* One element more adds no more than the most it may be worth.
LEMMA SumOneMore ==
  ASSUME NEW f, NEW g, IsFiniteSet(DOMAIN g), NEW x, NEW n \in Nat,
         DOMAIN f \subseteq DOMAIN g \cup {x},
         \A y \in DOMAIN f : f[y] \in Nat,
         \A y \in DOMAIN f \ {x} : f[y] <= g[y],
         x \in DOMAIN f => f[x] <= n,
         \A y \in DOMAIN g : g[y] \in Nat
  PROVE  /\ SumFunction(f) \in Nat /\ SumFunction(g) \in Nat
         /\ SumFunction(f) <= SumFunction(g) + n
<1>. DEFINE R == DOMAIN f \ {x}
<1>1. IsFiniteSet(DOMAIN f) /\ IsFiniteSet(R)
  <2>1. IsFiniteSet(DOMAIN g \cup {x})
    BY FS_AddElement
  <2>. QED
    BY <2>1, FS_Subset
<1>2. SumFunction(f) \in Nat /\ SumFunction(g) \in Nat
  BY <1>1, SumAny DEF SumFunction
<1>3. SumFunctionOnSet(f, R) \in Nat
  BY <1>1, SumAny
<1>4. SumFunctionOnSet(f, R) <= SumFunction(g)
  BY SumMonotone DEF SumFunction
<1>5. SumFunction(f) <= SumFunctionOnSet(f, R) + n
  <2>1. CASE x \in DOMAIN f
    <3>1. SumFunction(f) = f[x] + SumFunctionOnSet(f, R)
      BY <1>1, <2>1, SumAny DEF SumFunction
    <3>2. f[x] \in Nat /\ f[x] <= n
      BY <2>1
    <3>. HIDE DEF R
    <3>. QED
      BY <1>3, <3>1, <3>2
  <2>2. CASE x \notin DOMAIN f
    <3>1. R = DOMAIN f
      BY <2>2
    <3>2. SumFunction(f) = SumFunctionOnSet(f, R)
      BY <3>1 DEF SumFunction
    <3>. HIDE DEF R
    <3>. QED
      BY <1>3, <3>2
  <2>. QED
    BY <2>1, <2>2
<1>. HIDE DEF R
<1>. QED
  BY <1>2, <1>3, <1>4, <1>5
=============================================================================
