------------------------------ MODULE SumLemmas ------------------------------
(***************************************************************************)
(* Sums over finite sets, as SumFunction and MapThenSumSet of the community *)
(* modules compute them: one element after the other, in a fixed order that *)
(* nothing may depend on.  What a proof needs to know of a sum: its type,   *)
(* that it depends on the summands alone, and that an element may be taken  *)
(* out of it.                                                               *)
(***************************************************************************)
EXTENDS Integers, FiniteSets, FiniteSetsExt, Functions, FiniteSetTheorems,
        WellFoundedInduction, TLAPS

OneOf(s) == CHOOSE x \in s : TRUE

\* g is the sum of f over every set in D.
IsSum(g, f, D) ==
    g = [s \in D |-> IF s = {} THEN 0 ELSE f[OneOf(s)] + g[s \ {OneOf(s)}]]

SumOn(f, S) == (CHOOSE g : IsSum(g, f, SUBSET S))[S]

\* The definition of the library, in these terms.
LEMMA SumOnDef ==
    ASSUME NEW f, NEW S
    PROVE  SumFunctionOnSet(f, S) = SumOn(f, S)
  BY DEF SumFunctionOnSet, FoldFunctionOnSet, MapThenFoldSet, SumOn, IsSum, OneOf

LEMMA OneOfIn ==
    ASSUME NEW s, s # {}
    PROVE  OneOf(s) \in s
  BY DEF OneOf

\* A set of naturals that is not empty has a smallest element.
LEMMA SmallestNat ==
    ASSUME NEW T \in SUBSET Nat, T # {}
    PROVE  \E n \in T : \A m \in T : n <= m
<1>1. PICK n \in T : \A m \in T : ~(<<m, n>> \in OpToRel(<, Nat))
  BY NatLessThanWellFounded, WFMin
<1>2. \A m \in T : ~(m < n)
  BY <1>1 DEF OpToRel
<1>3. QED
  BY <1>2

UpTo(S, n) == {s \in SUBSET S : Cardinality(s) <= n}

\* A function that sums the small subsets of S extends to the next larger ones.
LEMMA SumsGrow ==
    ASSUME NEW f, NEW S, IsFiniteSet(S), NEW n \in Nat, NEW g, IsSum(g, f, UpTo(S, n))
    PROVE  \E h : IsSum(h, f, UpTo(S, n + 1))
<1> DEFINE h == [s \in UpTo(S, n + 1) |->
                   IF s = {} THEN 0 ELSE f[OneOf(s)] + g[s \ {OneOf(s)}]]
<1>1. ASSUME NEW s \in UpTo(S, n + 1), s # {}
      PROVE  h[s \ {OneOf(s)}] = g[s \ {OneOf(s)}]
  <2> DEFINE u == s \ {OneOf(s)}
  <2>1. IsFiniteSet(s) /\ OneOf(s) \in s /\ Cardinality(s) <= n + 1 /\ s \subseteq S
    BY <1>1, OneOfIn, FS_Subset DEF UpTo
  <2>2. Cardinality(s) \in Nat /\ Cardinality(u) = Cardinality(s) - 1
    BY <2>1, FS_RemoveElement, FS_CardinalityType
  <2>3. u \in UpTo(S, n) /\ u \in UpTo(S, n + 1)
    BY <2>1, <2>2 DEF UpTo
  <2>4. g[u] = IF u = {} THEN 0 ELSE f[OneOf(u)] + g[u \ {OneOf(u)}]
    BY <2>3 DEF IsSum
  <2>5. QED
    BY <2>3, <2>4
<1>2. h = [s \in UpTo(S, n + 1) |->
             IF s = {} THEN 0 ELSE f[OneOf(s)] + h[s \ {OneOf(s)}]]
  BY <1>1
<1>3. QED
  BY <1>2 DEF IsSum

\* There is a function that sums the subsets of a finite set.
LEMMA SumsExist ==
    ASSUME NEW f, NEW S, IsFiniteSet(S)
    PROVE  \E g : IsSum(g, f, SUBSET S)
<1> DEFINE Bad == {n \in Nat : ~\E g : IsSum(g, f, UpTo(S, n))}
<1>1. Bad = {}
  <2> SUFFICES ASSUME Bad # {} PROVE FALSE
    OBVIOUS
  <2>1. PICK n \in Bad : \A m \in Bad : n <= m
    BY SmallestNat
  <2>2. CASE n = 0
    <3> DEFINE g == [s \in {{}} |-> 0]
    <3>1. UpTo(S, 0) = {{}}
      <4>1. ASSUME NEW s \in SUBSET S, Cardinality(s) <= 0 PROVE s = {}
        <5>1. IsFiniteSet(s) /\ Cardinality(s) \in Nat
          BY FS_Subset, FS_CardinalityType
        <5>2. QED
          BY <4>1, <5>1, FS_EmptySet
      <4>2. {} \in UpTo(S, 0)
        BY FS_EmptySet DEF UpTo
      <4>3. QED
        BY <4>1, <4>2 DEF UpTo
    <3>2. g = [s \in {{}} |-> IF s = {} THEN 0 ELSE f[OneOf(s)] + g[s \ {OneOf(s)}]]
      OBVIOUS
    <3>3. QED
      BY <2>1, <2>2, <3>1, <3>2 DEF IsSum
  <2>3. CASE n # 0
    <3>1. n - 1 \in Nat /\ n - 1 \notin Bad
      BY <2>1, <2>3
    <3>2. PICK g : IsSum(g, f, UpTo(S, n - 1))
      BY <3>1
    <3>3. \E h : IsSum(h, f, UpTo(S, (n - 1) + 1))
      BY <3>1, <3>2, SumsGrow
    <3>4. (n - 1) + 1 = n
      BY <2>1
    <3>5. QED
      BY <2>1, <3>3, <3>4
  <2>4. QED
    BY <2>2, <2>3
<1>2. Cardinality(S) \in Nat
  BY FS_CardinalityType
<1>3. UpTo(S, Cardinality(S)) = SUBSET S
  BY FS_Subset DEF UpTo
<1>4. PICK g : IsSum(g, f, UpTo(S, Cardinality(S)))
  BY <1>1, <1>2
<1>5. QED
  BY <1>3, <1>4

\* A nonempty set of finite sets of one universe has a smallest element.
LEMMA SmallestSet ==
    ASSUME NEW S, IsFiniteSet(S), NEW T \in SUBSET SUBSET S, T # {}
    PROVE  \E s \in T : \A u \in T : u \subseteq s => u = s
<1> DEFINE Sizes == {n \in Nat : \E s \in T : Cardinality(s) = n}
<1>1. \A s \in SUBSET S : IsFiniteSet(s) /\ Cardinality(s) \in Nat
  BY FS_Subset, FS_CardinalityType
<1>2. Sizes # {}
  BY <1>1
<1>3. PICK n \in Sizes : \A m \in Sizes : n <= m
  BY <1>2, SmallestNat
<1>4. PICK s \in T : Cardinality(s) = n
  BY <1>3
<1>5. ASSUME NEW u \in T, u \subseteq s PROVE u = s
  <2>1. Cardinality(u) <= Cardinality(s) /\ n <= Cardinality(u)
    BY <1>1, <1>3, <1>5, FS_Subset
  <2>2. Cardinality(u) = Cardinality(s)
    BY <1>1, <1>4, <2>1
  <2>3. QED
    BY <1>1, <1>5, <2>2, FS_Subset
<1>6. QED
  BY <1>4, <1>5

\* Two functions that sum f agree where both do.
LEMMA SumsAgree ==
    ASSUME NEW f1, NEW f2, NEW S2, NEW S1, NEW S \in SUBSET S1, IsFiniteSet(S),
           S \subseteq S2, \A x \in S : f1[x] = f2[x],
           NEW g1, NEW g2, IsSum(g1, f1, SUBSET S1), IsSum(g2, f2, SUBSET S2)
    PROVE  \A s \in SUBSET S : g1[s] = g2[s]
<1> DEFINE Bad == {s \in SUBSET S : g1[s] # g2[s]}
<1> SUFFICES ASSUME Bad # {} PROVE FALSE
  OBVIOUS
<1>0. Bad \in SUBSET SUBSET S
  OBVIOUS
<1>1. PICK s \in Bad : \A u \in Bad : u \subseteq s => u = s
  <2> HIDE DEF Bad
  <2>1. QED
    BY <1>0, SmallestSet
<1>2. /\ g1[s] = IF s = {} THEN 0 ELSE f1[OneOf(s)] + g1[s \ {OneOf(s)}]
      /\ g2[s] = IF s = {} THEN 0 ELSE f2[OneOf(s)] + g2[s \ {OneOf(s)}]
  BY <1>1 DEF IsSum
<1>3. s # {} /\ OneOf(s) \in s
  BY <1>1, <1>2, OneOfIn
<1>4. s \ {OneOf(s)} \notin Bad
  BY <1>1, <1>3
<1>5. g1[s \ {OneOf(s)}] = g2[s \ {OneOf(s)}] /\ f1[OneOf(s)] = f2[OneOf(s)]
  BY <1>1, <1>3, <1>4
<1>6. QED
  BY <1>1, <1>2, <1>5

LEMMA SumOnSums ==
    ASSUME NEW f, NEW S, IsFiniteSet(S)
    PROVE  \E g : IsSum(g, f, SUBSET S) /\ SumOn(f, S) = g[S]
  BY SumsExist DEF SumOn

\* A sum depends on the summands alone.
LEMMA SumSame ==
    ASSUME NEW f1, NEW f2, NEW S, IsFiniteSet(S), \A x \in S : f1[x] = f2[x]
    PROVE  SumOn(f1, S) = SumOn(f2, S)
<1>1. PICK g1 : IsSum(g1, f1, SUBSET S) /\ SumOn(f1, S) = g1[S]
  BY SumOnSums
<1>2. PICK g2 : IsSum(g2, f2, SUBSET S) /\ SumOn(f2, S) = g2[S]
  BY SumOnSums
<1>3. \A s \in SUBSET S : g1[s] = g2[s]
  BY <1>1, <1>2, SumsAgree
<1>4. QED
  BY <1>1, <1>2, <1>3

\* The recursion that defines a sum.
LEMMA SumStep ==
    ASSUME NEW f, NEW S, IsFiniteSet(S)
    PROVE  SumOn(f, S) = IF S = {} THEN 0
                         ELSE f[OneOf(S)] + SumOn(f, S \ {OneOf(S)})
<1>1. PICK g : IsSum(g, f, SUBSET S) /\ SumOn(f, S) = g[S]
  BY SumOnSums
<1>2. g[S] = IF S = {} THEN 0 ELSE f[OneOf(S)] + g[S \ {OneOf(S)}]
  BY <1>1 DEF IsSum
<1>3. CASE S # {}
  <2> DEFINE U == S \ {OneOf(S)}
  <2>1. IsFiniteSet(U) /\ U \subseteq S
    BY FS_Subset
  <2>2. PICK h : IsSum(h, f, SUBSET U) /\ SumOn(f, U) = h[U]
    BY <2>1, SumOnSums
  <2>3. SUBSET U \subseteq SUBSET S
    BY <2>1
  <2>4. \A s \in SUBSET U : g[s] = h[s]
    <3>1. /\ IsFiniteSet(U) /\ U \in SUBSET S /\ U \subseteq U
          /\ IsSum(g, f, SUBSET S) /\ IsSum(h, f, SUBSET U)
          /\ \A x \in U : f[x] = f[x]
      BY <1>1, <2>1, <2>2
    <3> HIDE DEF U
    <3>2. QED
      BY <3>1, SumsAgree
  <2>5. QED
    BY <1>1, <1>2, <1>3, <2>2, <2>4
<1>4. QED
  BY <1>1, <1>2, <1>3

\* A sum of integers is an integer, and a sum of naturals a natural.
LEMMA SumInt ==
    ASSUME NEW f, NEW S, IsFiniteSet(S), \A x \in S : f[x] \in Int
    PROVE  SumOn(f, S) \in Int
<1> DEFINE Bad == {s \in SUBSET S : SumOn(f, s) \notin Int}
<1>1. SumOn(f, {}) = 0
  BY FS_EmptySet, SumStep
<1>2. {} \notin Bad
  BY <1>1
<1>3. ASSUME Bad # {} PROVE FALSE
  <2>1. Bad \in SUBSET SUBSET S
    OBVIOUS
  <2>2. PICK s \in Bad : \A u \in Bad : u \subseteq s => u = s
    <3> HIDE DEF Bad
    <3>1. QED
      BY <1>3, <2>1, SmallestSet
  <2>3. s # {} /\ s \subseteq S /\ IsFiniteSet(s)
    BY <1>2, <2>2, FS_Subset
  <2>4. OneOf(s) \in s
    BY <2>3, OneOfIn
  <2>5. SumOn(f, s \ {OneOf(s)}) \in Int /\ f[OneOf(s)] \in Int
    BY <2>2, <2>3, <2>4
  <2>6. SumOn(f, s) = f[OneOf(s)] + SumOn(f, s \ {OneOf(s)})
    BY <2>3, SumStep
  <2>7. QED
    BY <2>2, <2>5, <2>6
<1>4. QED
  BY <1>3

LEMMA SumNat ==
    ASSUME NEW f, NEW S, IsFiniteSet(S), \A x \in S : f[x] \in Nat
    PROVE  SumOn(f, S) \in Nat
<1> DEFINE Bad == {s \in SUBSET S : SumOn(f, s) \notin Nat}
<1>1. SumOn(f, {}) = 0
  BY FS_EmptySet, SumStep
<1>2. {} \notin Bad
  BY <1>1
<1>3. ASSUME Bad # {} PROVE FALSE
  <2>1. Bad \in SUBSET SUBSET S
    OBVIOUS
  <2>2. PICK s \in Bad : \A u \in Bad : u \subseteq s => u = s
    <3> HIDE DEF Bad
    <3>1. QED
      BY <1>3, <2>1, SmallestSet
  <2>3. s # {} /\ s \subseteq S /\ IsFiniteSet(s)
    BY <1>2, <2>2, FS_Subset
  <2>4. OneOf(s) \in s
    BY <2>3, OneOfIn
  <2>5. SumOn(f, s \ {OneOf(s)}) \in Nat /\ f[OneOf(s)] \in Nat
    BY <2>2, <2>3, <2>4
  <2>6. SumOn(f, s) = f[OneOf(s)] + SumOn(f, s \ {OneOf(s)})
    BY <2>3, SumStep
  <2>7. QED
    BY <2>2, <2>5, <2>6
<1>4. QED
  BY <1>3

\* Any element may be taken out of a sum of integers.
LEMMA SumRemove ==
    ASSUME NEW f, NEW S, IsFiniteSet(S), \A y \in S : f[y] \in Int, NEW x \in S
    PROVE  SumOn(f, S) = f[x] + SumOn(f, S \ {x})
<1> DEFINE Bad == {s \in SUBSET S : \E y \in s : SumOn(f, s) # f[y] + SumOn(f, s \ {y})}
<1>1. \A s \in SUBSET S : /\ IsFiniteSet(s) /\ SumOn(f, s) \in Int
                          /\ s # {} => OneOf(s) \in s
  <2> SUFFICES ASSUME NEW s \in SUBSET S
               PROVE  IsFiniteSet(s) /\ SumOn(f, s) \in Int /\ (s # {} => OneOf(s) \in s)
    OBVIOUS
  <2>1. IsFiniteSet(s)
    BY FS_Subset
  <2>2. \A y \in s : f[y] \in Int
    OBVIOUS
  <2>3. QED
    BY <2>1, <2>2, SumInt, OneOfIn
<1>2. \A s \in SUBSET S : s # {} =>
        SumOn(f, s) = f[OneOf(s)] + SumOn(f, s \ {OneOf(s)})
  BY <1>1, SumStep
<1>3. ASSUME Bad # {} PROVE FALSE
  <2>1. PICK s \in Bad : \A u \in Bad : u \subseteq s => u = s
    <3>1. Bad \in SUBSET SUBSET S
      OBVIOUS
    <3> HIDE DEF Bad
    <3>2. QED
      BY <1>3, <3>1, SmallestSet
  <2>2. PICK y \in s : SumOn(f, s) # f[y] + SumOn(f, s \ {y})
    BY <2>1
  <2> DEFINE z == OneOf(s)
             rest == (s \ {z}) \ {y}
  <2>3. z \in s /\ z # y
    BY <1>1, <1>2, <2>1, <2>2
  <2>4. s \ {z} \notin Bad /\ s \ {y} \notin Bad
    BY <2>1, <2>2, <2>3
  <2>5. /\ SumOn(f, s) = f[z] + SumOn(f, s \ {z})
        /\ SumOn(f, s \ {z}) = f[y] + SumOn(f, rest)
    BY <1>2, <2>1, <2>2, <2>3, <2>4
  <2>6. SumOn(f, s \ {y}) = f[z] + SumOn(f, rest)
    <3>1. (s \ {y}) \ {z} = rest
      OBVIOUS
    <3>2. z \in s \ {y} /\ s \ {y} \in SUBSET S
      BY <2>1, <2>3
    <3>3. QED
      BY <2>4, <3>1, <3>2
  <2>7. f[z] \in Int /\ f[y] \in Int /\ SumOn(f, rest) \in Int
    BY <1>1, <2>1, <2>2, <2>3
  <2>8. QED
    BY <2>2, <2>5, <2>6, <2>7
<1>4. S \notin Bad
  BY <1>3
<1>5. QED
  BY <1>4

-----------------------------------------------------------------------------
(* Totals: sums over the whole domain of a function.                        *)

Naturals(S) == S \subseteq Nat

\* A function on a finite set that is not empty takes a greatest value.
LEMMA GreatestValue ==
    ASSUME NEW S, IsFiniteSet(S), S # {}, NEW f, \A x \in S : f[x] \in Nat
    PROVE  \E x \in S : \A y \in S : f[y] <= f[x]
<1> DEFINE Bad == {u \in SUBSET S : u # {} /\ \A x \in u : \E y \in u : ~(f[y] <= f[x])}
<1>1. ASSUME Bad # {} PROVE FALSE
  <2>1. PICK s \in Bad : \A u \in Bad : u \subseteq s => u = s
    <3>1. Bad \in SUBSET SUBSET S
      OBVIOUS
    <3> HIDE DEF Bad
    <3>2. QED
      BY <1>1, <3>1, SmallestSet
  <2>2. s # {} /\ \A x \in s : f[x] \in Nat
    BY <2>1
  <2>3. PICK x \in s : TRUE
    BY <2>2
  <2>4. s \ {x} # {}
    BY <2>1, <2>2, <2>3
  <2>5. PICK z \in s \ {x} : \A y \in s \ {x} : f[y] <= f[z]
    <3>1. s \ {x} \notin Bad
      BY <2>1, <2>3
    <3>2. QED
      BY <2>1, <2>4, <3>1
  <2>6. CASE f[x] <= f[z]
    <3>1. \A y \in s : f[y] <= f[z]
      BY <2>5, <2>6
    <3>2. QED
      BY <2>1, <2>5, <3>1
  <2>7. CASE ~(f[x] <= f[z])
    <3>1. \A y \in s : f[y] <= f[x]
      BY <2>2, <2>3, <2>5, <2>7
    <3>2. QED
      BY <2>1, <2>3, <3>1
  <2>8. QED
    BY <2>6, <2>7
<1>2. S \notin Bad
  BY <1>1
<1>3. QED
  BY <1>2

\* A finite set of naturals that is not empty has a greatest element.
LEMMA GreatestNat ==
    ASSUME NEW S, IsFiniteSet(S), Naturals(S), S # {}
    PROVE  \E n \in S : \A m \in S : m <= n
<1> DEFINE id == [n \in S |-> n]
<1>1. \A n \in S : id[n] \in Nat
  BY DEF Naturals
<1>2. PICK n \in S : \A m \in S : id[m] <= id[n]
  <2> HIDE DEF id
  <2>1. QED
    BY <1>1, GreatestValue
<1>3. QED
  BY <1>2

\* Zeros add nothing to a sum.
LEMMA SumWiden ==
    ASSUME NEW f, NEW S, IsFiniteSet(S), NEW T \in SUBSET S,
           \A x \in S : f[x] \in Int, \A x \in S \ T : f[x] = 0
    PROVE  SumOn(f, S) = SumOn(f, T)
<1> DEFINE Bad == {s \in SUBSET S : T \subseteq s /\ SumOn(f, s) # SumOn(f, T)}
<1>1. ASSUME Bad # {} PROVE FALSE
  <2>1. PICK s \in Bad : \A u \in Bad : u \subseteq s => u = s
    <3>1. Bad \in SUBSET SUBSET S
      OBVIOUS
    <3> HIDE DEF Bad
    <3>2. QED
      BY <1>1, <3>1, SmallestSet
  <2>2. PICK x \in s : x \notin T
    BY <2>1
  <2>3. s \ {x} \notin Bad
    BY <2>1, <2>2
  <2>4. SumOn(f, s \ {x}) = SumOn(f, T)
    BY <2>1, <2>2, <2>3
  <2>5. SumOn(f, s) = f[x] + SumOn(f, s \ {x})
    <3>1. IsFiniteSet(s) /\ \A y \in s : f[y] \in Int
      BY <2>1, FS_Subset
    <3>2. QED
      BY <3>1, SumRemove
  <2>6. SumOn(f, T) \in Int /\ f[x] = 0
    BY <2>1, <2>2, FS_Subset, SumInt
  <2>7. QED
    BY <2>1, <2>4, <2>5, <2>6
<1>2. S \notin Bad
  BY <1>1
<1>3. QED
  BY <1>2

\* f is a function with finitely many arguments and integer values.
Summable(f) == IsFiniteSet(DOMAIN f) /\ \A x \in DOMAIN f : f[x] \in Int

LEMMA TotalInt ==
    ASSUME NEW f, Summable(f)
    PROVE  SumFunction(f) = SumOn(f, DOMAIN f) /\ SumFunction(f) \in Int
  BY SumOnDef, SumInt DEF SumFunction, Summable

LEMMA TotalNone ==
    ASSUME NEW f, DOMAIN f = {}
    PROVE  Summable(f) /\ SumFunction(f) = 0
<1>1. IsFiniteSet(DOMAIN f)
  BY FS_EmptySet
<1>2. SumOn(f, DOMAIN f) = 0
  BY <1>1, SumStep
<1>3. QED
  BY <1>1, <1>2, SumOnDef DEF SumFunction, Summable

\* One summand more.
LEMMA TotalAdd ==
    ASSUME NEW f, NEW g, Summable(f), NEW x, x \notin DOMAIN f,
           DOMAIN g = DOMAIN f \cup {x}, g[x] \in Int,
           \A y \in DOMAIN f : g[y] = f[y]
    PROVE  Summable(g) /\ SumFunction(g) = SumFunction(f) + g[x]
<1>1. Summable(g)
  BY FS_AddElement DEF Summable
<1>2. SumOn(g, DOMAIN g) = g[x] + SumOn(g, DOMAIN g \ {x})
  BY <1>1, SumRemove DEF Summable
<1>3. DOMAIN g \ {x} = DOMAIN f
  OBVIOUS
<1>4. SumOn(g, DOMAIN f) = SumOn(f, DOMAIN f)
  BY SumSame DEF Summable
<1>5. QED
  BY <1>1, <1>2, <1>3, <1>4, TotalInt

\* One summand changed.
LEMMA TotalChange ==
    ASSUME NEW f, NEW g, Summable(f), NEW x \in DOMAIN f,
           DOMAIN g = DOMAIN f, g[x] \in Int,
           \A y \in DOMAIN f \ {x} : g[y] = f[y]
    PROVE  Summable(g) /\ SumFunction(g) = SumFunction(f) - f[x] + g[x]
<1>1. Summable(g)
  BY DEF Summable
<1> DEFINE rest == DOMAIN f \ {x}
<1>2. /\ SumOn(g, DOMAIN f) = g[x] + SumOn(g, rest)
      /\ SumOn(f, DOMAIN f) = f[x] + SumOn(f, rest)
  BY <1>1, SumRemove DEF Summable
<1>3. IsFiniteSet(rest) /\ \A y \in rest : f[y] \in Int
  BY FS_Subset DEF Summable
<1>4. SumOn(g, rest) = SumOn(f, rest) /\ SumOn(f, rest) \in Int /\ f[x] \in Int
  <2>1. f[x] \in Int
    BY DEF Summable
  <2>2. \A y \in rest : g[y] = f[y]
    OBVIOUS
  <2> HIDE DEF rest
  <2>3. QED
    BY <1>3, <2>1, <2>2, SumSame, SumInt
<1>5. QED
  BY <1>1, <1>2, <1>4, TotalInt

\* A sum of numbers up to m is at most as many times m.
LEMMA SumBounded ==
    ASSUME NEW f, NEW S, IsFiniteSet(S), NEW m \in Nat, \A x \in S : f[x] \in 0 .. m
    PROVE  SumOn(f, S) \in 0 .. Cardinality(S) * m
<1> DEFINE Bad == {s \in SUBSET S : ~(SumOn(f, s) \in Nat /\ SumOn(f, s) <= Cardinality(s) * m)}
<1>1. ASSUME Bad # {} PROVE FALSE
  <2>1. PICK s \in Bad : \A u \in Bad : u \subseteq s => u = s
    <3>1. Bad \in SUBSET SUBSET S
      OBVIOUS
    <3> HIDE DEF Bad
    <3>2. QED
      BY <1>1, <3>1, SmallestSet
  <2>2. IsFiniteSet(s) /\ s \subseteq S /\ Cardinality(s) \in Nat
    BY <2>1, FS_Subset, FS_CardinalityType
  <2>3. SumOn(f, s) = IF s = {} THEN 0 ELSE f[OneOf(s)] + SumOn(f, s \ {OneOf(s)})
    BY <2>2, SumStep
  <2>4. s # {}
    BY <2>1, <2>2, <2>3, FS_EmptySet
  <2>5. PICK z \in s : z = OneOf(s)
    BY <2>4, OneOfIn
  <2>6. s \ {z} \notin Bad
    BY <2>1, <2>5
  <2>7. /\ SumOn(f, s \ {z}) \in Nat
        /\ SumOn(f, s \ {z}) <= Cardinality(s \ {z}) * m
    BY <2>2, <2>6
  <2>8. Cardinality(s \ {z}) = Cardinality(s) - 1
    BY <2>2, <2>5, FS_RemoveElement
  <2>9. f[z] \in Nat /\ f[z] <= m
    BY <2>2, <2>5
  <2>10. (Cardinality(s) - 1) * m = Cardinality(s) * m - m
    BY <2>2
  <2>11. SumOn(f, s) \in Nat /\ SumOn(f, s) <= Cardinality(s) * m
    <3>1. SumOn(f, s) = f[z] + SumOn(f, s \ {z})
      BY <2>3, <2>4, <2>5
    <3> DEFINE c == Cardinality(s) * m
    <3>2. c \in Nat /\ SumOn(f, s \ {z}) <= c - m
      BY <2>2, <2>7, <2>8, <2>10
    <3> HIDE DEF c
    <3>3. SumOn(f, s) \in Nat /\ SumOn(f, s) <= c
      BY <2>7, <2>9, <3>1, <3>2
    <3>4. QED
      BY <3>3 DEF c
  <2>12. QED
    BY <2>1, <2>11
<1>2. SumOn(f, S) \in Nat /\ SumOn(f, S) <= Cardinality(S) * m
  BY <1>1
<1>3. QED
  BY <1>2, FS_CardinalityType

=============================================================================
