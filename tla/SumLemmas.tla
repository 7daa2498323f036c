------------------------------ MODULE SumLemmas ------------------------------
(***************************************************************************)
(* Induction over numbers and over finite sets, and what follows from it   *)
(* for the sums the ledger and the stock are accounted with.               *)
(*                                                                         *)
(* The library states induction for an operator P(_), which the provers    *)
(* cannot choose.  Here a predicate is the set of the things that satisfy  *)
(* it, and each induction follows from a minimal counterexample (WFMin).   *)
(***************************************************************************)
EXTENDS Integers, Functions, FiniteSetTheorems, TLAPS

Below == {ss \in Nat \X Nat : ss[1] < ss[2]}

\* Every set of numbers has a least member.
LEMMA LeastNatural ==
  ASSUME NEW S \in SUBSET Nat, S # {}
  PROVE  \E x \in S : \A y \in S : x <= y
<1>1. IsWellFoundedOn(Below, Nat)
  BY NatLessThanWellFounded DEF Below, OpToRel
<1>2. PICK x \in S : \A y \in S : <<y, x>> \notin Below
  BY <1>1, WFMin, Zenon
<1>3. \A y \in S : ~ (y < x)
  <2>1. TAKE y \in S
  <2>2. <<y, x>> \in Nat \X Nat
    OBVIOUS
  <2> QED BY <1>2, <2>2 DEF Below
<1> QED BY <1>3

\* Induction over the numbers: a set with 0 that is closed under successor holds them all.
LEMMA NatByInduction ==
  ASSUME NEW S, 0 \in S, \A n \in Nat : n \in S => n + 1 \in S
  PROVE  Nat \subseteq S
<1> SUFFICES ASSUME Nat \ S # {} PROVE FALSE
  OBVIOUS
<1>1. PICK n \in Nat \ S : \A m \in Nat \ S : n <= m
  BY LeastNatural
<1>2. n # 0 /\ n - 1 \in Nat /\ n - 1 \notin S
  BY <1>1
<1> QED BY <1>1, <1>2

\* Every collection of subsets of a finite set has a member that contains no other.
LEMMA SmallestSet ==
  ASSUME NEW D, IsFiniteSet(D), NEW Sets, Sets # {}, \A T \in Sets : T \subseteq D
  PROVE  \E T \in Sets : \A U \in Sets : U \subseteq T => U = T
<1>1. IsWellFoundedOn(StrictSubsetOrdering(D), FiniteSubsetsOf(D))
  BY FS_StrictSubsetOrderingWellFounded
<1>2. Sets \subseteq FiniteSubsetsOf(D)
  BY FS_FiniteSubsetsOfFinite
<1>3. PICK x \in Sets : \A y \in Sets : ~ (<<y, x>> \in StrictSubsetOrdering(D))
  BY <1>1, <1>2, WFMin, Zenon
<1>4. ASSUME NEW y \in Sets, y \subseteq x, y # x PROVE FALSE
  <2>1. <<y, x>> \in (SUBSET D) \X (SUBSET D)
    OBVIOUS
  <2>2. <<y, x>> \in StrictSubsetOrdering(D)
    BY <2>1, <1>4 DEF StrictSubsetOrdering
  <2> QED BY <2>2, <1>3
<1> QED BY <1>3, <1>4

\* Induction over the subsets of a finite set: a set of them that contains each subset
\* whose proper subsets it contains holds them all.
LEMMA FiniteByInduction ==
  ASSUME NEW D, IsFiniteSet(D), NEW Good,
         \A T \in SUBSET D : (\A U \in SUBSET T : U # T => U \in Good) => T \in Good
  PROVE  SUBSET D \subseteq Good
<1> SUFFICES ASSUME (SUBSET D) \ Good # {} PROVE FALSE
  OBVIOUS
<1> DEFINE Bad == (SUBSET D) \ Good
<1>1. PICK T \in Bad : \A U \in Bad : U \subseteq T => U = T
  <2>1. Bad # {} /\ \A T \in Bad : T \subseteq D
    OBVIOUS
  <2> HIDE DEF Bad
  <2> QED BY <2>1, SmallestSet
<1>2. \A U \in SUBSET T : U # T => U \in Good
  BY <1>1
<1> QED BY <1>1, <1>2

\* A finite set of numbers that is not empty has a greatest member under any measure.
LEMMA GreatestRank ==
  ASSUME NEW D, IsFiniteSet(D), D # {}, NEW rank, \A x \in D : rank[x] \in Nat
  PROVE  \E x \in D : \A y \in D : rank[y] <= rank[x]
<1> DEFINE Good == {T \in SUBSET D : T # {} => \E x \in T : \A y \in T : rank[y] <= rank[x]}
<1>1. ASSUME NEW T \in SUBSET D, \A U \in SUBSET T : U # T => U \in Good, T # {}
      PROVE  \E x \in T : \A y \in T : rank[y] <= rank[x]
  <2>1. PICK z \in T : TRUE
    BY <1>1
  <2>2. CASE T = {z}
    BY <2>2
  <2>3. CASE T # {z}
    <3>1. T \ {z} \in Good
      BY <2>1, <1>1
    <3>2. PICK x \in T \ {z} : \A y \in T \ {z} : rank[y] <= rank[x]
      BY <3>1, <2>3
    <3>3. CASE rank[z] <= rank[x]
      BY <3>2, <3>3
    <3>4. CASE rank[x] < rank[z]
      BY <3>2, <3>4
    <3> QED BY <3>3, <3>4
  <2> QED BY <2>2, <2>3
<1>2. \A T \in SUBSET D : (\A U \in SUBSET T : U # T => U \in Good) => T \in Good
  BY <1>1
<1> HIDE DEF Good
<1>3. D \in Good
  BY <1>2, FiniteByInduction
<1> QED BY <1>3 DEF Good

-----------------------------------------------------------------------------
(* Sums *)

Pick(s) == CHOOSE x \in s : TRUE

\* The recursion behind SumFunctionOnSet, over the sets of Dom.
IsSum(f, Dom, g) ==
  g = [s \in Dom |-> IF s = {} THEN 0 ELSE f[Pick(s)] + g[s \ {Pick(s)}]]

Solves(f, D, g) == IsSum(f, SUBSET D, g)

UpTo(D, n) == {s \in SUBSET D : Cardinality(s) <= n}

\* The recursion has a solution.
LEMMA SumExists ==
  ASSUME NEW D, IsFiniteSet(D), NEW f
  PROVE  \E g : Solves(f, D, g)
<1> DEFINE Good == {n \in Nat : \E g : IsSum(f, UpTo(D, n), g)}
<1>0. \A s \in SUBSET D : IsFiniteSet(s) /\ Cardinality(s) \in Nat
  BY FS_Subset, FS_CardinalityType
<1>1. 0 \in Good
  <2>1. \A s \in UpTo(D, 0) : s = {}
    BY <1>0, FS_EmptySet DEF UpTo
  <2>2. IsSum(f, UpTo(D, 0), [s \in UpTo(D, 0) |-> 0])
    BY <2>1 DEF IsSum
  <2> QED BY <2>2
<1>2. ASSUME NEW n \in Nat, n \in Good PROVE n + 1 \in Good
  <2>1. PICK g : IsSum(f, UpTo(D, n), g)
    BY <1>2
  <2> DEFINE h == [s \in UpTo(D, n + 1) |->
                     IF s = {} THEN 0 ELSE f[Pick(s)] + g[s \ {Pick(s)}]]
  <2>2. ASSUME NEW s \in UpTo(D, n + 1), s # {}
        PROVE  h[s \ {Pick(s)}] = g[s \ {Pick(s)}]
    <3>1. Pick(s) \in s
      BY <2>2 DEF Pick
    <3> DEFINE u == s \ {Pick(s)}
    <3>2. Cardinality(u) = Cardinality(s) - 1
      BY <3>1, <1>0, FS_RemoveElement DEF UpTo
    <3>3. u \in UpTo(D, n) /\ u \in UpTo(D, n + 1)
      BY <3>2, <1>0 DEF UpTo
    <3>4. g[u] = IF u = {} THEN 0 ELSE f[Pick(u)] + g[u \ {Pick(u)}]
      BY <3>3, <2>1 DEF IsSum
    <3>5. h[u] = IF u = {} THEN 0 ELSE f[Pick(u)] + g[u \ {Pick(u)}]
      BY <3>3
    <3> QED BY <3>4, <3>5
  <2>3. h = [s \in UpTo(D, n + 1) |-> IF s = {} THEN 0 ELSE f[Pick(s)] + h[s \ {Pick(s)}]]
    BY <2>2
  <2>4. IsSum(f, UpTo(D, n + 1), h)
    BY <2>3 DEF IsSum
  <2> QED BY <2>4
<1> HIDE DEF Good
<1>3. Cardinality(D) \in Good
  BY <1>0, <1>1, <1>2, NatByInduction
<1>4. UpTo(D, Cardinality(D)) = SUBSET D
  BY FS_Subset DEF UpTo
<1> QED BY <1>3, <1>4 DEF Good, Solves

\* Its value at a set depends on what f is there, and on nothing else.
LEMMA SumUnique ==
  ASSUME NEW D, IsFiniteSet(D), NEW E \in SUBSET D, NEW f, NEW h, NEW g1, NEW g2,
         Solves(f, D, g1), Solves(h, E, g2), \A x \in E : f[x] = h[x]
  PROVE  \A s \in SUBSET E : g1[s] = g2[s]
<1> DEFINE Good == {s \in SUBSET E : g1[s] = g2[s]}
<1>1. ASSUME NEW T \in SUBSET E, \A U \in SUBSET T : U # T => U \in Good
      PROVE  g1[T] = g2[T]
  <2>1. g1[T] = IF T = {} THEN 0 ELSE f[Pick(T)] + g1[T \ {Pick(T)}]
    BY DEF Solves, IsSum
  <2>2. g2[T] = IF T = {} THEN 0 ELSE h[Pick(T)] + g2[T \ {Pick(T)}]
    BY DEF Solves, IsSum
  <2>3. CASE T = {}
    BY <2>1, <2>2, <2>3
  <2>4. CASE T # {}
    <3>1. Pick(T) \in T
      BY <2>4 DEF Pick
    <3>2. T \ {Pick(T)} \in Good
      BY <3>1, <1>1
    <3> QED BY <2>1, <2>2, <2>4, <3>1, <3>2
  <2> QED BY <2>3, <2>4
<1>2. \A T \in SUBSET E : (\A U \in SUBSET T : U # T => U \in Good) => T \in Good
  BY <1>1
<1>3. IsFiniteSet(E)
  BY FS_Subset
<1> HIDE DEF Good
<1>4. SUBSET E \subseteq Good
  BY <1>2, <1>3, FiniteByInduction
<1> QED BY <1>4 DEF Good

LEMMA SumRestricts ==
  ASSUME NEW D, IsFiniteSet(D), NEW E \in SUBSET D, NEW f, NEW g1, NEW g2,
         Solves(f, D, g1), Solves(f, E, g2)
  PROVE  g1[E] = g2[E]
<1>1. \A s \in SUBSET E : g1[s] = g2[s]
  BY SumUnique
<1> QED BY <1>1

LEMMA SumIsSolution ==
  ASSUME NEW D, IsFiniteSet(D), NEW f
  PROVE  \E g : Solves(f, D, g) /\ SumFunctionOnSet(f, D) = g[D]
<1>1. SumFunctionOnSet(f, D) = (CHOOSE g : Solves(f, D, g))[D]
  BY DEF SumFunctionOnSet, FoldFunctionOnSet, MapThenFoldSet, Solves, IsSum, Pick
<1>2. \E g : Solves(f, D, g)
  BY SumExists
<1> QED BY <1>1, <1>2

\* Two functions that agree on a set have the same sum over it.
LEMMA SumAgrees ==
  ASSUME NEW D, IsFiniteSet(D), NEW f, NEW h, \A x \in D : f[x] = h[x]
  PROVE  SumFunctionOnSet(f, D) = SumFunctionOnSet(h, D)
<1>1. PICK g1 : Solves(f, D, g1) /\ SumFunctionOnSet(f, D) = g1[D]
  BY SumIsSolution
<1>2. PICK g2 : Solves(h, D, g2) /\ SumFunctionOnSet(h, D) = g2[D]
  BY SumIsSolution
<1>3. D \in SUBSET D
  OBVIOUS
<1>4. \A s \in SUBSET D : g1[s] = g2[s]
  BY <1>1, <1>2, <1>3, SumUnique
<1> QED BY <1>1, <1>2, <1>4

LEMMA SumOfNothing ==
  ASSUME NEW f PROVE SumFunctionOnSet(f, {}) = 0
<1>1. PICK g : Solves(f, {}, g) /\ SumFunctionOnSet(f, {}) = g[{}]
  BY SumIsSolution, FS_EmptySet
<1> QED BY <1>1 DEF Solves, IsSum

LEMMA SumOfPicked ==
  ASSUME NEW D, IsFiniteSet(D), D # {}, NEW f
  PROVE  /\ Pick(D) \in D
         /\ SumFunctionOnSet(f, D) = f[Pick(D)] + SumFunctionOnSet(f, D \ {Pick(D)})
<1> DEFINE E == D \ {Pick(D)}
<1>0. Pick(D) \in D /\ IsFiniteSet(E) /\ E \in SUBSET D
  BY FS_Subset DEF Pick
<1>1. PICK g1 : Solves(f, D, g1) /\ SumFunctionOnSet(f, D) = g1[D]
  BY SumIsSolution
<1>2. PICK g2 : Solves(f, E, g2) /\ SumFunctionOnSet(f, E) = g2[E]
  BY <1>0, SumIsSolution
<1>3. g1[D] = f[Pick(D)] + g1[E]
  BY <1>1 DEF Solves, IsSum
<1>4. g1[E] = g2[E]
  BY <1>0, <1>1, <1>2, SumRestricts
<1> QED BY <1>0, <1>1, <1>2, <1>3, <1>4

LEMMA SumIsInt ==
  ASSUME NEW D, IsFiniteSet(D), NEW f, \A x \in D : f[x] \in Int
  PROVE  SumFunctionOnSet(f, D) \in Int
<1> DEFINE Good == {T \in SUBSET D : SumFunctionOnSet(f, T) \in Int}
<1>1. ASSUME NEW T \in SUBSET D, \A U \in SUBSET T : U # T => U \in Good
      PROVE  SumFunctionOnSet(f, T) \in Int
  <2>1. CASE T = {}
    BY <2>1, SumOfNothing
  <2>2. CASE T # {}
    <3>1. /\ Pick(T) \in T
          /\ SumFunctionOnSet(f, T) = f[Pick(T)] + SumFunctionOnSet(f, T \ {Pick(T)})
      BY <2>2, FS_Subset, SumOfPicked
    <3>2. T \ {Pick(T)} \in Good
      BY <3>1, <1>1
    <3> QED BY <3>1, <3>2
  <2> QED BY <2>1, <2>2
<1>2. \A T \in SUBSET D : (\A U \in SUBSET T : U # T => U \in Good) => T \in Good
  BY <1>1
<1> HIDE DEF Good
<1>3. D \in Good
  BY <1>2, FiniteByInduction
<1> QED BY <1>3 DEF Good

\* Any member may be taken out of a sum first.
LEMMA SumSplits ==
  ASSUME NEW D, IsFiniteSet(D), NEW f, \A x \in D : f[x] \in Int, NEW z \in D
  PROVE  SumFunctionOnSet(f, D) = f[z] + SumFunctionOnSet(f, D \ {z})
<1> DEFINE Good == {T \in SUBSET D : \A x \in T :
                      SumFunctionOnSet(f, T) = f[x] + SumFunctionOnSet(f, T \ {x})}
<1>0. \A T \in SUBSET D : IsFiniteSet(T) /\ SumFunctionOnSet(f, T) \in Int
  BY FS_Subset, SumIsInt
<1>1. ASSUME NEW T \in SUBSET D, \A U \in SUBSET T : U # T => U \in Good, NEW x \in T
      PROVE  SumFunctionOnSet(f, T) = f[x] + SumFunctionOnSet(f, T \ {x})
  <2> DEFINE p == Pick(T)
  <2>1. p \in T /\ SumFunctionOnSet(f, T) = f[p] + SumFunctionOnSet(f, T \ {p})
    BY <1>0, SumOfPicked
  <2> HIDE DEF p
  <2>2. CASE p = x
    BY <2>1, <2>2
  <2>3. CASE p # x
    <3>1. T \ {p} \in Good /\ T \ {x} \in Good
      BY <2>1, <1>1
    <3>2. SumFunctionOnSet(f, T \ {p}) = f[x] + SumFunctionOnSet(f, (T \ {p}) \ {x})
      BY <3>1, <2>3
    <3>3. SumFunctionOnSet(f, T \ {x}) = f[p] + SumFunctionOnSet(f, (T \ {x}) \ {p})
      BY <3>1, <2>1, <2>3
    <3>4. (T \ {p}) \ {x} = (T \ {x}) \ {p}
      OBVIOUS
    <3> DEFINE rest == SumFunctionOnSet(f, (T \ {x}) \ {p})
    <3>5. rest \in Int /\ f[x] \in Int /\ f[p] \in Int
      BY <1>0, <2>1
    <3> HIDE DEF rest
    <3>6. SumFunctionOnSet(f, T) = f[p] + (f[x] + rest)
      BY <2>1, <3>2, <3>4 DEF rest
    <3>7. SumFunctionOnSet(f, T \ {x}) = f[p] + rest
      BY <3>3 DEF rest
    <3> QED BY <3>5, <3>6, <3>7
  <2> QED BY <2>2, <2>3
<1>2. \A T \in SUBSET D : (\A U \in SUBSET T : U # T => U \in Good) => T \in Good
  BY <1>1
<1> HIDE DEF Good
<1>3. D \in Good
  BY <1>2, FiniteByInduction
<1> QED BY <1>3 DEF Good

\* A number outside the set may be put into the sum.
LEMMA SumAdds ==
  ASSUME NEW D, IsFiniteSet(D), NEW z, z \notin D, NEW f, \A x \in D \cup {z} : f[x] \in Int
  PROVE  SumFunctionOnSet(f, D \cup {z}) = f[z] + SumFunctionOnSet(f, D)
<1>1. IsFiniteSet(D \cup {z}) /\ z \in D \cup {z} /\ (D \cup {z}) \ {z} = D
  BY FS_AddElement
<1> DEFINE E == D \cup {z}
<1>2. IsFiniteSet(E) /\ z \in E /\ \A x \in E : f[x] \in Int
  BY <1>1
<1> HIDE DEF E
<1>3. SumFunctionOnSet(f, E) = f[z] + SumFunctionOnSet(f, E \ {z})
  BY <1>2, SumSplits
<1> QED BY <1>1, <1>3 DEF E

\* What holds of the terms holds of the sums: if h + d = f + c at every member, then
\* the sums of h and d together are those of f and c.
LEMMA SumsBalance ==
  ASSUME NEW D, IsFiniteSet(D), NEW h, NEW d, NEW f, NEW c,
         \A x \in D : /\ h[x] \in Int /\ d[x] \in Int /\ f[x] \in Int /\ c[x] \in Int
                      /\ h[x] + d[x] = f[x] + c[x]
  PROVE  SumFunctionOnSet(h, D) + SumFunctionOnSet(d, D)
           = SumFunctionOnSet(f, D) + SumFunctionOnSet(c, D)
<1> DEFINE Equal(T) == SumFunctionOnSet(h, T) + SumFunctionOnSet(d, T)
                         = SumFunctionOnSet(f, T) + SumFunctionOnSet(c, T)
<1> DEFINE Good == {T \in SUBSET D : Equal(T)}
<1>0. \A T \in SUBSET D :
        /\ IsFiniteSet(T)
        /\ SumFunctionOnSet(h, T) \in Int /\ SumFunctionOnSet(d, T) \in Int
        /\ SumFunctionOnSet(f, T) \in Int /\ SumFunctionOnSet(c, T) \in Int
  BY FS_Subset, SumIsInt
<1>1. ASSUME NEW T \in SUBSET D, \A U \in SUBSET T : U # T => U \in Good
      PROVE  Equal(T)
  <2>1. CASE T = {}
    BY <2>1, SumOfNothing
  <2>2. CASE T # {}
    <3>1. PICK z \in T : TRUE
      BY <2>2
    <3>2. /\ SumFunctionOnSet(h, T) = h[z] + SumFunctionOnSet(h, T \ {z})
          /\ SumFunctionOnSet(d, T) = d[z] + SumFunctionOnSet(d, T \ {z})
          /\ SumFunctionOnSet(f, T) = f[z] + SumFunctionOnSet(f, T \ {z})
          /\ SumFunctionOnSet(c, T) = c[z] + SumFunctionOnSet(c, T \ {z})
      BY <1>0, <3>1, SumSplits
    <3>3. T \ {z} \in Good /\ T \ {z} \in SUBSET D
      BY <1>1, <3>1
    <3>4. Equal(T \ {z})
      BY <3>3
    <3>5. /\ SumFunctionOnSet(h, T \ {z}) \in Int /\ SumFunctionOnSet(d, T \ {z}) \in Int
          /\ SumFunctionOnSet(f, T \ {z}) \in Int /\ SumFunctionOnSet(c, T \ {z}) \in Int
      BY <1>0, <3>3
    <3>6. /\ h[z] \in Int /\ d[z] \in Int /\ f[z] \in Int /\ c[z] \in Int
          /\ h[z] + d[z] = f[z] + c[z]
      BY <3>1
    <3> QED BY <3>2, <3>4, <3>5, <3>6
  <2> QED BY <2>1, <2>2
<1>2. \A T \in SUBSET D : (\A U \in SUBSET T : U # T => U \in Good) => T \in Good
  BY <1>1
<1> HIDE DEF Good
<1>3. D \in Good
  BY <1>2, FiniteByInduction
<1> QED BY <1>3 DEF Good

LEMMA SumOfZeros ==
  ASSUME NEW D, IsFiniteSet(D), NEW f, \A x \in D : f[x] = 0
  PROVE  SumFunctionOnSet(f, D) = 0
<1> DEFINE Good == {T \in SUBSET D : SumFunctionOnSet(f, T) = 0}
<1>3. ASSUME NEW T \in SUBSET D, \A U \in SUBSET T : U # T => U \in Good
      PROVE  SumFunctionOnSet(f, T) = 0
  <2>1. CASE T = {}
    BY <2>1, SumOfNothing
  <2>2. CASE T # {}
    <3>1. /\ Pick(T) \in T
          /\ SumFunctionOnSet(f, T) = f[Pick(T)] + SumFunctionOnSet(f, T \ {Pick(T)})
      BY <2>2, FS_Subset, SumOfPicked
    <3>2. T \ {Pick(T)} \in Good
      BY <3>1, <1>3
    <3> QED BY <3>1, <3>2
  <2> QED BY <2>1, <2>2
<1>4. \A T \in SUBSET D : (\A U \in SUBSET T : U # T => U \in Good) => T \in Good
  BY <1>3
<1> HIDE DEF Good
<1>5. D \in Good
  BY <1>4, FiniteByInduction
<1> QED BY <1>5 DEF Good

\* A sum of numbers that are not negative is not negative, and no less than any of them.
LEMMA SumIsNat ==
  ASSUME NEW D, IsFiniteSet(D), NEW f, \A x \in D : f[x] \in Nat
  PROVE  SumFunctionOnSet(f, D) \in Nat
<1> DEFINE Good == {T \in SUBSET D : SumFunctionOnSet(f, T) \in Nat}
<1>1. ASSUME NEW T \in SUBSET D, \A U \in SUBSET T : U # T => U \in Good
      PROVE  SumFunctionOnSet(f, T) \in Nat
  <2>1. CASE T = {}
    BY <2>1, SumOfNothing
  <2>2. CASE T # {}
    <3>1. /\ Pick(T) \in T
          /\ SumFunctionOnSet(f, T) = f[Pick(T)] + SumFunctionOnSet(f, T \ {Pick(T)})
      BY <2>2, FS_Subset, SumOfPicked
    <3>2. T \ {Pick(T)} \in Good
      BY <3>1, <1>1
    <3> QED BY <3>1, <3>2
  <2> QED BY <2>1, <2>2
<1>2. \A T \in SUBSET D : (\A U \in SUBSET T : U # T => U \in Good) => T \in Good
  BY <1>1
<1> HIDE DEF Good
<1>3. D \in Good
  BY <1>2, FiniteByInduction
<1> QED BY <1>3 DEF Good

LEMMA SumAtLeast ==
  ASSUME NEW D, IsFiniteSet(D), NEW f, \A x \in D : f[x] \in Nat, NEW z \in D
  PROVE  f[z] <= SumFunctionOnSet(f, D)
<1>1. SumFunctionOnSet(f, D) = f[z] + SumFunctionOnSet(f, D \ {z})
  BY SumSplits
<1>2. SumFunctionOnSet(f, D \ {z}) \in Nat
  BY FS_Subset, SumIsNat
<1> QED BY <1>1, <1>2

\* The sum after one term has changed.
LEMMA SumChangesAt ==
  ASSUME NEW D, IsFiniteSet(D), NEW z \in D, NEW f, NEW h,
         \A x \in D : f[x] \in Int /\ h[x] \in Int,
         \A x \in D \ {z} : h[x] = f[x]
  PROVE  SumFunctionOnSet(h, D) = SumFunctionOnSet(f, D) - f[z] + h[z]
<1>1. /\ SumFunctionOnSet(f, D) = f[z] + SumFunctionOnSet(f, D \ {z})
      /\ SumFunctionOnSet(h, D) = h[z] + SumFunctionOnSet(h, D \ {z})
  BY SumSplits
<1>2. IsFiniteSet(D \ {z})
  BY FS_Subset
<1>3. SumFunctionOnSet(h, D \ {z}) = SumFunctionOnSet(f, D \ {z})
  BY <1>2, SumAgrees
<1>4. SumFunctionOnSet(f, D \ {z}) \in Int
  BY <1>2, SumIsInt
<1> QED BY <1>1, <1>3, <1>4

\* The sum of a part of a set of numbers is no more than the whole.
LEMMA SumOfPart ==
  ASSUME NEW D, IsFiniteSet(D), NEW E \in SUBSET D, NEW f, \A x \in D : f[x] \in Nat
  PROVE  SumFunctionOnSet(f, E) <= SumFunctionOnSet(f, D)
<1> DEFINE Good == {T \in SUBSET D : E \subseteq T
                      => SumFunctionOnSet(f, E) <= SumFunctionOnSet(f, T)}
<1>0. \A T \in SUBSET D : IsFiniteSet(T) /\ SumFunctionOnSet(f, T) \in Nat
  BY FS_Subset, SumIsNat
<1>1. ASSUME NEW T \in SUBSET D, \A U \in SUBSET T : U # T => U \in Good, E \subseteq T
      PROVE  SumFunctionOnSet(f, E) <= SumFunctionOnSet(f, T)
  <2>1. CASE E = T
    BY <2>1, <1>0
  <2>2. CASE E # T
    <3>1. PICK z \in T : z \notin E
      BY <2>2, <1>1
    <3>2. T \ {z} \in Good /\ E \subseteq T \ {z} /\ T \ {z} \in SUBSET D
      BY <3>1, <1>1
    <3>3. SumFunctionOnSet(f, E) <= SumFunctionOnSet(f, T \ {z})
      BY <3>2
    <3>4. SumFunctionOnSet(f, T) = f[z] + SumFunctionOnSet(f, T \ {z})
      BY <1>0, <3>1, SumSplits
    <3> QED BY <1>0, <3>1, <3>2, <3>3, <3>4
  <2> QED BY <2>1, <2>2
<1>2. \A T \in SUBSET D : (\A U \in SUBSET T : U # T => U \in Good) => T \in Good
  BY <1>1
<1> HIDE DEF Good
<1>3. D \in Good
  BY <1>2, FiniteByInduction
<1> QED BY <1>3 DEF Good

\* Members that count for nothing may be left out.
LEMMA SumOfSupport ==
  ASSUME NEW D, IsFiniteSet(D), NEW E \in SUBSET D, NEW f, \A x \in D : f[x] \in Int,
         \A x \in D \ E : f[x] = 0
  PROVE  SumFunctionOnSet(f, D) = SumFunctionOnSet(f, E)
<1> DEFINE Good == {T \in SUBSET D : E \subseteq T
                      => SumFunctionOnSet(f, E) = SumFunctionOnSet(f, T)}
<1>0. \A T \in SUBSET D : IsFiniteSet(T) /\ SumFunctionOnSet(f, T) \in Int
  BY FS_Subset, SumIsInt
<1>1. ASSUME NEW T \in SUBSET D, \A U \in SUBSET T : U # T => U \in Good, E \subseteq T
      PROVE  SumFunctionOnSet(f, E) = SumFunctionOnSet(f, T)
  <2>1. CASE E = T
    BY <2>1
  <2>2. CASE E # T
    <3>1. PICK z \in T : z \notin E
      BY <2>2, <1>1
    <3>2. T \ {z} \in Good /\ E \subseteq T \ {z} /\ T \ {z} \in SUBSET D
      BY <3>1, <1>1
    <3>3. SumFunctionOnSet(f, E) = SumFunctionOnSet(f, T \ {z})
      BY <3>2
    <3>4. SumFunctionOnSet(f, T) = f[z] + SumFunctionOnSet(f, T \ {z})
      BY <1>0, <3>1, SumSplits
    <3>5. f[z] = 0 /\ SumFunctionOnSet(f, T \ {z}) \in Int
      BY <1>0, <3>1, <3>2
    <3> QED BY <3>3, <3>4, <3>5
  <2> QED BY <2>1, <2>2
<1>2. \A T \in SUBSET D : (\A U \in SUBSET T : U # T => U \in Good) => T \in Good
  BY <1>1
<1> HIDE DEF Good
<1>3. D \in Good
  BY <1>2, FiniteByInduction
<1> QED BY <1>3 DEF Good

\* A sum may be taken over the images of the members under a map that keeps them apart.
LEMMA SumReindexed ==
  ASSUME NEW D, IsFiniteSet(D), NEW f, NEW h, NEW m,
         \A x \in D : f[x] \in Int /\ h[m[x]] = f[x],
         \A x, y \in D : m[x] = m[y] => x = y
  PROVE  SumFunctionOnSet(h, {m[x] : x \in D}) = SumFunctionOnSet(f, D)
<1> DEFINE Image(T) == {m[x] : x \in T}
           Same(T) == /\ IsFiniteSet(Image(T))
                      /\ SumFunctionOnSet(h, Image(T)) = SumFunctionOnSet(f, T)
           Good == {T \in SUBSET D : Same(T)}
<1>0. \A T \in SUBSET D : IsFiniteSet(T)
  BY FS_Subset
<1>1. ASSUME NEW T \in SUBSET D, \A U \in SUBSET T : U # T => U \in Good
      PROVE  Same(T)
  <2>1. CASE T = {}
    <3>1. Image(T) = {}
      BY <2>1
    <3> QED BY <2>1, <3>1, SumOfNothing, FS_EmptySet
  <2>2. CASE T # {}
    <3>1. PICK z \in T : TRUE
      BY <2>2
    <3>2. SumFunctionOnSet(f, T) = f[z] + SumFunctionOnSet(f, T \ {z})
      BY <1>0, <3>1, SumSplits
    <3>3. T \ {z} \in Good
      BY <1>1, <3>1
    <3>4. Same(T \ {z})
      BY <3>3
    <3>5. Image(T) \ {m[z]} = Image(T \ {z}) /\ m[z] \in Image(T)
      BY <3>1
    <3>6. \A y \in Image(T) : h[y] \in Int
      OBVIOUS
    <3>7. IsFiniteSet(Image(T))
      <4>1. Image(T) = Image(T \ {z}) \cup {m[z]}
        BY <3>5
      <4> DEFINE rest == Image(T \ {z})
      <4>2. IsFiniteSet(rest) /\ Image(T) = rest \cup {m[z]}
        BY <3>4, <4>1
      <4> HIDE DEF Image, rest
      <4> QED BY <4>2, FS_AddElement
    <3> HIDE DEF Image
    <3>8. SumFunctionOnSet(h, Image(T)) = h[m[z]] + SumFunctionOnSet(h, Image(T) \ {m[z]})
      BY <3>5, <3>6, <3>7, SumSplits
    <3> QED BY <3>1, <3>2, <3>4, <3>5, <3>7, <3>8
  <2> QED BY <2>1, <2>2
<1>2. \A T \in SUBSET D : (\A U \in SUBSET T : U # T => U \in Good) => T \in Good
  BY <1>1
<1> HIDE DEF Good
<1>3. D \in Good
  BY <1>2, FiniteByInduction
<1> QED BY <1>3 DEF Good

LEMMA SumOfOne ==
  ASSUME NEW z, NEW f, f[z] \in Int
  PROVE  SumFunctionOnSet(f, {z}) = f[z]
<1>1. IsFiniteSet({}) /\ z \notin {} /\ {} \cup {z} = {z} /\ \A x \in {} \cup {z} : f[x] \in Int
  BY FS_EmptySet
<1>2. SumFunctionOnSet(f, {} \cup {z}) = f[z] + SumFunctionOnSet(f, {})
  BY <1>1, SumAdds
<1> QED BY <1>1, <1>2, SumOfNothing

\* The sum over a function's whole domain, whatever other function agrees with it there.
LEMMA SumOfFunction ==
  ASSUME NEW D, IsFiniteSet(D), NEW f, DOMAIN f = D, NEW h, \A x \in D : f[x] = h[x]
  PROVE  SumFunction(f) = SumFunctionOnSet(h, D)
<1>1. SumFunction(f) = SumFunctionOnSet(f, D)
  BY DEF SumFunction
<1> QED BY <1>1, SumAgrees
=============================================================================
