---------------------------- MODULE DataTheorems ----------------------------
(***************************************************************************)
(* Lemmas the other proofs share.  About SumFunction, with which the       *)
(* modules sum prices: sums of integers are integers, whatever order the   *)
(* terms are added in.  About InOrder and Entered of OrderedSets, with     *)
(* which they go through a menu or a list: what is gone through in order   *)
(* is determined by the set of positions.  About FoldLeft, with which they *)
(* go through a list: there is a table of its partial results.             *)
(*                                                                         *)
(* An induction is written as a smallest counterexample: a set of finite   *)
(* sets that is not empty has a member none of whose proper subsets is in  *)
(* it.                                                                     *)
(***************************************************************************)
EXTENDS Integers, Sequences, FiniteSets, Functions, OrderedSets, FiniteSetTheorems, TLAPS

\* A non-empty collection of finite sets has a minimal member.
LEMMA SmallestSet ==
  ASSUME NEW S, IsFiniteSet(S), NEW T, T \subseteq SUBSET S, T # {}
  PROVE  \E x \in T : \A y \in T : y \subseteq x => y = x
<1> DEFINE R == StrictSubsetOrdering(S)
<1>1. IsWellFoundedOn(R, SUBSET S)
  BY FS_StrictSubsetOrderingWellFounded, FS_FiniteSubsetsOfFinite
<1>2. \E x \in T : \A y \in T : ~ (<<y, x>> \in R)
  <2> HIDE DEF R
  <2> QED
    BY <1>1, WFMin
<1> QED
  BY <1>2 DEF StrictSubsetOrdering

\* Hence a non-empty set of naturals has a least member.
LEMMA SmallestNumber ==
  ASSUME NEW T, T \subseteq Nat, T # {}
  PROVE  \E n \in T : \A m \in T : n <= m
<1>1. PICK top \in T : TRUE
  OBVIOUS
<1> DEFINE S == 0 .. top
           X == {0 .. n : n \in T \cap S}
<1>2. IsFiniteSet(S)
  BY FS_Interval
<1>3. X \subseteq SUBSET S /\ X # {}
  BY <1>1
<1>4. PICK x \in X : \A y \in X : y \subseteq x => y = x
  <2> HIDE DEF X, S
  <2> QED
    BY <1>2, <1>3, SmallestSet
<1>5. PICK n \in T \cap S : x = 0 .. n
  BY <1>4
<1>6. ASSUME NEW m \in T, m < n PROVE FALSE
  <2>1. m \in T \cap S /\ 0 .. m \subseteq x
    BY <1>5, <1>6
  <2>2. 0 .. m = 0 .. n
    BY <1>4, <1>5, <2>1
  <2>3. n \in 0 .. n /\ n \notin 0 .. m
    BY <1>5, <1>6
  <2> QED
    BY <2>2, <2>3
<1> QED
  BY <1>5, <1>6

\* What SumFunction computes: the sums over all subsets, each from the sum over
\* the set without its chosen element.
Chosen(s) == CHOOSE x \in s : TRUE
SumsFrom(f, g, S) ==
  [s \in SUBSET S |-> IF s = {} THEN 0 ELSE f[Chosen(s)] + g[s \ {Chosen(s)}]]

LEMMA AtTop ==
  ASSUME NEW f, NEW S, NEW g, g = SumsFrom(f, g, S)
  PROVE  g[S] = IF S = {} THEN 0 ELSE f[Chosen(S)] + g[S \ {Chosen(S)}]
<1>1. SumsFrom(f, g, S)[S] = IF S = {} THEN 0 ELSE f[Chosen(S)] + g[S \ {Chosen(S)}]
  BY DEF SumsFrom
<1> QED
  BY <1>1

LEMMA ChosenIsMember ==
  ASSUME NEW s, s # {}
  PROVE  Chosen(s) \in s
  BY DEF Chosen

\* Two such tables of sums agree wherever both are defined.
LEMMA SumsAreUnique ==
  ASSUME NEW f, NEW S, IsFiniteSet(S),
         NEW a, a \subseteq S, NEW g, g = SumsFrom(f, g, a),
         NEW b, b \subseteq S, NEW h, h = SumsFrom(f, h, b)
  PROVE  \A s : s \subseteq a /\ s \subseteq b => g[s] = h[s]
<1> DEFINE T == {s \in SUBSET S : s \subseteq a /\ s \subseteq b /\ g[s] # h[s]}
<1>1. ASSUME T # {} PROVE FALSE
  <2>0. T \subseteq SUBSET S
    OBVIOUS
  <2>1. PICK x \in T : \A y \in T : y \subseteq x => y = x
    <3> HIDE DEF T
    <3> QED
      BY <1>1, <2>0, SmallestSet
  <2>2. /\ g[x] = IF x = {} THEN 0 ELSE f[Chosen(x)] + g[x \ {Chosen(x)}]
        /\ h[x] = IF x = {} THEN 0 ELSE f[Chosen(x)] + h[x \ {Chosen(x)}]
    BY DEF SumsFrom
  <2>3. CASE x = {}
    BY <2>2, <2>3
  <2>4. CASE x # {}
    <3>1. Chosen(x) \in x
      BY <2>4, ChosenIsMember
    <3>2. x \ {Chosen(x)} \notin T
      BY <2>1, <3>1
    <3>3. g[x \ {Chosen(x)}] = h[x \ {Chosen(x)}]
      BY <3>2
    <3> QED
      BY <2>2, <2>4, <3>3
  <2> QED
    BY <2>3, <2>4
<1> QED
  BY <1>1

LEMMA SumsExist ==
  ASSUME NEW f, NEW S, IsFiniteSet(S)
  PROVE  \E g : g = SumsFrom(f, g, S)
<1> DEFINE T == {s \in SUBSET S : ~ \E g : g = SumsFrom(f, g, s)}
<1>1. ASSUME T # {} PROVE FALSE
  <2>0. T \subseteq SUBSET S
    OBVIOUS
  <2>1. PICK x \in T : \A y \in T : y \subseteq x => y = x
    <3> HIDE DEF T
    <3> QED
      BY <1>1, <2>0, SmallestSet
  <2> DEFINE Of(s) == CHOOSE g : g = SumsFrom(f, g, s)
             h == [s \in SUBSET x |-> IF s = {} THEN 0 ELSE f[Chosen(s)] + Of(s \ {Chosen(s)})[s \ {Chosen(s)}]]
  <2>2. ASSUME NEW s, s \subseteq x, s # x PROVE Of(s) = SumsFrom(f, Of(s), s)
    <3>1. s \notin T
      BY <2>1, <2>2
    <3>2. \E g : g = SumsFrom(f, g, s)
      BY <3>1, <2>2
    <3> QED
      BY <3>2
  <2>3. ASSUME NEW s, s \subseteq x, s # x PROVE Of(s)[s] = h[s]
    <3>1. Of(s)[s] = IF s = {} THEN 0 ELSE f[Chosen(s)] + Of(s)[s \ {Chosen(s)}]
      <4>1. Of(s) = SumsFrom(f, Of(s), s)
        BY <2>2, <2>3
      <4> HIDE DEF Of
      <4> QED
        BY <4>1, AtTop
    <3>2. CASE s = {}
      BY <3>1, <3>2
    <3>3. CASE s # {}
      <4> DEFINE t == s \ {Chosen(s)}
      <4>1. Chosen(s) \in s
        BY <3>3, ChosenIsMember
      <4>2. t \subseteq x /\ t # x /\ t \subseteq s
        BY <2>3, <4>1
      <4>3. Of(t) = SumsFrom(f, Of(t), t) /\ Of(s) = SumsFrom(f, Of(s), s)
        BY <2>2, <2>3, <4>2
      <4>4. t \subseteq S /\ s \subseteq S
        BY <2>3, <4>2
      <4> HIDE DEF Of, t
      <4>5. Of(t)[t] = Of(s)[t]
        BY <4>2, <4>3, <4>4, SumsAreUnique
      <4> QED
        BY <4>5, <3>1, <3>3, <2>3 DEF t
    <3> QED
      BY <3>2, <3>3
  <2>4. h = SumsFrom(f, h, x)
    <3>1. ASSUME NEW s \in SUBSET x, s # {} PROVE Of(s \ {Chosen(s)})[s \ {Chosen(s)}] = h[s \ {Chosen(s)}]
      <4>1. Chosen(s) \in s
        BY <3>1, ChosenIsMember
      <4>2. s \ {Chosen(s)} \subseteq x /\ s \ {Chosen(s)} # x
        BY <4>1
      <4> HIDE DEF h, Of
      <4> QED
        BY <4>2, <2>3
    <3> HIDE DEF Of
    <3> QED
      BY <3>1 DEF SumsFrom
  <2> QED
    BY <2>1, <2>4
<1> QED
  BY <1>1

\* The recursion of a sum over a set.
LEMMA SumOverSet ==
  ASSUME NEW f, NEW S, IsFiniteSet(S)
  PROVE  /\ SumFunctionOnSet(f, {}) = 0
         /\ S # {} => SumFunctionOnSet(f, S) = f[Chosen(S)] + SumFunctionOnSet(f, S \ {Chosen(S)})
<1> DEFINE Of(s) == CHOOSE g : g = SumsFrom(f, g, s)
<1>1. \A s : SumFunctionOnSet(f, s) = Of(s)[s]
  BY DEF SumFunctionOnSet, FoldFunctionOnSet, MapThenFoldSet, SumsFrom, Chosen
<1>2. \A s : IsFiniteSet(s) => Of(s) = SumsFrom(f, Of(s), s)
  BY SumsExist
<1>3. IsFiniteSet({})
  BY FS_EmptySet
<1>4. Of({})[{}] = 0
  BY <1>2, <1>3 DEF SumsFrom
<1>5. ASSUME S # {} PROVE Of(S)[S] = f[Chosen(S)] + Of(S \ {Chosen(S)})[S \ {Chosen(S)}]
  <2> DEFINE t == S \ {Chosen(S)}
  <2>1. t \subseteq S /\ IsFiniteSet(t)
    BY FS_Subset
  <2>3. Of(t) = SumsFrom(f, Of(t), t) /\ Of(S) = SumsFrom(f, Of(S), S)
    BY <1>2, <2>1
  <2> HIDE DEF Of
  <2>2. Of(S)[S] = f[Chosen(S)] + Of(S)[t]
    BY <2>3, <1>5, AtTop
  <2> HIDE DEF t
  <2>4. \A s : s \subseteq t /\ s \subseteq S => Of(t)[s] = Of(S)[s]
    BY <2>1, <2>3, SumsAreUnique
  <2> QED
    BY <2>2, <2>4 DEF t
<1> HIDE DEF Of
<1> QED
  BY <1>1, <1>4, <1>5
-----------------------------------------------------------------------------
(* What sums of integers do. *)

\* A sum depends on the terms only.
LEMMA SameSum ==
  ASSUME NEW S, IsFiniteSet(S), NEW f, NEW g, \A x \in S : f[x] = g[x]
  PROVE  SumFunctionOnSet(f, S) = SumFunctionOnSet(g, S)
<1> DEFINE T == {s \in SUBSET S : SumFunctionOnSet(f, s) # SumFunctionOnSet(g, s)}
<1>1. ASSUME T # {} PROVE FALSE
  <2>0. T \subseteq SUBSET S
    OBVIOUS
  <2>1. PICK s \in T : \A y \in T : y \subseteq s => y = s
    <3> HIDE DEF T
    <3> QED
      BY <1>1, <2>0, SmallestSet
  <2>2. IsFiniteSet(s)
    BY FS_Subset
  <2>3. s # {}
    BY <2>2, SumOverSet
  <2>4. Chosen(s) \in s
    BY <2>3, ChosenIsMember
  <2>5. SumFunctionOnSet(f, s \ {Chosen(s)}) = SumFunctionOnSet(g, s \ {Chosen(s)})
    BY <2>1, <2>4
  <2> QED
    BY <2>2, <2>3, <2>4, <2>5, SumOverSet
<1> QED
  BY <1>1

\* The sum of integers is an integer, of naturals a natural number.
LEMMA SumInSet ==
  ASSUME NEW N \in {Int, Nat}, NEW S, IsFiniteSet(S), NEW f, \A x \in S : f[x] \in N
  PROVE  SumFunctionOnSet(f, S) \in N
<1> DEFINE T == {s \in SUBSET S : SumFunctionOnSet(f, s) \notin N}
<1>1. ASSUME T # {} PROVE FALSE
  <2>0. T \subseteq SUBSET S
    OBVIOUS
  <2>1. PICK s \in T : \A y \in T : y \subseteq s => y = s
    <3> HIDE DEF T
    <3> QED
      BY <1>1, <2>0, SmallestSet
  <2>2. IsFiniteSet(s)
    BY FS_Subset
  <2>3. s # {}
    <3>1. SumFunctionOnSet(f, s) # 0
      OBVIOUS
    <3> QED
      BY <3>1, <2>2, SumOverSet
  <2>4. Chosen(s) \in s
    BY <2>3, ChosenIsMember
  <2>5. SumFunctionOnSet(f, s \ {Chosen(s)}) \in N
    BY <2>1, <2>4
  <2>6. SumFunctionOnSet(f, s) = f[Chosen(s)] + SumFunctionOnSet(f, s \ {Chosen(s)})
    BY <2>2, <2>3, SumOverSet
  <2>7. \A x, y \in N : x + y \in N
    OBVIOUS
  <2>8. f[Chosen(s)] \in N
    BY <2>4
  <2> HIDE DEF T
  <2>9. SumFunctionOnSet(f, s) \in N
    BY <2>5, <2>6, <2>7, <2>8
  <2> QED
    BY <2>9 DEF T
<1> QED
  BY <1>1

\* Any term may be added last.
LEMMA SumWithout ==
  ASSUME NEW S, IsFiniteSet(S), NEW f, \A x \in S : f[x] \in Int, NEW x \in S
  PROVE  SumFunctionOnSet(f, S) = f[x] + SumFunctionOnSet(f, S \ {x})
<1> DEFINE T == {s \in SUBSET S : \E z \in s : SumFunctionOnSet(f, s) # f[z] + SumFunctionOnSet(f, s \ {z})}
<1>1. ASSUME T # {} PROVE FALSE
  <2>0. T \subseteq SUBSET S
    OBVIOUS
  <2>1. PICK s \in T : \A y \in T : y \subseteq s => y = s
    <3> HIDE DEF T
    <3> QED
      BY <1>1, <2>0, SmallestSet
  <2>2. PICK z \in s : SumFunctionOnSet(f, s) # f[z] + SumFunctionOnSet(f, s \ {z})
    OBVIOUS
  <2> DEFINE c == Chosen(s)
  <2>3. c \in s
    BY <2>2, ChosenIsMember
  <2>4. \A t \in SUBSET S : IsFiniteSet(t) /\ SumFunctionOnSet(f, t) \in Int
    <3>1. ASSUME NEW t \in SUBSET S PROVE IsFiniteSet(t)
      BY FS_Subset
    <3>2. ASSUME NEW t \in SUBSET S PROVE SumFunctionOnSet(f, t) \in Int
      BY <3>1, SumInSet
    <3> QED
      BY <3>1, <3>2
  <2>5. SumFunctionOnSet(f, s) = f[c] + SumFunctionOnSet(f, s \ {c})
    BY <2>2, <2>4, SumOverSet
  <2>6. c # z
    BY <2>2, <2>5
  <2>7. \A t : t \subseteq s /\ t # s => \A y \in t : SumFunctionOnSet(f, t) = f[y] + SumFunctionOnSet(f, t \ {y})
    BY <2>1
  <2> HIDE DEF c, T
  <2>8. SumFunctionOnSet(f, s \ {c}) = f[z] + SumFunctionOnSet(f, (s \ {c}) \ {z})
    BY <2>3, <2>6, <2>7
  <2>9. SumFunctionOnSet(f, s \ {z}) = f[c] + SumFunctionOnSet(f, (s \ {z}) \ {c})
    BY <2>2, <2>3, <2>6, <2>7
  <2>10. (s \ {c}) \ {z} = (s \ {z}) \ {c}
    OBVIOUS
  <2>11. f[c] \in Int /\ f[z] \in Int /\ SumFunctionOnSet(f, (s \ {z}) \ {c}) \in Int
    <3>1. s \subseteq S /\ (s \ {z}) \ {c} \in SUBSET S
      BY <2>0, <2>1
    <3> QED
      BY <3>1, <2>2, <2>3, <2>4
  <2>12. ASSUME NEW p \in Int, NEW q \in Int, NEW u \in Int PROVE p + (q + u) = q + (p + u)
    OBVIOUS
  <2>13. SumFunctionOnSet(f, s) = f[c] + (f[z] + SumFunctionOnSet(f, (s \ {z}) \ {c}))
    BY <2>5, <2>8, <2>10
  <2>14. f[c] + (f[z] + SumFunctionOnSet(f, (s \ {z}) \ {c})) = f[z] + (f[c] + SumFunctionOnSet(f, (s \ {z}) \ {c}))
    BY <2>11, <2>12
  <2> QED
    BY <2>2, <2>9, <2>13, <2>14
<1> QED
  BY <1>1

\* The sum of a whole function.
LEMMA SumOfFunction ==
  ASSUME NEW N \in {Int, Nat}, NEW f, IsFiniteSet(DOMAIN f), \A x \in DOMAIN f : f[x] \in N
  PROVE  SumFunction(f) \in N
  BY SumInSet DEF SumFunction

\* The sum of a list of one number is that number.
LEMMA SumOfOne ==
  ASSUME NEW x \in Int
  PROVE  SumFunction(<<x>>) = x
<1> DEFINE f == <<x>>
<1>1. DOMAIN f = {1} /\ f[1] = x
  OBVIOUS
<1> HIDE DEF f
<1>2. IsFiniteSet({1}) /\ IsFiniteSet({}) /\ {1} \ {1} = {}
  BY FS_Singleton, FS_EmptySet
<1>3. SumFunctionOnSet(f, {1}) = f[1] + SumFunctionOnSet(f, {1} \ {1})
  BY <1>1, <1>2, SumWithout
<1>4. SumFunctionOnSet(f, {}) = 0
  BY <1>2, SumOverSet
<1>5. SumFunction(f) = x
  BY <1>1, <1>2, <1>3, <1>4 DEF SumFunction
<1> QED
  BY <1>5 DEF f

\* If every term loses at most one, the sum loses at most the number of terms.
LEMMA SumLosesUpToCount ==
  ASSUME NEW S, IsFiniteSet(S), NEW f, NEW g,
         \A x \in S : f[x] \in Int /\ g[x] \in Int /\ f[x] - 1 <= g[x] /\ g[x] <= f[x]
  PROVE  /\ SumFunctionOnSet(f, S) - Cardinality(S) <= SumFunctionOnSet(g, S)
         /\ SumFunctionOnSet(g, S) <= SumFunctionOnSet(f, S)
<1> DEFINE Near(s) == /\ SumFunctionOnSet(f, s) - Cardinality(s) <= SumFunctionOnSet(g, s)
                      /\ SumFunctionOnSet(g, s) <= SumFunctionOnSet(f, s)
           T == {s \in SUBSET S : ~ Near(s)}
<1>1. ASSUME T # {} PROVE FALSE
  <2>0. T \subseteq SUBSET S
    OBVIOUS
  <2>1. PICK s \in T : \A y \in T : y \subseteq s => y = s
    <3> HIDE DEF T
    <3> QED
      BY <1>1, <2>0, SmallestSet
  <2>2. s \in SUBSET S /\ ~ Near(s)
    OBVIOUS
  <2>3. IsFiniteSet(s)
    BY <2>2, FS_Subset
  <2>4. CASE s = {}
    <3>1. SumFunctionOnSet(f, {}) = 0 /\ SumFunctionOnSet(g, {}) = 0 /\ Cardinality({}) = 0
      BY <2>3, <2>4, SumOverSet, FS_EmptySet
    <3> QED
      BY <2>2, <2>4, <3>1
  <2>5. CASE s # {}
    <3>1. PICK x \in s : TRUE
      BY <2>5
    <3>2. Near(s \ {x})
      BY <2>1, <2>2, <3>1
    <3>3. \A y \in s : f[y] \in Int /\ g[y] \in Int
      BY <2>2
    <3>4. /\ SumFunctionOnSet(f, s) = f[x] + SumFunctionOnSet(f, s \ {x})
          /\ SumFunctionOnSet(g, s) = g[x] + SumFunctionOnSet(g, s \ {x})
      BY <2>3, <3>1, <3>3, SumWithout
    <3>5. IsFiniteSet(s \ {x}) /\ Int \in {Int, Nat}
      BY <2>3, FS_Subset
    <3>6. SumFunctionOnSet(f, s \ {x}) \in Int /\ SumFunctionOnSet(g, s \ {x}) \in Int
      BY <3>3, <3>5, SumInSet
    <3>7. Cardinality(s \ {x}) = Cardinality(s) - 1 /\ Cardinality(s) \in Nat
      BY <2>3, <3>1, FS_RemoveElement, FS_CardinalityType
    <3>8. f[x] \in Int /\ g[x] \in Int /\ f[x] - 1 <= g[x] /\ g[x] <= f[x]
      BY <2>2, <3>1
    <3>9. Near(s)
      BY <3>2, <3>4, <3>6, <3>7, <3>8
    <3> QED
      BY <2>2, <3>9
  <2> QED
    BY <2>4, <2>5
<1>2. S \notin T
  <2> HIDE DEF T
  <2> QED
    BY <1>1
<1> QED
  BY <1>2

\* Changing one term changes the sum by as much.
LEMMA SumChanged ==
  ASSUME NEW f, NEW g, DOMAIN f = DOMAIN g, IsFiniteSet(DOMAIN f), NEW x \in DOMAIN f,
         \A y \in DOMAIN f : f[y] \in Int /\ g[y] \in Int /\ (y # x => f[y] = g[y])
  PROVE  SumFunction(g) = SumFunction(f) + (g[x] - f[x])
<1> DEFINE D == DOMAIN f
           r == D \ {x}
<1>1. IsFiniteSet(r)
  BY FS_Subset
<1>2. SumFunctionOnSet(f, r) = SumFunctionOnSet(g, r)
  BY <1>1, SameSum
<1>3. SumFunctionOnSet(f, r) \in Int
  BY <1>1, SumInSet
<1>4. SumFunctionOnSet(f, D) = f[x] + SumFunctionOnSet(f, r) /\ SumFunctionOnSet(g, D) = g[x] + SumFunctionOnSet(g, r)
  BY SumWithout
<1> HIDE DEF r, D
<1>5. f[x] \in Int /\ g[x] \in Int
  OBVIOUS
<1> QED
  BY <1>2, <1>3, <1>4, <1>5 DEF SumFunction, D

-----------------------------------------------------------------------------
(* Numbers in their order *)

Enumerates(f, S) ==
  /\ f \in Seq(S)
  /\ \A i, j \in DOMAIN f : i < j => f[i] < f[j]
  /\ \A x \in S : \E i \in DOMAIN f : f[i] = x

LEMMA OneMore ==
  ASSUME NEW S, S \subseteq Int, NEW f, Enumerates(f, S), NEW k \in Int, \A x \in S : x < k
  PROVE  Enumerates(Append(f, k), S \cup {k})
<1> DEFINE g == Append(f, k)
           U == S \cup {k}
<1>1. f \in Seq(S) /\ Len(f) \in Nat /\ DOMAIN f = 1 .. Len(f)
  BY DEF Enumerates
<1>2. f \in Seq(U) /\ k \in U
  BY <1>1
<1>3. g \in Seq(U) /\ Len(g) = Len(f) + 1 /\ DOMAIN g = 1 .. Len(f) + 1
      /\ g[Len(f) + 1] = k /\ \A i \in 1 .. Len(f) : g[i] = f[i]
  <2> HIDE DEF U
  <2> QED
    BY <1>1, <1>2
<1>4. \A i \in 1 .. Len(f) : f[i] \in S
  BY <1>1
<1> HIDE DEF g
<1>5. ASSUME NEW i \in DOMAIN g, NEW j \in DOMAIN g, i < j PROVE g[i] < g[j]
  <2>1. i \in 1 .. Len(f)
    BY <1>1, <1>3, <1>5
  <2>2. CASE j = Len(f) + 1
    BY <1>3, <1>4, <2>1, <2>2
  <2>3. CASE j # Len(f) + 1
    <3>1. j \in 1 .. Len(f)
      BY <1>1, <1>3, <2>3
    <3> QED
      BY <1>1, <1>3, <1>5, <2>1, <3>1 DEF Enumerates
  <2> QED
    BY <2>2, <2>3
<1>6. ASSUME NEW x \in U PROVE \E i \in DOMAIN g : g[i] = x
  <2>1. CASE x = k
    BY <1>1, <1>3, <2>1
  <2>2. CASE x \in S
    <3>1. PICK i \in DOMAIN f : f[i] = x
      BY <2>2 DEF Enumerates
    <3>2. i \in DOMAIN g /\ g[i] = x
      BY <1>1, <1>3, <3>1
    <3> QED
      BY <3>2
  <2> QED
    BY <2>1, <2>2
<1> QED
  BY <1>3, <1>5, <1>6 DEF Enumerates, g

LEMMA EnumerationExists ==
  ASSUME NEW N \in Nat, NEW S, S \subseteq 1 .. N
  PROVE  \E f : Enumerates(f, S)
<1> DEFINE Up(k) == S \cap 1 .. k
           T == {k \in 0 .. N : ~ \E f : Enumerates(f, Up(k))}
<1>1. ASSUME T # {} PROVE FALSE
  <2>1. PICK k \in T : \A m \in T : k <= m
    <3>1. T \subseteq Nat
      OBVIOUS
    <3> HIDE DEF T
    <3> QED
      BY <1>1, <3>1, SmallestNumber
  <2>2. CASE k = 0
    <3>1. Up(k) = {}
      BY <2>2
    <3>2. <<>> \in Seq(Up(k)) /\ DOMAIN <<>> = {}
      OBVIOUS
    <3>3. Enumerates(<<>>, Up(k))
      BY <3>1, <3>2, Zenon DEF Enumerates
    <3> QED
      BY <3>3
  <2>3. CASE k # 0
    <3>1. k - 1 \in 0 .. N /\ k - 1 \notin T /\ k \in 1 .. N
      <4>1. k \in 0 .. N
        OBVIOUS
      <4>2. k - 1 \notin T
        <5> HIDE DEF T
        <5> QED
          BY <2>1, <4>1
      <4> HIDE DEF T
      <4> QED
        BY <2>3, <4>1, <4>2
    <3>2. PICK f : Enumerates(f, Up(k - 1))
      BY <3>1
    <3>3. CASE k \in S
      <4>1. Up(k) = Up(k - 1) \cup {k} /\ Up(k - 1) \subseteq Int /\ \A x \in Up(k - 1) : x < k
        BY <3>1, <3>3
      <4>2. Enumerates(Append(f, k), Up(k - 1) \cup {k})
        <5> HIDE DEF Up
        <5> QED
          BY <3>1, <3>2, <4>1, OneMore
      <4> QED
        BY <4>1, <4>2
    <3>4. CASE k \notin S
      <4>1. Up(k) = Up(k - 1)
        BY <3>1, <3>4
      <4> QED
        BY <3>2, <4>1
    <3> QED
      BY <3>3, <3>4
  <2> QED
    BY <2>2, <2>3
<1>2. N \in 0 .. N /\ N \notin T
  <2> HIDE DEF T
  <2> QED
    BY <1>1
<1>3. Up(N) = S
  OBVIOUS
<1> QED
  BY <1>2, <1>3

LEMMA EnumerationCounts ==
  ASSUME NEW S, S \subseteq Int, NEW f, Enumerates(f, S)
  PROVE  IsFiniteSet(S) /\ Cardinality(S) = Len(f) /\ Len(f) \in Nat
<1> DEFINE n == Len(f)
<1>1. n \in Nat /\ f \in [1 .. n -> S]
  BY DEF Enumerates
<1>2. \A i, j \in 1 .. n : f[i] = f[j] => i = j
  <2>1. \A i, j \in 1 .. n : i < j => f[i] < f[j]
    BY <1>1 DEF Enumerates
  <2>2. \A i \in 1 .. n : f[i] \in Int
    BY <1>1
  <2> QED
    BY <1>1, <2>1, <2>2
<1>3. f \in Bijection(1 .. n, S)
  BY <1>1, <1>2 DEF Enumerates, Bijection, Injection, Surjection, IsInjective
<1>4. IsFiniteSet(1 .. n) /\ Cardinality(1 .. n) = n
  BY SMTT(30), <1>1, FS_Interval
<1> QED
  BY <1>1, <1>3, <1>4, FS_Bijection DEF ExistsBijection

LEMMA EnumerationIsUnique ==
  ASSUME NEW S, S \subseteq Int, NEW f, Enumerates(f, S), NEW g, Enumerates(g, S)
  PROVE  f = g
<1>1. Len(f) = Len(g) /\ Len(f) \in Nat
  BY EnumerationCounts
<1>2. /\ DOMAIN f = 1 .. Len(f) /\ DOMAIN g = 1 .. Len(f)
      /\ f = [i \in 1 .. Len(f) |-> f[i]] /\ g = [i \in 1 .. Len(f) |-> g[i]]
      /\ \A i \in 1 .. Len(f) : f[i] \in S /\ g[i] \in S /\ f[i] \in Int /\ g[i] \in Int
  <2>1. f \in Seq(S) /\ g \in Seq(S)
    BY DEF Enumerates
  <2> QED
    BY <1>1, <2>1
<1> DEFINE T == {i \in 1 .. Len(f) : f[i] # g[i]}
<1>3. ASSUME T # {} PROVE FALSE
  <2>1. PICK i \in T : \A m \in T : i <= m
    <3>1. T \subseteq Nat
      BY <1>1
    <3> HIDE DEF T
    <3> QED
      BY <1>3, <3>1, SmallestNumber
  <2>2. i \in 1 .. Len(f) /\ \A m \in 1 .. Len(f) : m < i => f[m] = g[m]
    BY <1>1, <2>1
  <2>3. PICK j \in 1 .. Len(f) : g[j] = f[i]
    BY <1>2, <2>2 DEF Enumerates
  <2>4. PICK l \in 1 .. Len(f) : f[l] = g[i]
    BY <1>2, <2>2 DEF Enumerates
  <2>5. \A a, b \in 1 .. Len(f) : a < b => f[a] < f[b] /\ g[a] < g[b]
    BY <1>2 DEF Enumerates
  <2>6. j > i
    <3>1. ~ (j < i)
      <4>1. ASSUME j < i PROVE FALSE
        <5>1. f[j] = g[j] /\ f[j] < f[i]
          BY <2>2, <2>3, <2>5, <4>1
        <5> QED
          BY <1>2, <2>2, <2>3, <5>1
      <4> QED
        BY <4>1
    <3>2. f[i] # g[i]
      BY <2>1
    <3>3. j # i
      BY <2>3, <3>2
    <3> QED
      BY <1>1, <2>2, <3>1, <3>3
  <2>7. l > i
    <3>1. ~ (l < i)
      <4>1. ASSUME l < i PROVE FALSE
        <5>1. f[l] = g[l] /\ g[l] < g[i]
          BY <2>2, <2>4, <2>5, <4>1
        <5> QED
          BY <1>2, <2>2, <2>4, <5>1
      <4> QED
        BY <4>1
    <3>2. f[i] # g[i]
      BY <2>1
    <3>3. l # i
      BY <2>4, <3>2
    <3> QED
      BY <1>1, <2>2, <3>1, <3>3
  <2>8. g[i] < f[i] /\ f[i] < g[i]
    BY <2>2, <2>3, <2>4, <2>5, <2>6, <2>7
  <2> QED
    BY <1>2, <2>2, <2>8
<1>4. \A i \in 1 .. Len(f) : f[i] = g[i]
  BY <1>3
<1> QED
  BY <1>2, <1>4

\* The members of a set of positions, smallest first, are what InOrder says.
LEMMA InOrderEnumerates ==
  ASSUME NEW N \in Nat, NEW S, S \subseteq 1 .. N
  PROVE  Enumerates(InOrder(S), S)
<1>1. S \subseteq Int
  OBVIOUS
<1>2. PICK f : Enumerates(f, S)
  BY EnumerationExists
<1>3. Cardinality(S) = Len(f) /\ Len(f) \in Nat
  BY <1>1, <1>2, EnumerationCounts
<1>4. f \in [1 .. Cardinality(S) -> S] /\ \A i, j \in DOMAIN f : i < j => f[i] < f[j]
  BY <1>2, <1>3 DEF Enumerates
<1> DEFINE g == InOrder(S)
<1>5. g \in [1 .. Cardinality(S) -> S] /\ \A i, j \in DOMAIN g : i < j => g[i] < g[j]
  BY <1>4 DEF InOrder
<1> HIDE DEF g
<1>6. IsFiniteSet(S) /\ g \in Injection(1 .. Len(f), S)
  <2>1. g \in [1 .. Len(f) -> S] /\ \A i \in 1 .. Len(f) : g[i] \in Int
    BY <1>1, <1>3, <1>5
  <2>2. \A i, j \in 1 .. Len(f) : g[i] = g[j] => i = j
    BY <1>3, <1>5, <2>1
  <2>3. IsFiniteSet(S)
    BY <1>1, <1>2, EnumerationCounts
  <2> QED
    BY <2>1, <2>2, <2>3 DEF Injection, IsInjective
<1>7. g \in Surjection(1 .. Len(f), S)
  <2>1. Cardinality(1 .. Len(f)) = Len(f)
    <3>1. \A b \in Nat : Cardinality(1 .. b) = b
      BY FS_Interval
    <3> QED
      BY <1>3, <3>1
  <2> QED
    BY <1>3, <1>6, <2>1, FS_Injection
<1>8. Enumerates(g, S)
  BY <1>3, <1>5, <1>7 DEF Enumerates, Surjection
<1> QED
  BY <1>8 DEF g

\* And nothing else is.
LEMMA InOrderIs ==
  ASSUME NEW N \in Nat, NEW S, S \subseteq 1 .. N, NEW f, Enumerates(f, S)
  PROVE  InOrder(S) = f
<1>1. S \subseteq Int
  OBVIOUS
<1> QED
  BY <1>1, InOrderEnumerates, EnumerationIsUnique

-----------------------------------------------------------------------------
(* Sums over part of a set, and over another index *)

\* The terms a sum leaves out, if they are naturals, make it no larger; if they
\* are zero, they make no difference.
LEMMA SumOfPart ==
  ASSUME NEW D, IsFiniteSet(D), NEW S, S \subseteq D, NEW f, \A x \in D : f[x] \in Int
  PROVE  /\ (\A x \in D \ S : f[x] = 0) => SumFunctionOnSet(f, D) = SumFunctionOnSet(f, S)
         /\ (\A x \in D \ S : f[x] \in Nat) => SumFunctionOnSet(f, S) <= SumFunctionOnSet(f, D)
<1> DEFINE Sum(s) == SumFunctionOnSet(f, S \cup s)
<1>1. IsFiniteSet(D \ S)
  BY FS_Difference
<1>2. ASSUME NEW s \in SUBSET (D \ S), NEW x \in s PROVE Sum(s) = f[x] + Sum(s \ {x})
  <2> DEFINE U == S \cup s
  <2>1. IsFiniteSet(U) /\ x \in U /\ \A y \in U : f[y] \in Int
    BY FS_Subset
  <2>2. U \ {x} = S \cup (s \ {x})
    OBVIOUS
  <2> HIDE DEF U
  <2>3. SumFunctionOnSet(f, U) = f[x] + SumFunctionOnSet(f, U \ {x})
    BY <2>1, SumWithout
  <2> QED
    BY <2>2, <2>3 DEF U
<1>3. \A s \in SUBSET (D \ S) : Sum(s) \in Int
  <2> SUFFICES ASSUME NEW s \in SUBSET (D \ S) PROVE Sum(s) \in Int
    OBVIOUS
  <2> DEFINE U == S \cup s
  <2>1. IsFiniteSet(U) /\ \A y \in U : f[y] \in Int
    BY FS_Subset
  <2> HIDE DEF U
  <2>2. SumFunctionOnSet(f, U) \in Int
    BY <2>1, SumInSet
  <2> QED
    BY <2>2 DEF U
<1>4. Sum({}) = SumFunctionOnSet(f, S) /\ Sum(D \ S) = SumFunctionOnSet(f, D)
  <2>1. S \cup {} = S /\ S \cup (D \ S) = D
    OBVIOUS
  <2> QED
    BY <2>1
<1> HIDE DEF Sum
<1>5. ASSUME \A x \in D \ S : f[x] = 0 PROVE Sum(D \ S) = Sum({})
  <2> DEFINE T == {s \in SUBSET (D \ S) : Sum(s) # Sum({})}
  <2>1. ASSUME T # {} PROVE FALSE
    <3>1. T \subseteq SUBSET (D \ S)
      OBVIOUS
    <3>2. PICK s \in T : \A y \in T : y \subseteq s => y = s
      <4> HIDE DEF T
      <4> QED
        BY <1>1, <2>1, <3>1, SmallestSet
    <3>3. s \in SUBSET (D \ S) /\ Sum(s) # Sum({})
      OBVIOUS
    <3>4. PICK x \in s : TRUE
      BY <3>3
    <3>5. s \ {x} \notin T /\ s \ {x} \in SUBSET (D \ S)
      BY <3>2, <3>4
    <3>6. Sum(s \ {x}) = Sum({})
      BY <3>5
    <3>7. Sum(s) = f[x] + Sum(s \ {x}) /\ f[x] = 0
      BY <1>2, <1>5, <3>3, <3>4
    <3>8. Sum(s) = Sum(s \ {x})
      BY <1>3, <3>5, <3>7
    <3> QED
      BY <3>3, <3>6, <3>8
  <2>2. D \ S \notin T
    <3> HIDE DEF T
    <3> QED
      BY <2>1
  <2> QED
    BY <2>2
<1>6. ASSUME \A x \in D \ S : f[x] \in Nat PROVE Sum({}) <= Sum(D \ S)
  <2> DEFINE T == {s \in SUBSET (D \ S) : ~ (Sum({}) <= Sum(s))}
  <2>1. ASSUME T # {} PROVE FALSE
    <3>1. T \subseteq SUBSET (D \ S)
      OBVIOUS
    <3>2. PICK s \in T : \A y \in T : y \subseteq s => y = s
      <4> HIDE DEF T
      <4> QED
        BY <1>1, <2>1, <3>1, SmallestSet
    <3>3. s \in SUBSET (D \ S) /\ ~ (Sum({}) <= Sum(s)) /\ Sum({}) \in Int /\ Sum(s) \in Int
      BY <1>3
    <3>4. s # {}
      BY <3>3
    <3>5. PICK x \in s : TRUE
      BY <3>4
    <3>6. s \ {x} \notin T /\ s \ {x} \in SUBSET (D \ S)
      BY <3>2, <3>5
    <3>7. Sum({}) <= Sum(s \ {x}) /\ Sum(s \ {x}) \in Int
      BY <1>3, <3>6
    <3>8. Sum(s) = f[x] + Sum(s \ {x}) /\ f[x] \in Nat
      BY <1>2, <1>6, <3>3, <3>5
    <3> QED
      BY <3>3, <3>7, <3>8
  <2>2. D \ S \notin T
    <3> HIDE DEF T
    <3> QED
      BY <2>1
  <2> QED
    BY <2>2
<1> QED
  BY <1>4, <1>5, <1>6

\* The same terms under other names have the same sum.
LEMMA SumRenamed ==
  ASSUME NEW K, IsFiniteSet(K), NEW e, \A k, l \in K : e[k] = e[l] => k = l,
         NEW f, NEW g, \A k \in K : g[k] = f[e[k]] /\ f[e[k]] \in Int
  PROVE  SumFunctionOnSet(g, K) = SumFunctionOnSet(f, {e[k] : k \in K})
<1> DEFINE Im(s) == {e[k] : k \in s}
           T == {s \in SUBSET K : SumFunctionOnSet(g, s) # SumFunctionOnSet(f, Im(s))}
<1>1. ASSUME T # {} PROVE FALSE
  <2>0. T \subseteq SUBSET K
    OBVIOUS
  <2>1. PICK s \in T : \A y \in T : y \subseteq s => y = s
    <3> HIDE DEF T
    <3> QED
      BY <1>1, <2>0, SmallestSet
  <2>2. s \in SUBSET K /\ SumFunctionOnSet(g, s) # SumFunctionOnSet(f, Im(s))
    OBVIOUS
  <2>3. IsFiniteSet(s) /\ IsFiniteSet(Im(s))
    <3>1. IsFiniteSet(s)
      BY <2>2, FS_Subset
    <3> DEFINE h == [k \in s |-> e[k]]
    <3>2. h \in Surjection(s, Im(s))
      BY DEF Surjection
    <3> HIDE DEF h, Im
    <3> QED
      BY <3>1, <3>2, FS_Surjection
  <2>4. CASE s = {}
    <3>1. Im(s) = {}
      BY <2>4
    <3>2. IsFiniteSet({})
      BY FS_EmptySet
    <3>3. SumFunctionOnSet(g, {}) = 0 /\ SumFunctionOnSet(f, {}) = 0
      BY <3>2, SumOverSet
    <3> QED
      BY <2>2, <2>4, <3>1, <3>3
  <2>5. CASE s # {}
    <3>1. PICK k \in s : TRUE
      BY <2>5
    <3>2. s \ {k} \notin T /\ s \ {k} \in SUBSET K
      BY <2>1, <2>2, <3>1
    <3>3. SumFunctionOnSet(g, s \ {k}) = SumFunctionOnSet(f, Im(s \ {k}))
      BY <3>2
    <3>4. Im(s \ {k}) = Im(s) \ {e[k]} /\ e[k] \in Im(s)
      BY <2>2, <3>1
    <3>5. (\A x \in s : g[x] \in Int) /\ (\A x \in Im(s) : f[x] \in Int) /\ g[k] = f[e[k]]
      BY <2>2, <3>1
    <3> HIDE DEF Im
    <3>6. SumFunctionOnSet(g, s) = g[k] + SumFunctionOnSet(g, s \ {k})
      BY <2>3, <3>1, <3>5, SumWithout
    <3>7. SumFunctionOnSet(f, Im(s)) = f[e[k]] + SumFunctionOnSet(f, Im(s) \ {e[k]})
      BY <2>3, <3>4, <3>5, SumWithout
    <3> QED
      BY <2>2, <3>3, <3>4, <3>5, <3>6, <3>7
  <2> QED
    BY <2>4, <2>5
<1>2. K \notin T
  <2> HIDE DEF T
  <2> QED
    BY <1>1
<1> QED
  BY <1>2

-----------------------------------------------------------------------------
(* Entries at some positions of a list *)

LEMMA EnteredSame ==
  ASSUME NEW N \in Nat, NEW P, P \subseteq 1 .. N, NEW a, NEW b, \A i \in P : a[i] = b[i]
  PROVE  Entered(a, P) = Entered(b, P)
<1> DEFINE at == InOrder(P)
<1>1. Enumerates(at, P)
  BY InOrderEnumerates
<1> HIDE DEF at
<1>2. \A k \in DOMAIN at : at[k] \in P
  BY <1>1 DEF Enumerates
<1>3. [k \in DOMAIN at |-> a[at[k]]] = [k \in DOMAIN at |-> b[at[k]]]
  BY <1>2
<1> QED
  BY <1>3 DEF Entered, at

IsPart(P, n, o, Q) == \A p : p \in P <=> \E l \in DOMAIN o : o[l] \in Q /\ p = n + l

Meet(P, n, o, Q) ==
  /\ \A k \in DOMAIN InOrder(P) : InOrder(P)[k] - n \in DOMAIN o /\ InOrder(P)[k] = n + (InOrder(P)[k] - n)
  /\ DOMAIN InOrder(Q) = DOMAIN InOrder(P)
  /\ \A k \in DOMAIN InOrder(P) : InOrder(Q)[k] = o[InOrder(P)[k] - n]

\* The positions where a list from position n on repeats some of the numbers of
\* an enumeration meet those numbers in their order.
LEMMA OrderOfPart ==
  ASSUME NEW N \in Nat, NEW S, S \subseteq 1 .. N, NEW o, Enumerates(o, S), NEW n \in Nat,
         NEW Q, Q \subseteq S,
         NEW P, IsPart(P, n, o, Q)
  PROVE  Meet(P, n, o, Q)
<1> DEFINE at == InOrder(P)
           g == [k \in DOMAIN at |-> o[at[k] - n]]
<1>1. /\ o \in Seq(S) /\ Len(o) \in Nat /\ DOMAIN o = 1 .. Len(o) /\ \A i \in DOMAIN o : o[i] \in S
      /\ \A i, j \in DOMAIN o : i < j => o[i] < o[j]
  <2>1. o \in Seq(S)
    BY DEF Enumerates
  <2> QED
    BY <2>1 DEF Enumerates
<1>2. P \subseteq 1 .. n + Len(o) /\ n + Len(o) \in Nat /\ Q \subseteq 1 .. N
  BY <1>1 DEF IsPart
<1>3. Enumerates(at, P)
  BY <1>2, InOrderEnumerates
<1> HIDE DEF at
<1>4. at \in Seq(P) /\ Len(at) \in Nat /\ DOMAIN at = 1 .. Len(at) /\ \A k \in DOMAIN at : at[k] \in P
  <2>1. at \in Seq(P)
    BY <1>3 DEF Enumerates
  <2> QED
    BY <2>1
<1>5. \A p \in P : p - n \in DOMAIN o /\ o[p - n] \in Q /\ p = n + (p - n) /\ p \in Int
  BY <1>1 DEF IsPart
<1>6. \A k \in DOMAIN at : at[k] - n \in DOMAIN o /\ o[at[k] - n] \in Q /\ at[k] = n + (at[k] - n) /\ at[k] \in Int
  BY <1>4, <1>5
<1>7. Enumerates(g, Q)
  <2>1. g \in Seq(Q) /\ DOMAIN g = DOMAIN at
    BY <1>4, <1>6
  <2>2. ASSUME NEW i \in DOMAIN g, NEW j \in DOMAIN g, i < j PROVE g[i] < g[j]
    <3>1. at[i] < at[j]
      BY <1>3, <2>2 DEF Enumerates
    <3>2. at[i] - n < at[j] - n
      BY <1>6, <3>1
    <3> QED
      BY <1>1, <1>6, <3>2
  <2>3. ASSUME NEW x \in Q PROVE \E i \in DOMAIN g : g[i] = x
    <3>1. PICK l \in DOMAIN o : o[l] = x
      BY DEF Enumerates
    <3>2. n + l \in P
      BY <3>1 DEF IsPart
    <3>3. PICK i \in DOMAIN at : at[i] = n + l
      BY <1>3, <3>2 DEF Enumerates
    <3>4. at[i] - n = l
      BY <1>1, <3>3
    <3> QED
      BY <3>1, <3>3, <3>4
  <2> HIDE DEF g
  <2> QED
    BY <2>1, <2>2, <2>3 DEF Enumerates
<1>8. InOrder(Q) = g
  <2> HIDE DEF g
  <2> QED
    BY <1>2, <1>7, InOrderIs
<1> QED
  BY <1>6, <1>8 DEF at, Meet

-----------------------------------------------------------------------------
\* What MapThenFoldSet computes when it goes through a sequence: the results
\* of all sets of positions, each from the result without its last position.
Highest(s) == CHOOSE x \in s : \A y \in s : x >= y
FoldTable(step, base, g, S) ==
  [s \in SUBSET S |-> IF s = {} THEN base ELSE step[Highest(s)][g[s \ {Highest(s)}]]]

\* A non-empty set of positions has a last one.
LEMMA HighestIs ==
  ASSUME NEW n \in Nat, NEW s, s \subseteq 1 .. n, s # {}
  PROVE  Highest(s) \in s /\ \A y \in s : Highest(s) >= y
<1> DEFINE T == {m \in Nat : \A y \in s : m >= y}
<1>1. n \in T
  OBVIOUS
<1>2. PICK m \in T : \A k \in T : m <= k
  <2>1. T \subseteq Nat
    OBVIOUS
  <2> HIDE DEF T
  <2> QED
    BY <1>1, <2>1, SmallestNumber
<1>3. m \in s
  <2>1. CASE m = 0
    <3>1. PICK y \in s : TRUE
      OBVIOUS
    <3>2. y \in 1 .. n /\ m >= y
      BY <1>2, <3>1
    <3> QED
      BY <2>1, <3>2
  <2>2. CASE m # 0
    <3>1. SUFFICES ASSUME m \notin s PROVE FALSE
      OBVIOUS
    <3>2. m - 1 \in T
      <4>1. ASSUME NEW y \in s PROVE m - 1 >= y
        <5>1. m >= y /\ m # y /\ y \in Nat /\ m \in Nat
          BY <1>2, <3>1
        <5> QED
          BY <5>1
      <4>2. m - 1 \in Nat
        BY <1>2, <2>2
      <4> QED
        BY <4>1, <4>2
    <3> QED
      BY <1>2, <3>2
  <2> QED
    BY <2>1, <2>2
<1> QED
  BY <1>2, <1>3 DEF Highest

\* The last of the first n positions, and what is before it
LEMMA HighestOfInterval ==
  ASSUME NEW n \in Nat, n # 0
  PROVE  Highest(1 .. n) = n /\ (1 .. n) \ {n} = 1 .. (n - 1)
<1>1. n \in 1 .. n /\ 1 .. n # {}
  OBVIOUS
<1>2. Highest(1 .. n) \in 1 .. n /\ Highest(1 .. n) >= n
  BY <1>1, HighestIs
<1> QED
  BY <1>2

\* A property of the naturals up to n that is passed on from each to the next
LEMMA UpTo ==
  ASSUME NEW n \in Nat, NEW P, 0 \in P, \A i \in 1 .. n : i - 1 \in P => i \in P
  PROVE  \A i \in 0 .. n : i \in P
<1> DEFINE T == {i \in 0 .. n : i \notin P}
<1>1. ASSUME T # {} PROVE FALSE
  <2>1. PICK m \in T : \A k \in T : m <= k
    <3>1. T \subseteq Nat
      OBVIOUS
    <3> HIDE DEF T
    <3> QED
      BY <1>1, <3>1, SmallestNumber
  <2>2. m # 0 /\ m \in 1 .. n
    BY <2>1
  <2>3. m - 1 \notin T
    BY <2>1, <2>2
  <2> QED
    BY <2>1, <2>2, <2>3
<1> QED
  BY <1>1

\* There is such a table: the smallest number of positions without one would have it
\* from the one before.
LEMMA FoldExists ==
  ASSUME NEW C, NEW n \in Nat, NEW step, NEW base \in C,
         \A i \in 1 .. n : step[i] \in [C -> C]
  PROVE  \E g \in [SUBSET (1 .. n) -> C] : g = FoldTable(step, base, g, 1 .. n)
<1> DEFINE P == {i \in 0 .. n : \E g \in [SUBSET (1 .. i) -> C] : g = FoldTable(step, base, g, 1 .. i)}
<1>1. 0 \in P
  <2> DEFINE g == [s \in SUBSET (1 .. 0) |-> base]
  <2>1. g \in [SUBSET (1 .. 0) -> C]
    OBVIOUS
  <2>2. ASSUME NEW s \in SUBSET (1 .. 0) PROVE s = {}
    OBVIOUS
  <2>3. g = FoldTable(step, base, g, 1 .. 0)
    BY <2>2 DEF FoldTable
  <2> QED
    BY <2>1, <2>3
<1>2. ASSUME NEW i \in 1 .. n, i - 1 \in P PROVE i \in P
  <2>1. PICK g \in [SUBSET (1 .. (i - 1)) -> C] : g = FoldTable(step, base, g, 1 .. (i - 1))
    BY <1>2
  <2> DEFINE h == [s \in SUBSET (1 .. i) |-> IF i \in s THEN step[i][g[s \ {i}]] ELSE g[s]]
  <2>2. ASSUME NEW s \in SUBSET (1 .. i)
        PROVE  /\ i \in s => s \ {i} \in SUBSET (1 .. (i - 1)) /\ Highest(s) = i
               /\ i \notin s => s \in SUBSET (1 .. (i - 1))
    <3>1. ASSUME i \in s PROVE s \ {i} \in SUBSET (1 .. (i - 1)) /\ Highest(s) = i
      <4>1. i \in Nat /\ s \subseteq 1 .. i /\ s # {}
        BY <3>1
      <4>2. Highest(s) \in s /\ Highest(s) >= i
        BY <3>1, <4>1, HighestIs
      <4>3. Highest(s) \in 1 .. i
        BY <4>2
      <4>4. Highest(s) = i
        BY <4>2, <4>3
      <4>5. ASSUME NEW j \in s \ {i} PROVE j \in 1 .. (i - 1)
        BY <4>5
      <4> QED
        BY <4>4, <4>5
    <3> QED
      BY <3>1
  <2>3. h \in [SUBSET (1 .. i) -> C]
    <3>1. ASSUME NEW s \in SUBSET (1 .. i), i \in s PROVE step[i][g[s \ {i}]] \in C
      <4>1. s \ {i} \in SUBSET (1 .. (i - 1))
        BY <2>2, <3>1
      <4> QED
        BY <4>1
    <3>2. ASSUME NEW s \in SUBSET (1 .. i), i \notin s PROVE g[s] \in C
      <4>1. s \in SUBSET (1 .. (i - 1))
        BY <2>2, <3>2
      <4> QED
        BY <4>1
    <3> QED
      BY <3>1, <3>2
  <2>4. ASSUME NEW s \in SUBSET (1 .. i)
        PROVE  h[s] = IF s = {} THEN base ELSE step[Highest(s)][h[s \ {Highest(s)}]]
    <3>1. CASE i \in s
      <4>1. s \ {i} \in SUBSET (1 .. (i - 1)) /\ Highest(s) = i
        BY <2>2, <3>1
      <4>2. h[s] = step[i][g[s \ {i}]]
        BY <3>1
      <4>3. s \ {i} \in SUBSET (1 .. i) /\ i \notin s \ {i}
        OBVIOUS
      <4>4. h[s \ {i}] = g[s \ {i}]
        BY <4>3
      <4> QED
        BY <3>1, <4>1, <4>2, <4>4
    <3>2. CASE i \notin s
      <4>1. s \in SUBSET (1 .. (i - 1))
        BY <2>2, <3>2
      <4>2. FoldTable(step, base, g, 1 .. (i - 1))[s] = IF s = {} THEN base ELSE step[Highest(s)][g[s \ {Highest(s)}]]
        BY <4>1 DEF FoldTable
      <4>3. g[s] = IF s = {} THEN base ELSE step[Highest(s)][g[s \ {Highest(s)}]]
        BY <2>1, <4>2
      <4>4. h[s] = g[s]
        BY <3>2
      <4>5. s \ {Highest(s)} \in SUBSET (1 .. i) /\ i \notin s \ {Highest(s)}
        BY <3>2
      <4>6. h[s \ {Highest(s)}] = g[s \ {Highest(s)}]
        BY <4>5
      <4> QED
        BY <4>3, <4>4, <4>6
    <3> QED
      BY <3>1, <3>2
  <2>5. h = FoldTable(step, base, h, 1 .. i)
    <3> HIDE DEF h
    <3>1. h = [s \in SUBSET (1 .. i) |-> h[s]]
      BY <2>3
    <3> QED
      BY <2>4, <3>1 DEF FoldTable
  <2> HIDE DEF h
  <2>6. i \in 0 .. n
    OBVIOUS
  <2> QED
    BY <2>3, <2>5, <2>6
<1>3. \A i \in 0 .. n : i \in P
  <2> HIDE DEF P
  <2> QED
    BY <1>1, <1>2, UpTo
<1>4. n \in 0 .. n
  OBVIOUS
<1> QED
  BY <1>3, <1>4

\* The elements of a finite set, in some order
Enlists(f, S) ==
  /\ f \in [1 .. Cardinality(S) -> S]
  /\ \A i, j \in DOMAIN f : f[i] = f[j] => i = j
  /\ \A x \in S : \E i \in DOMAIN f : f[i] = x

\* A sequence as long as a set that meets none of its members twice lists it.
LEMMA InjectionLists ==
  ASSUME NEW S, IsFiniteSet(S), NEW f \in [1 .. Cardinality(S) -> S],
         \A i, j \in 1 .. Cardinality(S) : f[i] = f[j] => i = j
  PROVE  Enlists(f, S) /\ f \in Seq(S) /\ Len(f) = Cardinality(S)
<1> DEFINE n == Cardinality(S)
           img == {f[i] : i \in 1 .. n}
<1>1. n \in Nat
  BY FS_CardinalityType
<1>2. IsFiniteSet(1 .. n) /\ Cardinality(1 .. n) = n
  BY <1>1, FS_Interval
<1>3. f \in Surjection(1 .. n, img) /\ f \in Injection(1 .. n, img)
  BY DEF Surjection, Injection, IsInjective
<1>4. f \in Bijection(1 .. n, img)
  BY <1>3 DEF Bijection
<1>5. IsFiniteSet(img) /\ Cardinality(img) = n
  <2> HIDE DEF img
  <2> QED
    BY <1>2, <1>4, FS_Bijection DEF ExistsBijection
<1>6. img \subseteq S
  OBVIOUS
<1>7. img = S
  <2> HIDE DEF img
  <2> QED
    BY <1>5, <1>6, FS_Subset
<1> QED
  BY <1>1, <1>7 DEF Enlists
=============================================================================
