-------------------------------- MODULE Sums --------------------------------
(***************************************************************************)
(* What SumFunction of module Functions computes, for functions with any   *)
(* finite domain: the sum of nothing is 0, of one element more the sum     *)
(* plus that element, of two disjoint sets the sum of both.                *)
(*                                                                         *)
(* SumFunction is a recursive function over the subsets of its domain.     *)
(* The library's theorems on induction and on recursive functions take an  *)
(* operator; here induction is over a SET of natural numbers, or of sets,  *)
(* so that each use is an instance of a first-order fact.                  *)
(***************************************************************************)
EXTENDS Integers, Functions, FiniteSets, FiniteSetTheorems, TLAPS

-----------------------------------------------------------------------------
(***************************************************************************)
(* Induction                                                               *)
(***************************************************************************)
Less == {ss \in Nat \X Nat : ss[1] < ss[2]}

LEMMA LeastNatural ==
    ASSUME NEW S \in SUBSET Nat, S # {}
    PROVE  \E m \in S : \A n \in S : m <= n
<1>1. IsWellFoundedOn(Less, Nat)
  BY NatLessThanWellFounded DEF OpToRel, Less
<1>2. PICK m \in S : \A n \in S : <<n, m>> \notin Less
  BY <1>1, WFMin
<1>3. \A n \in S : ~ (n < m)
  BY <1>2 DEF Less
<1> QED
  BY <1>3

\* Induction over the natural numbers.
LEMMA NaturalSteps ==
    ASSUME NEW Good, 0 \in Good, \A n \in Nat : n \in Good => n + 1 \in Good
    PROVE  Nat \subseteq Good
<1> SUFFICES ASSUME NEW k \in Nat, k \notin Good PROVE FALSE
  OBVIOUS
<1> DEFINE Bad == {n \in Nat : n \notin Good}
<1>1. PICK m \in Bad : \A n \in Bad : m <= n
  <2>1. Bad \in SUBSET Nat /\ Bad # {}
    OBVIOUS
  <2> HIDE DEF Bad
  <2> QED
    BY <2>1, LeastNatural
<1>2. m \in Nat /\ m # 0 /\ m - 1 \in Nat
  OBVIOUS
<1>3. m - 1 \in Good
  BY <1>1, <1>2
<1> QED
  BY <1>2, <1>3

\* Induction over the subsets of a finite set, smaller ones first.
LEMMA SmallerSubsets ==
    ASSUME NEW S, IsFiniteSet(S), NEW Good,
           \A T \in SUBSET S :
              (\A U \in SUBSET T : U # T => U \in Good) => T \in Good
    PROVE  SUBSET S \subseteq Good
<1> SUFFICES ASSUME NEW T0 \in SUBSET S, T0 \notin Good PROVE FALSE
  OBVIOUS
<1> DEFINE Bad == {T \in SUBSET S : T \notin Good}
<1>1. IsWellFoundedOn(StrictSubsetOrdering(S), SUBSET S)
  <2>1. FiniteSubsetsOf(S) = SUBSET S
    BY FS_FiniteSubsetsOfFinite
  <2>2. IsWellFoundedOn(StrictSubsetOrdering(S), FiniteSubsetsOf(S))
    BY FS_StrictSubsetOrderingWellFounded
  <2> QED
    BY <2>1, <2>2
<1>2. PICK T \in Bad : \A U \in Bad : <<U, T>> \notin StrictSubsetOrdering(S)
  <2>1. Bad \subseteq SUBSET S /\ Bad # {}
    OBVIOUS
  <2> HIDE DEF Bad
  <2> QED
    BY <1>1, <2>1, WFMin
<1>3. \A U \in SUBSET T : U # T => U \in Good
  BY <1>2 DEF StrictSubsetOrdering
<1> QED
  BY <1>3

\* Induction over the subsets of a finite set, one element at a time.
LEMMA OneByOne ==
    ASSUME NEW S, IsFiniteSet(S), NEW Good, {} \in Good,
           \A T \in SUBSET S : \A x \in S \ T : T \in Good => T \cup {x} \in Good
    PROVE  S \in Good
<1>1. ASSUME NEW T \in SUBSET S, \A U \in SUBSET T : U # T => U \in Good
      PROVE  T \in Good
  <2>1. CASE T = {}
    BY <2>1
  <2>2. ASSUME NEW x \in T PROVE T \in Good
    <3>1. T \ {x} \in SUBSET T /\ T \ {x} # T /\ x \in S \ (T \ {x})
      OBVIOUS
    <3>2. T \ {x} \in Good
      BY <1>1, <3>1
    <3>3. (T \ {x}) \cup {x} = T
      OBVIOUS
    <3> QED
      BY <3>1, <3>2, <3>3
  <2> QED
    BY <2>1, <2>2
<1>2. SUBSET S \subseteq Good
  BY <1>1, SmallerSubsets
<1> QED
  BY <1>2

-----------------------------------------------------------------------------
(***************************************************************************)
(* The recursive function behind SumFunction exists and is unique.         *)
(***************************************************************************)
Chosen(s) == CHOOSE x \in s : TRUE

\* iter satisfies the recursion on the sets of D, or on the subsets of S.
IteratesOn(iter, f, D) ==
    iter = [s \in D |-> IF s = {} THEN 0 ELSE f[Chosen(s)] + iter[s \ {Chosen(s)}]]

Iterates(iter, f, S) == IteratesOn(iter, f, SUBSET S)

LEMMA SumIsIterated ==
    ASSUME NEW f, NEW S
    PROVE  SumFunctionOnSet(f, S) = (CHOOSE iter : Iterates(iter, f, S))[S]
BY Zenon DEF SumFunctionOnSet, FoldFunctionOnSet, MapThenFoldSet, IteratesOn, Iterates, Chosen

LEMMA IterationExists ==
    ASSUME NEW f, NEW S, IsFiniteSet(S)
    PROVE  \E iter : Iterates(iter, f, S)
<1> DEFINE UpTo(n) == {s \in SUBSET S : Cardinality(s) <= n}
           Good == {n \in Nat : \E iter : IteratesOn(iter, f, UpTo(n))}
<1>0. \A s \in SUBSET S : IsFiniteSet(s) /\ Cardinality(s) \in Nat
  BY FS_Subset, FS_CardinalityType
<1>1. 0 \in Good
  <2>1. UpTo(0) = {{}}
    BY <1>0, FS_EmptySet
  <2>2. IteratesOn([s \in UpTo(0) |-> 0], f, UpTo(0))
    BY <2>1 DEF IteratesOn
  <2> QED
    BY <2>2
<1>2. ASSUME NEW n \in Nat, n \in Good PROVE n + 1 \in Good
  <2>1. PICK iter : IteratesOn(iter, f, UpTo(n))
    BY <1>2
  <2> DEFINE longer == [s \in UpTo(n + 1) |->
                          IF s = {} THEN 0 ELSE f[Chosen(s)] + iter[s \ {Chosen(s)}]]
  <2>2. ASSUME NEW s \in UpTo(n + 1), s # {}
        PROVE  s \ {Chosen(s)} \in UpTo(n)
    <3>1. Chosen(s) \in s
      BY <2>2 DEF Chosen
    <3>2. Cardinality(s \ {Chosen(s)}) = Cardinality(s) - 1
      BY <1>0, <3>1, FS_RemoveElement
    <3> QED
      BY <1>0, <2>2, <3>2
  <2>3. ASSUME NEW s \in UpTo(n) PROVE longer[s] = iter[s] /\ s \in UpTo(n + 1)
    <3>1. s \in UpTo(n + 1)
      BY <1>0
    <3>2. iter[s] = IF s = {} THEN 0 ELSE f[Chosen(s)] + iter[s \ {Chosen(s)}]
      BY <2>1 DEF IteratesOn
    <3> QED
      BY <3>1, <3>2
  <2>4. IteratesOn(longer, f, UpTo(n + 1))
    <3>1. \A s \in UpTo(n + 1) :
             longer[s] = IF s = {} THEN 0 ELSE f[Chosen(s)] + longer[s \ {Chosen(s)}]
      BY <2>2, <2>3
    <3> HIDE DEF UpTo
    <3> QED
      BY <3>1 DEF IteratesOn
  <2> HIDE DEF longer, UpTo
  <2> QED
    BY <2>4
<1>3. Cardinality(S) \in Good
  <2>1. Nat \subseteq Good
    <3> HIDE DEF Good
    <3> QED
      BY <1>1, <1>2, NaturalSteps
  <2> QED
    BY <2>1, FS_CardinalityType
<1>4. UpTo(Cardinality(S)) = SUBSET S
  BY <1>0, FS_Subset
<1> QED
  BY <1>3, <1>4 DEF Iterates

\* Two iterations agree where both are defined.
LEMMA IterationsAgree ==
    ASSUME NEW f, NEW S, IsFiniteSet(S), NEW T \in SUBSET S,
           NEW g, Iterates(g, f, S), NEW h, Iterates(h, f, T)
    PROVE  g[T] = h[T]
<1> DEFINE Good == {U \in SUBSET T : g[U] = h[U]}
<1>1. ASSUME NEW U \in SUBSET T, \A V \in SUBSET U : V # U => V \in Good
      PROVE  U \in Good
  <2>1. CASE U = {}
    BY <2>1 DEF Iterates, IteratesOn
  <2>2. CASE U # {}
    <3>1. Chosen(U) \in U
      BY <2>2 DEF Chosen
    <3>2. U \ {Chosen(U)} \in Good
      BY <1>1, <3>1
    <3>3. /\ g[U] = f[Chosen(U)] + g[U \ {Chosen(U)}]
          /\ h[U] = f[Chosen(U)] + h[U \ {Chosen(U)}]
      BY <2>2 DEF Iterates, IteratesOn
    <3> QED
      BY <3>2, <3>3
  <2> QED
    BY <2>1, <2>2
<1>2. SUBSET T \subseteq Good
  <2>1. IsFiniteSet(T)
    BY FS_Subset
  <2> HIDE DEF Good
  <2> QED
    BY <1>1, <2>1, SmallerSubsets
<1> QED
  BY <1>2

\* The equations of the recursion.
LEMMA SumOfNothing ==
    ASSUME NEW f
    PROVE  SumFunctionOnSet(f, {}) = 0
<1>1. PICK iter : /\ Iterates(iter, f, {})
                  /\ SumFunctionOnSet(f, {}) = iter[{}]
  BY SumIsIterated, IterationExists, FS_EmptySet
<1> QED
  BY <1>1 DEF Iterates, IteratesOn

LEMMA SumUnfolds ==
    ASSUME NEW f, NEW S, IsFiniteSet(S), S # {}
    PROVE  /\ Chosen(S) \in S
           /\ SumFunctionOnSet(f, S) =
                 f[Chosen(S)] + SumFunctionOnSet(f, S \ {Chosen(S)})
<1>1. PICK T : T = S \ {Chosen(S)}
  OBVIOUS
<1>2. Chosen(S) \in S
  BY DEF Chosen
<1>3. IsFiniteSet(T) /\ T \in SUBSET S
  BY <1>1, FS_RemoveElement
<1>4. PICK g : Iterates(g, f, S) /\ SumFunctionOnSet(f, S) = g[S]
  BY SumIsIterated, IterationExists
<1>5. PICK h : Iterates(h, f, T) /\ SumFunctionOnSet(f, T) = h[T]
  BY <1>3, SumIsIterated, IterationExists
<1>6. g[T] = h[T]
  BY <1>3, <1>4, <1>5, IterationsAgree
<1>7. g[S] = f[Chosen(S)] + g[T]
  BY <1>1, <1>4 DEF Iterates, IteratesOn
<1> QED
  BY <1>1, <1>2, <1>4, <1>5, <1>6, <1>7

LEMMA CardinalityOfOneTo ==
    ASSUME NEW n \in Nat
    PROVE  IsFiniteSet(1..n) /\ Cardinality(1..n) = n
  BY FS_Interval

-----------------------------------------------------------------------------
(***************************************************************************)
(* Sums of integers                                                        *)
(***************************************************************************)
IntegersOn(f, S) == \A x \in S : f[x] \in Int

LEMMA SumType ==
    ASSUME NEW f, NEW S, IsFiniteSet(S), IntegersOn(f, S)
    PROVE  SumFunctionOnSet(f, S) \in Int
<1> DEFINE Good == {T \in SUBSET S : SumFunctionOnSet(f, T) \in Int}
<1>1. ASSUME NEW T \in SUBSET S, \A U \in SUBSET T : U # T => U \in Good
      PROVE  T \in Good
  <2>1. CASE T = {}
    BY <2>1, SumOfNothing
  <2>2. CASE T # {}
    <3>1. IsFiniteSet(T)
      BY FS_Subset
    <3>2. /\ Chosen(T) \in T
          /\ SumFunctionOnSet(f, T) =
                f[Chosen(T)] + SumFunctionOnSet(f, T \ {Chosen(T)})
      BY <2>2, <3>1, SumUnfolds
    <3>3. T \ {Chosen(T)} \in Good
      BY <1>1, <3>2
    <3> QED
      BY <3>2, <3>3 DEF IntegersOn
  <2> QED
    BY <2>1, <2>2
<1>2. SUBSET S \subseteq Good
  <2> HIDE DEF Good
  <2> QED
    BY <1>1, SmallerSubsets
<1> QED
  BY <1>2

\* Any element may be taken out first.
LEMMA SumWithout ==
    ASSUME NEW f, NEW S, IsFiniteSet(S), IntegersOn(f, S), NEW x \in S
    PROVE  SumFunctionOnSet(f, S) = f[x] + SumFunctionOnSet(f, S \ {x})
<1> DEFINE Good == {T \in SUBSET S :
                      \A y \in T : SumFunctionOnSet(f, T) =
                                      f[y] + SumFunctionOnSet(f, T \ {y})}
<1>1. ASSUME NEW T \in SUBSET S, \A U \in SUBSET T : U # T => U \in Good, NEW y \in T
      PROVE  SumFunctionOnSet(f, T) = f[y] + SumFunctionOnSet(f, T \ {y})
  <2>1. PICK c : c = Chosen(T)
    OBVIOUS
  <2>2. IsFiniteSet(T)
    BY FS_Subset
  <2>3. c \in T /\ SumFunctionOnSet(f, T) = f[c] + SumFunctionOnSet(f, T \ {c})
    BY <2>1, <2>2, SumUnfolds
  <2>4. CASE y = c
    BY <2>3, <2>4
  <2>5. CASE y # c
    <3>1. T \ {c} \in Good /\ T \ {y} \in Good
      BY <1>1, <2>3
    <3>2. SumFunctionOnSet(f, T \ {c}) = f[y] + SumFunctionOnSet(f, (T \ {c}) \ {y})
      BY <2>5, <3>1
    <3>3. SumFunctionOnSet(f, T \ {y}) = f[c] + SumFunctionOnSet(f, (T \ {y}) \ {c})
      BY <2>3, <2>5, <3>1
    <3>4. PICK R : R = (T \ {c}) \ {y}
      OBVIOUS
    <3>5. (T \ {y}) \ {c} = R
      BY <3>4
    <3>6. SumFunctionOnSet(f, R) \in Int
      <4>1. IsFiniteSet(R) /\ IntegersOn(f, R)
        BY <2>2, <3>4, FS_Subset DEF IntegersOn
      <4> QED
        BY <4>1, SumType
    <3>7. f[y] \in Int /\ f[c] \in Int
      BY <2>3 DEF IntegersOn
    <3>8. SumFunctionOnSet(f, T) = f[c] + (f[y] + SumFunctionOnSet(f, R))
      BY <2>3, <3>2, <3>4
    <3>9. SumFunctionOnSet(f, T \ {y}) = f[c] + SumFunctionOnSet(f, R)
      BY <3>3, <3>5
    <3> QED
      BY <3>6, <3>7, <3>8, <3>9
  <2> QED
    BY <2>4, <2>5
<1>2. SUBSET S \subseteq Good
  <2>1. \A T \in SUBSET S : (\A U \in SUBSET T : U # T => U \in Good) => T \in Good
    BY <1>1
  <2> HIDE DEF Good
  <2> QED
    BY <2>1, SmallerSubsets
<1> QED
  BY <1>2

LEMMA SumWith ==
    ASSUME NEW f, NEW S, IsFiniteSet(S), NEW x, x \notin S, IntegersOn(f, S \cup {x})
    PROVE  SumFunctionOnSet(f, S \cup {x}) = SumFunctionOnSet(f, S) + f[x]
<1>1. PICK T : T = S \cup {x}
  OBVIOUS
<1>2. IsFiniteSet(T) /\ x \in T /\ T \ {x} = S /\ IntegersOn(f, T) /\ IntegersOn(f, S)
  BY <1>1, FS_AddElement DEF IntegersOn
<1>3. SumFunctionOnSet(f, T) = f[x] + SumFunctionOnSet(f, S)
  BY <1>2, SumWithout
<1>4. f[x] \in Int /\ SumFunctionOnSet(f, S) \in Int
  BY <1>2, SumType DEF IntegersOn
<1> QED
  BY <1>1, <1>3, <1>4

\* A sum depends on the values in the set only, and not on the names of its
\* elements: h maps S one to one onto T.
Renames(h, f, S, g, T) ==
    /\ \A x \in S : h[x] \in T /\ g[h[x]] = f[x]
    /\ \A x, y \in S : h[x] = h[y] => x = y
    /\ \A z \in T : \E x \in S : h[x] = z

LEMMA SumReindexed ==
    ASSUME NEW f, NEW S, IsFiniteSet(S), IntegersOn(f, S), NEW g, NEW T, NEW h,
           Renames(h, f, S, g, T)
    PROVE  /\ IsFiniteSet(T) /\ Cardinality(T) = Cardinality(S)
           /\ SumFunctionOnSet(g, T) = SumFunctionOnSet(f, S)
<1> DEFINE Image(U) == {h[x] : x \in U}
           Good == {U \in SUBSET S :
                      /\ IsFiniteSet(Image(U)) /\ Cardinality(Image(U)) = Cardinality(U)
                      /\ SumFunctionOnSet(g, Image(U)) = SumFunctionOnSet(f, U)}
<1> USE DEF Renames
<1>1. {} \in Good
  <2>1. Image({}) = {}
    OBVIOUS
  <2>2. SumFunctionOnSet(g, {}) = SumFunctionOnSet(f, {})
    BY SumOfNothing
  <2> HIDE DEF Image
  <2> QED
    BY <2>1, <2>2, FS_EmptySet
<1>2. ASSUME NEW U \in SUBSET S, NEW x \in S \ U, U \in Good PROVE U \cup {x} \in Good
  <2>1. PICK I : I = Image(U)
    OBVIOUS
  <2>2. Image(U \cup {x}) = I \cup {h[x]} /\ h[x] \notin I
    BY <2>1
  <2>3. /\ IsFiniteSet(U) /\ Cardinality(U) \in Nat
        /\ IsFiniteSet(I) /\ Cardinality(I) = Cardinality(U)
        /\ SumFunctionOnSet(g, I) = SumFunctionOnSet(f, U)
    BY <1>2, <2>1, FS_Subset, FS_CardinalityType
  <2>4. IntegersOn(f, U \cup {x}) /\ IntegersOn(g, I \cup {h[x]})
    BY <2>1 DEF IntegersOn
  <2>5. /\ SumFunctionOnSet(f, U \cup {x}) = SumFunctionOnSet(f, U) + f[x]
        /\ SumFunctionOnSet(g, I \cup {h[x]}) = SumFunctionOnSet(g, I) + g[h[x]]
    BY <2>2, <2>3, <2>4, SumWith
  <2>6. /\ IsFiniteSet(I \cup {h[x]})
        /\ Cardinality(I \cup {h[x]}) = Cardinality(I) + 1
        /\ Cardinality(U \cup {x}) = Cardinality(U) + 1
    BY <2>2, <2>3, FS_AddElement
  <2> HIDE DEF Image
  <2> QED
    BY <2>2, <2>3, <2>5, <2>6
<1>3. S \in Good
  <2> HIDE DEF Good
  <2> QED
    BY <1>1, <1>2, OneByOne
<1>4. Image(S) = T
  OBVIOUS
<1> HIDE DEF Image
<1> QED
  BY <1>3, <1>4

LEMMA SumAgrees ==
    ASSUME NEW f, NEW g, NEW S, IsFiniteSet(S), IntegersOn(f, S),
           \A x \in S : g[x] = f[x]
    PROVE  SumFunctionOnSet(g, S) = SumFunctionOnSet(f, S)
<1> DEFINE h == [x \in S |-> x]
<1>1. Renames(h, f, S, g, S)
  BY DEF Renames
<1> HIDE DEF h
<1> QED
  BY <1>1, SumReindexed

LEMMA SumOfUnion ==
    ASSUME NEW f, NEW S, IsFiniteSet(S), NEW T, IsFiniteSet(T), S \cap T = {},
           IntegersOn(f, S \cup T)
    PROVE  SumFunctionOnSet(f, S \cup T) = SumFunctionOnSet(f, S) + SumFunctionOnSet(f, T)
<1> DEFINE Good == {U \in SUBSET T :
                      SumFunctionOnSet(f, S \cup U) =
                         SumFunctionOnSet(f, S) + SumFunctionOnSet(f, U)}
<1>0. SumFunctionOnSet(f, S) \in Int
  BY SumType DEF IntegersOn
<1>1. {} \in Good
  <2>1. S \cup {} = S
    OBVIOUS
  <2> QED
    BY <1>0, <2>1, SumOfNothing
<1>2. ASSUME NEW U \in SUBSET T, NEW x \in T \ U, U \in Good PROVE U \cup {x} \in Good
  <2>1. PICK V : V = S \cup U
    OBVIOUS
  <2>2. S \cup (U \cup {x}) = V \cup {x} /\ x \notin V
    BY <2>1
  <2>3. IsFiniteSet(U) /\ IsFiniteSet(V)
    BY <2>1, FS_Subset, FS_Union
  <2>4. IntegersOn(f, U \cup {x}) /\ IntegersOn(f, V \cup {x}) /\ IntegersOn(f, U)
    BY <2>1 DEF IntegersOn
  <2>5. /\ SumFunctionOnSet(f, U \cup {x}) = SumFunctionOnSet(f, U) + f[x]
        /\ SumFunctionOnSet(f, V \cup {x}) = SumFunctionOnSet(f, V) + f[x]
    BY <2>2, <2>3, <2>4, SumWith
  <2>6. SumFunctionOnSet(f, U) \in Int /\ f[x] \in Int
    BY <2>3, <2>4, SumType DEF IntegersOn
  <2>7. SumFunctionOnSet(f, V) = SumFunctionOnSet(f, S) + SumFunctionOnSet(f, U)
    BY <1>2, <2>1
  <2>8. SumFunctionOnSet(f, V \cup {x}) = SumFunctionOnSet(f, S) + SumFunctionOnSet(f, U \cup {x})
    BY <1>0, <2>5, <2>6, <2>7
  <2> QED
    BY <2>2, <2>8
<1>3. T \in Good
  <2> HIDE DEF Good
  <2> QED
    BY <1>1, <1>2, OneByOne
<1> QED
  BY <1>3

LEMMA SumOfZeros ==
    ASSUME NEW f, NEW S, IsFiniteSet(S), \A x \in S : f[x] = 0
    PROVE  SumFunctionOnSet(f, S) = 0
<1> DEFINE Good == {U \in SUBSET S : SumFunctionOnSet(f, U) = 0}
<1>1. {} \in Good
  BY SumOfNothing
<1>2. ASSUME NEW U \in SUBSET S, NEW x \in S \ U, U \in Good PROVE U \cup {x} \in Good
  <2>1. IsFiniteSet(U) /\ IntegersOn(f, U \cup {x})
    BY FS_Subset DEF IntegersOn
  <2>2. SumFunctionOnSet(f, U \cup {x}) = SumFunctionOnSet(f, U) + f[x]
    BY <2>1, SumWith
  <2> QED
    BY <1>2, <2>2
<1>3. S \in Good
  <2> HIDE DEF Good
  <2> QED
    BY <1>1, <1>2, OneByOne
<1> QED
  BY <1>3

\* The sum of a function's values is the sum over its domain of any function
\* that agrees with it there.
LEMMA SumOfFunction ==
    ASSUME NEW g, IsFiniteSet(DOMAIN g), NEW f, IntegersOn(f, DOMAIN g),
           \A x \in DOMAIN g : g[x] = f[x]
    PROVE  SumFunction(g) = SumFunctionOnSet(f, DOMAIN g)
<1> PICK S : S = DOMAIN g
  OBVIOUS
<1> QED
  BY SumAgrees DEF SumFunction

\* Sums of nothing negative.
LEMMA SumOfNaturals ==
    ASSUME NEW f, NEW S, IsFiniteSet(S), \A x \in S : f[x] \in Nat
    PROVE  /\ SumFunctionOnSet(f, S) \in Nat
           /\ (\E x \in S : f[x] > 0) => SumFunctionOnSet(f, S) > 0
<1> DEFINE Good == {T \in SUBSET S : SumFunctionOnSet(f, T) \in Nat}
<1>1. {} \in Good
  BY SumOfNothing
<1>2. ASSUME NEW T \in SUBSET S, NEW x \in S \ T, T \in Good PROVE T \cup {x} \in Good
  <2>1. IsFiniteSet(T) /\ IntegersOn(f, T \cup {x})
    BY FS_Subset DEF IntegersOn
  <2>2. SumFunctionOnSet(f, T \cup {x}) = SumFunctionOnSet(f, T) + f[x]
    BY <2>1, SumWith
  <2> QED
    BY <1>2, <2>2
<1>3. \A T \in SUBSET S : IsFiniteSet(T) => SumFunctionOnSet(f, T) \in Nat
  <2> SUFFICES ASSUME NEW T \in SUBSET S PROVE SumFunctionOnSet(f, T) \in Nat
    OBVIOUS
  <2>0. IsFiniteSet(T)
    BY FS_Subset
  <2>1. PICK Natural : Natural = Good \cap SUBSET T
    OBVIOUS
  <2>2. {} \in Natural
    BY <1>1, <2>1
  <2>3. \A U \in SUBSET T : \A x \in T \ U : U \in Natural => U \cup {x} \in Natural
    BY <1>2, <2>1
  <2>4. T \in Natural
    BY <2>0, <2>2, <2>3, OneByOne
  <2> QED
    BY <2>1, <2>4
<1>4. ASSUME NEW x \in S, f[x] > 0 PROVE SumFunctionOnSet(f, S) > 0
  <2>1. SumFunctionOnSet(f, S) = f[x] + SumFunctionOnSet(f, S \ {x})
    BY SumWithout DEF IntegersOn
  <2>2. SumFunctionOnSet(f, S \ {x}) \in Nat
    BY <1>3, FS_RemoveElement
  <2> QED
    BY <1>4, <2>1, <2>2
<1> QED
  BY <1>3, <1>4

\* A sum of linear terms.
Linear(h, a, f, b, g, c, S) == \A x \in S : h[x] = a * f[x] + b * g[x] + c

LEMMA SumLinear ==
    ASSUME NEW f, NEW g, NEW S, IsFiniteSet(S), IntegersOn(f, S), IntegersOn(g, S),
           NEW a \in Int, NEW b \in Int, NEW c \in Int,
           NEW h, Linear(h, a, f, b, g, c, S)
    PROVE  SumFunctionOnSet(h, S) =
             a * SumFunctionOnSet(f, S) + b * SumFunctionOnSet(g, S) + c * Cardinality(S)
<1> DEFINE Good == {T \in SUBSET S : SumFunctionOnSet(h, T) =
               a * SumFunctionOnSet(f, T) + b * SumFunctionOnSet(g, T) + c * Cardinality(T)}
<1>1. {} \in Good
  <2>1. Cardinality({}) = 0
    BY FS_EmptySet
  <2> QED
    BY <2>1, SumOfNothing
<1>2. ASSUME NEW T \in SUBSET S, NEW x \in S \ T, T \in Good PROVE T \cup {x} \in Good
  <2>1. IsFiniteSet(T) /\ Cardinality(T) \in Nat
    BY FS_Subset, FS_CardinalityType
  <2>2. f[x] \in Int /\ g[x] \in Int /\ h[x] = a * f[x] + b * g[x] + c
    BY DEF IntegersOn, Linear
  <2>3. /\ IntegersOn(f, T \cup {x}) /\ IntegersOn(f, T)
        /\ IntegersOn(g, T \cup {x}) /\ IntegersOn(g, T)
        /\ IntegersOn(h, T \cup {x})
    BY DEF IntegersOn, Linear
  <2>4. /\ SumFunctionOnSet(f, T \cup {x}) = SumFunctionOnSet(f, T) + f[x]
        /\ SumFunctionOnSet(g, T \cup {x}) = SumFunctionOnSet(g, T) + g[x]
        /\ SumFunctionOnSet(h, T \cup {x}) = SumFunctionOnSet(h, T) + h[x]
        /\ Cardinality(T \cup {x}) = Cardinality(T) + 1
    BY <2>1, <2>3, SumWith, FS_AddElement
  <2>5. SumFunctionOnSet(f, T) \in Int /\ SumFunctionOnSet(g, T) \in Int
    BY <2>1, <2>3, SumType
  <2>6. \A p, q, n, u, v \in Int :
           (a * p + b * q + c * n) + (a * u + b * v + c)
              = a * (p + u) + b * (q + v) + c * (n + 1)
    OBVIOUS
  <2>7. SumFunctionOnSet(h, T) =
          a * SumFunctionOnSet(f, T) + b * SumFunctionOnSet(g, T) + c * Cardinality(T)
    BY <1>2
  <2>8. SumFunctionOnSet(h, T \cup {x}) =
           a * SumFunctionOnSet(f, T \cup {x}) + b * SumFunctionOnSet(g, T \cup {x})
             + c * Cardinality(T \cup {x})
    BY <2>1, <2>2, <2>4, <2>5, <2>6, <2>7
  <2> QED
    BY <2>8
<1> HIDE DEF Good
<1>3. S \in Good
  BY <1>1, <1>2, OneByOne
<1> QED
  BY <1>3 DEF Good
=============================================================================
