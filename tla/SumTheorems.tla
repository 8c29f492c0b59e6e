----------------------------- MODULE SumTheorems -----------------------------
(***************************************************************************)
(* Sums over finite sets: what SumFunctionOnSet of the community module    *)
(* Functions yields when an element is added, taken away or changed.       *)
(*                                                                         *)
(* The sum is a fold, that is a function defined by recursion over the     *)
(* subsets of the set.  The facts here are proved by taking a smallest     *)
(* subset for which they fail; strict inclusion is well founded on the     *)
(* finite sets.                                                            *)
(***************************************************************************)
EXTENDS Integers, FiniteSets, Functions, FiniteSetTheorems, WellFoundedInduction, TLAPS

\* The element that the fold takes next, and what it makes of a subset s when g
\* has the sums of the smaller ones.
First(S) == CHOOSE x \in S : TRUE
SumStep(f, g, s) == IF s = {} THEN 0 ELSE f[First(s)] + g[s \ {First(s)}]
IsSums(f, g, S) == g = [s \in SUBSET S |-> SumStep(f, g, s)]

LEMMA FirstIn ==
  ASSUME NEW S, S # {}
  PROVE  First(S) \in S
BY DEF First

LEMMA SumIsFold ==
  ASSUME NEW f, NEW S
  PROVE  SumFunctionOnSet(f, S) = (CHOOSE g : IsSums(f, g, S))[S]
BY DEF SumFunctionOnSet, FoldFunctionOnSet, MapThenFoldSet, IsSums, SumStep, First

\* Among some numbers there is a smallest one.
LEMMA SmallestNumber ==
  ASSUME NEW I \in SUBSET Nat, I # {}
  PROVE  \E x \in I : \A y \in I : x <= y
<1>1. PICK x \in I : \A y \in I : ~ (<<y, x>> \in OpToRel(<, Nat))
  BY NatLessThanWellFounded, WFMin
<1>2. \A y \in I : <<y, x>> \in Nat \X Nat
  OBVIOUS
<1>3. \A y \in I : ~ (y < x)
  BY <1>1, <1>2, Zenon DEF OpToRel
<1> QED BY <1>3

\* Among some subsets of a finite set there is a smallest one.
LEMMA SmallestSubset ==
  ASSUME NEW S, IsFiniteSet(S), NEW Bad \in SUBSET SUBSET S, Bad # {}
  PROVE  \E T \in Bad : IsFiniteSet(T) /\ \A U \in SUBSET T : U # T => U \notin Bad
<1>1. Bad \subseteq FiniteSubsetsOf(S)
  BY FS_FiniteSubsetsOfFinite
<1>2. PICK T \in Bad : \A U \in Bad : ~ (<<U, T>> \in StrictSubsetOrdering(S))
  BY <1>1, FS_StrictSubsetOrderingWellFounded, WFMin
<1>3. IsFiniteSet(T)
  BY FS_Subset
<1> QED BY <1>2, <1>3 DEF StrictSubsetOrdering

\* Two functions with the fold's recursion agree where both are defined.
LEMMA SumsAgree ==
  ASSUME NEW f, NEW S, NEW T, NEW g, NEW h, IsFiniteSet(S), IsSums(f, g, S), IsSums(f, h, T),
         NEW s \in SUBSET S, s \in SUBSET T
  PROVE  g[s] = h[s]
<1> DEFINE Bad == {u \in SUBSET s : g[u] # h[u]}
<1> SUFFICES ASSUME Bad # {} PROVE FALSE
  OBVIOUS
<1>1. IsFiniteSet(s)
  BY FS_Subset
<1>2. PICK u \in Bad : \A v \in SUBSET u : v # u => v \notin Bad
  <2>1. Bad \in SUBSET SUBSET s
    OBVIOUS
  <2> HIDE DEF Bad
  <2> QED BY <1>1, <2>1, SmallestSubset
<1>3. /\ u \in SUBSET S /\ u \in SUBSET T
      /\ g[u] = SumStep(f, g, u) /\ h[u] = SumStep(f, h, u)
  BY DEF IsSums
<1>4. u # {}
  BY <1>3 DEF SumStep
<1>5. g[u \ {First(u)}] = h[u \ {First(u)}]
  BY <1>2, <1>4, FirstIn
<1> QED BY <1>3, <1>5 DEF SumStep

LEMMA SumsExist ==
  ASSUME NEW f, NEW S, IsFiniteSet(S)
  PROVE  \E g : IsSums(f, g, S)
<1> DEFINE Bad == {T \in SUBSET S : ~ \E g : IsSums(f, g, T)}
<1> SUFFICES ASSUME Bad # {} PROVE FALSE
  OBVIOUS
<1>1. PICK T \in Bad : IsFiniteSet(T) /\ \A U \in SUBSET T : U # T => U \notin Bad
  <2>1. Bad \in SUBSET SUBSET S
    OBVIOUS
  <2> HIDE DEF Bad
  <2> QED BY <2>1, SmallestSubset
<1> DEFINE G(U) == CHOOSE g : IsSums(f, g, U)
           V(U) == G(U)[U]
           h == [s \in SUBSET T |-> IF s = T
                                    THEN IF T = {} THEN 0 ELSE f[First(T)] + V(T \ {First(T)})
                                    ELSE V(s)]
<1>2. ASSUME NEW U \in SUBSET T, U # T PROVE IsSums(f, G(U), U)
  <2>1. U \in SUBSET S /\ U \notin Bad
    BY <1>1, <1>2
  <2> QED BY <2>1
<1>3. ASSUME NEW s \in SUBSET T PROVE h[s] = SumStep(f, h, s)
  <2>1. CASE s = {}
    <3>1. CASE T = {}
      BY <2>1, <3>1 DEF SumStep
    <3>2. CASE T # {}
      <4>1. IsSums(f, G({}), {})
        BY <1>2, <3>2
      <4> HIDE DEF G
      <4>2. G({})[{}] = SumStep(f, G({}), {})
        BY <4>1 DEF IsSums
      <4> QED BY <2>1, <3>2, <4>2 DEF SumStep
    <3> QED BY <3>1, <3>2
  <2>2. CASE s # {}
    <3> DEFINE u == s \ {First(s)}
    <3>1. u \in SUBSET T /\ u \in SUBSET s /\ u # s /\ u # T
      BY <2>2, FirstIn
    <3>2. h[u] = V(u)
      BY <3>1
    <3>3. CASE s = T
      BY <2>2, <3>2, <3>3 DEF SumStep
    <3>4. CASE s # T
      <4>1. IsSums(f, G(s), s) /\ IsSums(f, G(u), u) /\ IsFiniteSet(s)
        BY <1>1, <1>2, <3>1, <3>4, FS_Subset
      <4> HIDE DEF G
      <4>2. G(s)[s] = SumStep(f, G(s), s)
        BY <4>1 DEF IsSums
      <4>3. G(s)[u] = G(u)[u]
        BY <3>1, <4>1, SumsAgree
      <4> QED BY <2>2, <3>2, <3>4, <4>2, <4>3 DEF SumStep
    <3> QED BY <3>3, <3>4
  <2> QED BY <2>1, <2>2
<1>4. IsSums(f, h, T)
  <2> HIDE DEF V
  <2>1. h = [s \in SUBSET T |-> h[s]]
    OBVIOUS
  <2> HIDE DEF h
  <2> QED BY <1>3, <2>1 DEF IsSums
<1> QED BY <1>1, <1>4

\* The recursion of the fold, one element at a time.
LEMMA SumUnfolds ==
  ASSUME NEW f, NEW S, IsFiniteSet(S)
  PROVE  SumFunctionOnSet(f, S) =
           IF S = {} THEN 0 ELSE f[First(S)] + SumFunctionOnSet(f, S \ {First(S)})
<1> DEFINE G(U) == CHOOSE g : IsSums(f, g, U)
           u == S \ {First(S)}
<1>1. IsFiniteSet(u)
  BY FS_Subset
<1>2. IsSums(f, G(S), S) /\ IsSums(f, G(u), u)
  BY <1>1, SumsExist
<1>3. SumFunctionOnSet(f, S) = G(S)[S] /\ SumFunctionOnSet(f, u) = G(u)[u]
  BY SumIsFold
<1> HIDE DEF G
<1>4. G(S)[S] = SumStep(f, G(S), S)
  BY <1>2 DEF IsSums
<1>5. G(S)[u] = G(u)[u]
  BY <1>2, SumsAgree
<1> QED BY <1>3, <1>4, <1>5 DEF SumStep

-----------------------------------------------------------------------------
\* Nothing adds up to zero: what a ledger without rows says.
THEOREM SumEmpty ==
  ASSUME NEW f
  PROVE  SumFunctionOnSet(f, {}) = 0
BY SumUnfolds, FS_EmptySet

\* A sum of integers is an integer: profits, which may be losses.
THEOREM SumInt ==
  ASSUME NEW S, IsFiniteSet(S), NEW f, \A x \in S : f[x] \in Int
  PROVE  SumFunctionOnSet(f, S) \in Int
<1> DEFINE Bad == {T \in SUBSET S : SumFunctionOnSet(f, T) \notin Int}
<1> SUFFICES ASSUME Bad # {} PROVE FALSE
  OBVIOUS
<1>1. PICK T \in Bad : IsFiniteSet(T) /\ \A U \in SUBSET T : U # T => U \notin Bad
  <2>1. Bad \in SUBSET SUBSET S
    OBVIOUS
  <2> HIDE DEF Bad
  <2> QED BY <2>1, SmallestSubset
<1>2. T # {}
  BY SumEmpty
<1>3. First(T) \in T /\ SumFunctionOnSet(f, T \ {First(T)}) \in Int
  BY <1>1, <1>2, FirstIn
<1> QED BY <1>1, <1>2, <1>3, SumUnfolds

\* A sum of natural numbers is one: stakes, reservations, charges.
THEOREM SumNat ==
  ASSUME NEW S, IsFiniteSet(S), NEW f, \A x \in S : f[x] \in Nat
  PROVE  SumFunctionOnSet(f, S) \in Nat
<1> DEFINE Bad == {T \in SUBSET S : SumFunctionOnSet(f, T) \notin Nat}
<1> SUFFICES ASSUME Bad # {} PROVE FALSE
  OBVIOUS
<1>1. PICK T \in Bad : IsFiniteSet(T) /\ \A U \in SUBSET T : U # T => U \notin Bad
  <2>1. Bad \in SUBSET SUBSET S
    OBVIOUS
  <2> HIDE DEF Bad
  <2> QED BY <2>1, SmallestSubset
<1>2. T # {}
  BY SumEmpty
<1>3. First(T) \in T /\ SumFunctionOnSet(f, T \ {First(T)}) \in Nat
  BY <1>1, <1>2, FirstIn
<1> QED BY <1>1, <1>2, <1>3, SumUnfolds

\* Any element may be taken out first.
THEOREM SumRemove ==
  ASSUME NEW S, IsFiniteSet(S), NEW f, \A y \in S : f[y] \in Int, NEW x \in S
  PROVE  SumFunctionOnSet(f, S) = f[x] + SumFunctionOnSet(f, S \ {x})
<1> DEFINE Sum(T) == SumFunctionOnSet(f, T)
           Splits(T) == \A y \in T : Sum(T) = f[y] + Sum(T \ {y})
           Bad == {T \in SUBSET S : ~ Splits(T)}
<1> SUFFICES ASSUME Bad # {} PROVE FALSE
  OBVIOUS
<1>1. PICK T \in Bad : IsFiniteSet(T) /\ \A U \in SUBSET T : U # T => U \notin Bad
  <2>1. Bad \in SUBSET SUBSET S
    OBVIOUS
  <2> HIDE DEF Bad
  <2> QED BY <2>1, SmallestSubset
<1>2. ASSUME NEW y \in T PROVE Sum(T) = f[y] + Sum(T \ {y})
  <2> DEFINE c == First(T)
  <2>1. T # {} /\ c \in T /\ Sum(T) = f[c] + Sum(T \ {c})
    BY <1>1, <1>2, FirstIn, SumUnfolds
  <2> HIDE DEF c
  <2>2. CASE y = c
    BY <2>1, <2>2
  <2>3. CASE y # c
    <3>1. /\ T \ {c} \in SUBSET S /\ T \ {c} \in SUBSET T /\ T \ {c} # T
          /\ T \ {y} \in SUBSET S /\ T \ {y} \in SUBSET T /\ T \ {y} # T
      BY <2>1
    <3>2. Splits(T \ {c}) /\ Splits(T \ {y})
      BY <1>1, <3>1
    <3>3. y \in T \ {c} /\ c \in T \ {y} /\ (T \ {c}) \ {y} = (T \ {y}) \ {c}
      BY <2>1, <2>3
    <3>4. /\ Sum(T \ {c}) = f[y] + Sum((T \ {c}) \ {y})
          /\ Sum(T \ {y}) = f[c] + Sum((T \ {c}) \ {y})
      BY <3>2, <3>3
    <3>5. f[y] \in Int /\ f[c] \in Int /\ Sum((T \ {c}) \ {y}) \in Int
      <4>1. IsFiniteSet((T \ {c}) \ {y})
        BY <1>1, FS_Subset
      <4> QED BY <2>1, <4>1, SumInt
    <3> HIDE DEF Sum
    <3> QED BY <2>1, <3>4, <3>5
  <2> QED BY <2>2, <2>3
<1> QED BY <1>1, <1>2

\* Only the elements of the set count.
THEOREM SumSame ==
  ASSUME NEW S, IsFiniteSet(S), NEW f, NEW g, \A x \in S : f[x] = g[x]
  PROVE  SumFunctionOnSet(f, S) = SumFunctionOnSet(g, S)
<1> DEFINE Bad == {T \in SUBSET S : SumFunctionOnSet(f, T) # SumFunctionOnSet(g, T)}
<1> SUFFICES ASSUME Bad # {} PROVE FALSE
  OBVIOUS
<1>1. PICK T \in Bad : IsFiniteSet(T) /\ \A U \in SUBSET T : U # T => U \notin Bad
  <2>1. Bad \in SUBSET SUBSET S
    OBVIOUS
  <2> HIDE DEF Bad
  <2> QED BY <2>1, SmallestSubset
<1>2. T # {}
  BY SumEmpty
<1>3. /\ First(T) \in T /\ First(T) \in S
      /\ SumFunctionOnSet(f, T \ {First(T)}) = SumFunctionOnSet(g, T \ {First(T)})
  BY <1>1, <1>2, FirstIn
<1> QED BY <1>1, <1>2, <1>3, SumUnfolds

-----------------------------------------------------------------------------
(***************************************************************************)
(* One element changes.                                                    *)
(***************************************************************************)
\* An element is added: a row of a ledger, an entry of a wallet.
THEOREM SumAdd ==
  ASSUME NEW S, IsFiniteSet(S), NEW x, x \notin S, NEW f, \A y \in S \cup {x} : f[y] \in Int
  PROVE  SumFunctionOnSet(f, S \cup {x}) = SumFunctionOnSet(f, S) + f[x]
<1>1. IsFiniteSet(S \cup {x}) /\ (S \cup {x}) \ {x} = S
  BY FS_AddElement
<1>2. SumFunctionOnSet(f, S \cup {x}) = f[x] + SumFunctionOnSet(f, S)
  BY <1>1, SumRemove
<1>3. f[x] \in Int /\ SumFunctionOnSet(f, S) \in Int
  BY SumInt
<1> QED BY <1>2, <1>3

\* The value of one element changes.
THEOREM SumUpdate ==
  ASSUME NEW S, IsFiniteSet(S), NEW x \in S, NEW f, NEW g,
         \A y \in S : f[y] \in Int /\ g[y] \in Int,
         \A y \in S \ {x} : f[y] = g[y]
  PROVE  SumFunctionOnSet(g, S) = SumFunctionOnSet(f, S) - f[x] + g[x]
<1>1. IsFiniteSet(S \ {x})
  BY FS_Subset
<1>2. /\ SumFunctionOnSet(f, S) = f[x] + SumFunctionOnSet(f, S \ {x})
      /\ SumFunctionOnSet(g, S) = g[x] + SumFunctionOnSet(g, S \ {x})
  BY SumRemove
<1>3. SumFunctionOnSet(f, S \ {x}) = SumFunctionOnSet(g, S \ {x})
  BY <1>1, SumSame
<1>4. f[x] \in Int /\ g[x] \in Int /\ SumFunctionOnSet(f, S \ {x}) \in Int
  BY <1>1, SumInt
<1> QED BY <1>2, <1>3, <1>4

\* A part adds up to no more than the whole: the charges of a day and of its month.
THEOREM SumSubset ==
  ASSUME NEW S, IsFiniteSet(S), NEW f, \A x \in S : f[x] \in Nat, NEW T \in SUBSET S
  PROVE  SumFunctionOnSet(f, T) <= SumFunctionOnSet(f, S)
<1> DEFINE Sum(U) == SumFunctionOnSet(f, U)
           Bad == {U \in SUBSET S : T \subseteq U /\ ~ (Sum(T) <= Sum(U))}
<1> SUFFICES ASSUME Bad # {} PROVE FALSE
  OBVIOUS
<1>1. PICK U \in Bad : IsFiniteSet(U) /\ \A W \in SUBSET U : W # U => W \notin Bad
  <2>1. Bad \in SUBSET SUBSET S
    OBVIOUS
  <2> HIDE DEF Bad
  <2> QED BY <2>1, SmallestSubset
<1>2. Sum(U) \in Nat /\ Sum(T) \in Nat
  BY <1>1, SumNat, FS_Subset
<1>3. U # T
  BY <1>2
<1>4. PICK x \in U : x \notin T
  BY <1>3
<1>5. U \ {x} \in SUBSET S /\ U \ {x} \in SUBSET U /\ U \ {x} # U /\ T \subseteq U \ {x}
  BY <1>4
<1>6. Sum(T) <= Sum(U \ {x})
  BY <1>1, <1>5
<1>7. Sum(U) = f[x] + Sum(U \ {x}) /\ f[x] \in Nat /\ Sum(U \ {x}) \in Nat
  <2>1. /\ \A y \in U : f[y] \in Nat /\ f[y] \in Int
        /\ \A y \in U \ {x} : f[y] \in Nat
        /\ IsFiniteSet(U \ {x})
    BY <1>1, FS_Subset
  <2> HIDE DEF Bad
  <2> QED BY <1>1, <2>1, SumRemove, SumNat
<1> HIDE DEF Sum
<1> QED BY <1>2, <1>6, <1>7

\* The set itself changes, in one element at most.
Share(f, S, x) == IF x \in S THEN f[x] ELSE 0

\* A row is written, removed or changed, and all others stay: the step of every ledger here.
THEOREM SumChange ==
  ASSUME NEW A, NEW B, IsFiniteSet(A), IsFiniteSet(B), NEW f, NEW g, NEW x,
         A \ {x} = B \ {x},
         \A y \in A : f[y] \in Int, \A y \in B : g[y] \in Int,
         \A y \in A \ {x} : f[y] = g[y]
  PROVE  SumFunctionOnSet(g, B) = SumFunctionOnSet(f, A) - Share(f, A, x) + Share(g, B, x)
<1>1. IsFiniteSet(A \ {x})
  BY FS_Subset
<1>2. SumFunctionOnSet(f, A) = Share(f, A, x) + SumFunctionOnSet(f, A \ {x})
  <2>1. CASE x \in A
    <3>1. SumFunctionOnSet(f, A) = f[x] + SumFunctionOnSet(f, A \ {x})
      BY <2>1, SumRemove
    <3> QED BY <2>1, <3>1 DEF Share
  <2>2. CASE x \notin A
    <3>1. A \ {x} = A /\ Share(f, A, x) = 0
      BY <2>2 DEF Share
    <3>2. SumFunctionOnSet(f, A) \in Int
      BY SumInt
    <3>3. SumFunctionOnSet(f, A \ {x}) = SumFunctionOnSet(f, A)
      BY <3>1, Zenon
    <3> QED BY <3>1, <3>2, <3>3
  <2> QED BY <2>1, <2>2
<1>3. SumFunctionOnSet(g, B) = Share(g, B, x) + SumFunctionOnSet(g, B \ {x})
  <2>1. CASE x \in B
    <3>1. SumFunctionOnSet(g, B) = g[x] + SumFunctionOnSet(g, B \ {x})
      BY <2>1, SumRemove
    <3> QED BY <2>1, <3>1 DEF Share
  <2>2. CASE x \notin B
    <3>1. B \ {x} = B /\ Share(g, B, x) = 0
      BY <2>2 DEF Share
    <3>2. SumFunctionOnSet(g, B) \in Int
      BY SumInt
    <3>3. SumFunctionOnSet(g, B \ {x}) = SumFunctionOnSet(g, B)
      BY <3>1, Zenon
    <3> QED BY <3>1, <3>2, <3>3
  <2> QED BY <2>1, <2>2
<1>4. SumFunctionOnSet(f, A \ {x}) = SumFunctionOnSet(g, B \ {x})
  BY <1>1, SumSame
<1>5. /\ SumFunctionOnSet(f, A \ {x}) \in Int
      /\ Share(f, A, x) \in Int /\ Share(g, B, x) \in Int
  <2>1. SumFunctionOnSet(f, A \ {x}) \in Int
    BY <1>1, SumInt
  <2> QED BY <2>1 DEF Share
<1> QED BY <1>2, <1>3, <1>4, <1>5

\* Elements whose value is zero may be left out.
THEOREM SumWithin ==
  ASSUME NEW S, IsFiniteSet(S), NEW f, \A x \in S : f[x] \in Int,
         NEW T \in SUBSET S, \A x \in S \ T : f[x] = 0
  PROVE  SumFunctionOnSet(f, T) = SumFunctionOnSet(f, S)
<1> DEFINE Sum(U) == SumFunctionOnSet(f, U)
           Bad == {U \in SUBSET S : T \subseteq U /\ Sum(T) # Sum(U)}
<1> SUFFICES ASSUME Bad # {} PROVE FALSE
  OBVIOUS
<1>1. PICK U \in Bad : IsFiniteSet(U) /\ \A W \in SUBSET U : W # U => W \notin Bad
  <2>1. Bad \in SUBSET SUBSET S
    OBVIOUS
  <2> HIDE DEF Bad
  <2> QED BY <2>1, SmallestSubset
<1>2. PICK x \in U : x \notin T
  <2>1. T \subseteq U /\ U # T
    OBVIOUS
  <2> QED BY <2>1
<1>3. /\ U \in SUBSET S /\ Sum(T) # Sum(U)
      /\ U \ {x} \in SUBSET S /\ U \ {x} \in SUBSET U /\ U \ {x} # U /\ T \subseteq U \ {x}
  BY <1>2
<1>4. Sum(T) = Sum(U \ {x})
  BY <1>1, <1>3
<1>5. \A y \in U : f[y] \in Int
  BY <1>3
<1>6. IsFiniteSet(U \ {x})
  BY <1>1, FS_Subset
<1>7. Sum(U) = f[x] + Sum(U \ {x}) /\ f[x] = 0 /\ Sum(U \ {x}) \in Int
  <2>1. \A y \in U \ {x} : f[y] \in Int
    BY <1>5
  <2>2. f[x] = 0
    BY <1>2, <1>3
  <2> HIDE DEF Bad
  <2>3. Sum(U) = f[x] + Sum(U \ {x})
    BY <1>1, <1>2, <1>5, SumRemove
  <2>4. Sum(U \ {x}) \in Int
    BY <1>6, <2>1, SumInt
  <2> QED BY <2>2, <2>3, <2>4
<1> QED BY <1>3, <1>4, <1>7

\* Every element of the set has the value zero.
THEOREM SumZero ==
  ASSUME NEW S, IsFiniteSet(S), NEW f, \A x \in S : f[x] = 0
  PROVE  SumFunctionOnSet(f, S) = 0
<1>1. SumFunctionOnSet(f, {}) = SumFunctionOnSet(f, S)
  BY SumWithin
<1> QED BY <1>1, SumEmpty

\* A sum of differences is the difference of the sums.
THEOREM SumMinus ==
  ASSUME NEW S, IsFiniteSet(S), NEW f, NEW g, NEW h,
         \A x \in S : f[x] \in Int /\ g[x] \in Int /\ h[x] = f[x] - g[x]
  PROVE  SumFunctionOnSet(h, S) = SumFunctionOnSet(f, S) - SumFunctionOnSet(g, S)
<1> DEFINE Splits(T) == SumFunctionOnSet(h, T) = SumFunctionOnSet(f, T) - SumFunctionOnSet(g, T)
           Bad == {T \in SUBSET S : ~ Splits(T)}
<1> SUFFICES ASSUME Bad # {} PROVE FALSE
  OBVIOUS
<1>1. PICK T \in Bad : IsFiniteSet(T) /\ \A U \in SUBSET T : U # T => U \notin Bad
  <2>1. Bad \in SUBSET SUBSET S
    OBVIOUS
  <2> HIDE DEF Bad
  <2> QED BY <2>1, SmallestSubset
<1>2. T # {}
  <2>1. /\ SumFunctionOnSet(f, {}) = 0 /\ SumFunctionOnSet(g, {}) = 0
        /\ SumFunctionOnSet(h, {}) = 0
    BY SumEmpty
  <2>2. \A a, b, c \in Int : a = 0 /\ b = 0 /\ c = 0 => c = a - b
    OBVIOUS
  <2>3. Splits({})
    BY <2>1, <2>2
  <2> QED BY <2>3
<1>3. PICK x \in T : TRUE
  BY <1>2
<1>4. /\ f[x] \in Int /\ g[x] \in Int /\ h[x] = f[x] - g[x] /\ h[x] \in Int
      /\ SumFunctionOnSet(h, T \ {x})
           = SumFunctionOnSet(f, T \ {x}) - SumFunctionOnSet(g, T \ {x})
  BY <1>1, <1>3
<1>5. /\ IsFiniteSet(T) /\ IsFiniteSet(T \ {x})
      /\ \A y \in T : f[y] \in Int
      /\ \A y \in T : g[y] \in Int
      /\ \A y \in T : h[y] \in Int
  <2>1. \A y \in T : f[y] \in Int /\ g[y] \in Int /\ h[y] = f[y] - g[y]
    BY <1>1
  <2> QED BY <1>1, <2>1, FS_Subset
<1>6. /\ SumFunctionOnSet(f, T \ {x}) \in Int
      /\ SumFunctionOnSet(g, T \ {x}) \in Int
  <2>1. /\ \A y \in T \ {x} : f[y] \in Int
        /\ \A y \in T \ {x} : g[y] \in Int
    BY <1>5
  <2> QED BY <1>5, <2>1, SumInt
<1>7. /\ SumFunctionOnSet(f, T) = f[x] + SumFunctionOnSet(f, T \ {x})
      /\ SumFunctionOnSet(g, T) = g[x] + SumFunctionOnSet(g, T \ {x})
      /\ SumFunctionOnSet(h, T) = h[x] + SumFunctionOnSet(h, T \ {x})
  BY <1>3, <1>5, SumRemove
<1>8. \A a, b, c, d \in Int : (a - b) + (c - d) = (a + c) - (b + d)
  OBVIOUS
<1>9. Splits(T)
  BY <1>4, <1>6, <1>7, <1>8
<1> QED BY <1>9

\* The values cancel each other, one by one.
THEOREM SumCancel ==
  ASSUME NEW S, IsFiniteSet(S), NEW f, NEW g,
         \A x \in S : f[x] \in Int /\ g[x] \in Int /\ f[x] + g[x] = 0
  PROVE  SumFunctionOnSet(f, S) + SumFunctionOnSet(g, S) = 0
<1> DEFINE zero == [x \in S |-> 0]
<1>1. \A x \in S : zero[x] \in Int /\ g[x] \in Int /\ f[x] = zero[x] - g[x]
  OBVIOUS
<1>2. SumFunctionOnSet(zero, S) = 0
  BY SumZero
<1>3. SumFunctionOnSet(g, S) \in Int
  BY SumInt
<1> HIDE DEF zero
<1>4. SumFunctionOnSet(f, S) = SumFunctionOnSet(zero, S) - SumFunctionOnSet(g, S)
  BY <1>1, SumMinus
<1> QED BY <1>2, <1>3, <1>4

\* A share of naturals is no more than their sum.
THEOREM ShareWithin ==
  ASSUME NEW S, IsFiniteSet(S), NEW f, \A x \in S : f[x] \in Nat, NEW y
  PROVE  Share(f, S, y) <= SumFunctionOnSet(f, S)
<1>1. SumFunctionOnSet(f, S) \in Nat
  BY SumNat
<1>2. CASE y \in S
  <2>1. SumFunctionOnSet(f, S) = f[y] + SumFunctionOnSet(f, S \ {y})
    BY <1>2, SumRemove
  <2>2. IsFiniteSet(S \ {y}) /\ \A x \in S \ {y} : f[x] \in Nat
    BY FS_Subset
  <2>3. SumFunctionOnSet(f, S \ {y}) \in Nat /\ f[y] \in Nat
    BY <1>2, <2>2, SumNat
  <2> QED BY <1>2, <2>1, <2>3 DEF Share
<1>3. CASE y \notin S
  BY <1>1, <1>3 DEF Share
<1> QED BY <1>2, <1>3
=============================================================================
