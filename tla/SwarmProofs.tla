---------------------------- MODULE SwarmProofs ----------------------------
(***************************************************************************)
(* Theorems about the swarm's stores: the key rotations (KeyRotation) and  *)
(* the claims of peers (PeerClaims).                                       *)
(*                                                                         *)
(* Both modules compute with recursive functions: the walk along accepted  *)
(* rotations, the walk back, and the rows that a pruning keeps.  That such *)
(* a function exists, and what it yields, is proved by taking a smallest   *)
(* number at which it fails.                                               *)
(***************************************************************************)
EXTENDS KeyRotation, PeerClaims, SumTheorems, SequenceTheorems

-----------------------------------------------------------------------------
\* A run of n steps from base, where G[i] is the i-th step.
IsRun(g, G, base, n) == g = [i \in 0..n |-> IF i = 0 THEN base ELSE G[i][g[i - 1]]]

LEMMA RunExists ==
  ASSUME NEW V, NEW base \in V, NEW n \in Nat, NEW G \in [1..n -> [V -> V]]
  PROVE  \E g \in [0..n -> V] : IsRun(g, G, base, n)
<1> DEFINE Bad == {m \in 0..n : ~ \E g \in [0..m -> V] : IsRun(g, G, base, m)}
<1> SUFFICES ASSUME Bad # {} PROVE FALSE
  OBVIOUS
<1>1. PICK m \in Bad : \A k \in Bad : m <= k
  <2>1. Bad \in SUBSET Nat
    OBVIOUS
  <2> HIDE DEF Bad
  <2> QED BY <2>1, SmallestNumber
<1>2. m \in 0..n /\ ~ \E g \in [0..m -> V] : IsRun(g, G, base, m)
  OBVIOUS
<1>3. CASE m = 0
  <2> DEFINE g == [i \in 0..m |-> base]
  <2>1. g \in [0..m -> V] /\ IsRun(g, G, base, m)
    BY <1>3 DEF IsRun
  <2> QED BY <1>2, <2>1
<1>4. CASE m # 0
  <2>1. m - 1 \in 0..n /\ m - 1 \notin Bad /\ m \in 1..n /\ m - 1 \in 0..m - 1
    BY <1>1, <1>2, <1>4
  <2>2. PICK g \in [0..m - 1 -> V] : IsRun(g, G, base, m - 1)
    BY <2>1
  <2>3. \A i \in 0..m - 1 : g[i] = IF i = 0 THEN base ELSE G[i][g[i - 1]]
    BY <2>2 DEF IsRun
  <2> DEFINE h == [i \in 0..m |-> IF i = m THEN G[m][g[m - 1]] ELSE g[i]]
  <2>4. ASSUME NEW i \in 0..m
        PROVE  h[i] \in V /\ h[i] = IF i = 0 THEN base ELSE G[i][h[i - 1]]
    <3>1. CASE i = m
      <4>1. g[m - 1] \in V /\ G[m] \in [V -> V]
        BY <2>1, <2>2
      <4>2. h[m - 1] = g[m - 1] /\ m - 1 # m
        BY <1>2, <2>1
      <4> QED BY <1>4, <3>1, <4>1, <4>2
    <3>2. CASE i # m
      <4>1. i \in 0..m - 1 /\ (i # 0 => i - 1 \in 0..m /\ i - 1 # m)
        BY <1>2, <3>2
      <4>2. h[i] = g[i] /\ g[i] \in V /\ (i # 0 => h[i - 1] = g[i - 1])
        BY <2>2, <3>2, <4>1
      <4> QED BY <2>3, <4>1, <4>2
    <3> QED BY <3>1, <3>2
  <2>5. h = [i \in 0..m |-> h[i]]
    OBVIOUS
  <2> HIDE DEF h
  <2>6. h \in [0..m -> V] /\ IsRun(h, G, base, m)
    BY <2>4, <2>5 DEF IsRun
  <2> QED BY <1>2, <2>6
<1> QED BY <1>3, <1>4

-----------------------------------------------------------------------------
(***************************************************************************)
(* Key rotations.                                                          *)
(***************************************************************************)
Steps == Cardinality(Nodes)
IsWalk(w, n) == w = [i \in 0..Steps |-> IF i = 0 THEN n ELSE Successor(w[i - 1])]
Ends(n) == _active_decision_for_old(n) = {}

\* An identity has one successor at most, and no identity succeeds itself: each
\* has a rank that is above its successor's.
OneSuccessor == \A r, q \in Accepted : OldOf[r] = OldOf[q] => r = q
RankIn(Ranks) == \E rank \in [Nodes -> Ranks] : \A r \in Accepted : rank[NewOf[r]] < rank[OldOf[r]]
RotationInv == RotationTypeOK /\ OneSuccessor /\ RankIn(Nat)

LEMMA StepsTyped == Steps \in Nat /\ IsFiniteSet(Nodes)
BY KeyRotationAssumption, FS_CardinalityType DEF Steps

LEMMA AcceptedTyped ==
  ASSUME NEW r \in Accepted
  PROVE  r \in Rotations /\ OldOf[r] \in Nodes /\ NewOf[r] \in Nodes
BY KeyRotationAssumption DEF Accepted

LEMMA SuccessorOf ==
  /\ \A n : Ends(n) => Successor(n) = n
  /\ \A n : ~Ends(n) => \E r \in Accepted : OldOf[r] = n /\ Successor(n) = NewOf[r]
  /\ \A n \in Nodes : Successor(n) \in Nodes
  /\ OneSuccessor => \A r \in Accepted : ~Ends(OldOf[r]) /\ Successor(OldOf[r]) = NewOf[r]
<1>1. ASSUME NEW n, Ends(n) PROVE Successor(n) = n
  BY <1>1 DEF Ends, Successor
<1>2. ASSUME NEW n, ~Ends(n) PROVE \E r \in Accepted : OldOf[r] = n /\ Successor(n) = NewOf[r]
  BY <1>2 DEF Ends, Successor, _active_decision_for_old
<1>3. ASSUME NEW n \in Nodes PROVE Successor(n) \in Nodes
  BY <1>1, <1>2, AcceptedTyped
<1>4. ASSUME OneSuccessor, NEW r \in Accepted PROVE ~Ends(OldOf[r]) /\ Successor(OldOf[r]) = NewOf[r]
  <2>1. ~Ends(OldOf[r])
    BY DEF Ends, _active_decision_for_old
  <2> QED BY <1>2, <1>4, <2>1 DEF OneSuccessor
<1> QED BY <1>1, <1>2, <1>3, <1>4

\* The walk that resolve() takes.
LEMMA WalkOf ==
  ASSUME NEW n \in Nodes
  PROVE  \E w \in [0..Steps -> Nodes] :
           /\ IsWalk(w, n)
           /\ resolve(n) = IF Ends(w[Steps]) THEN w[Steps] ELSE "cycle"
<1> DEFINE G == [i \in 1..Steps |-> [x \in Nodes |-> Successor(x)]]
<1>1. G \in [1..Steps -> [Nodes -> Nodes]]
  BY SuccessorOf
<1>2. PICK g \in [0..Steps -> Nodes] : IsRun(g, G, n, Steps)
  <2> HIDE DEF G
  <2> QED BY <1>1, StepsTyped, RunExists
<1>3. IsWalk(g, n)
  <2>1. ASSUME NEW i \in 0..Steps
        PROVE  (IF i = 0 THEN n ELSE G[i][g[i - 1]]) = IF i = 0 THEN n ELSE Successor(g[i - 1])
    <3>1. CASE i # 0
      <4>1. i \in 1..Steps /\ g[i - 1] \in Nodes
        BY <1>2, <3>1, StepsTyped
      <4> QED BY <4>1
    <3> QED BY <3>1
  <2> QED BY <1>2, <2>1 DEF IsRun, IsWalk
<1> DEFINE w == CHOOSE walk : IsWalk(walk, n)
<1>4. IsWalk(w, n)
  BY <1>3
<1>5. resolve(n) = IF Ends(w[Steps]) THEN w[Steps] ELSE "cycle"
  BY DEF resolve, IsWalk, Ends, Steps
<1> HIDE DEF w
<1>6. w = g
  <2> DEFINE Bad == {i \in 0..Steps : w[i] # g[i]}
  <2>1. SUFFICES ASSUME Bad # {} PROVE FALSE
    BY <1>3, <1>4 DEF IsWalk
  <2>2. PICK i \in Bad : \A k \in Bad : i <= k
    <3>1. Bad \in SUBSET Nat
      OBVIOUS
    <3> HIDE DEF Bad
    <3> QED BY <2>1, <3>1, SmallestNumber
  <2>3. /\ w[i] = IF i = 0 THEN n ELSE Successor(w[i - 1])
        /\ g[i] = IF i = 0 THEN n ELSE Successor(g[i - 1])
    BY <1>3, <1>4 DEF IsWalk
  <2>4. i # 0 => i - 1 \in 0..Steps /\ i - 1 \notin Bad
    BY <2>2, StepsTyped
  <2> QED BY <2>3, <2>4
<1> QED BY <1>2, <1>4, <1>5, <1>6

LEMMA WalkSteps ==
  ASSUME NEW n \in Nodes, NEW w, IsWalk(w, n)
  PROVE  w[0] = n /\ \A i \in 1..Steps : i - 1 \in 0..Steps /\ w[i] = Successor(w[i - 1])
BY StepsTyped DEF IsWalk

\* Where a walk has ended it stays.
LEMMA EndedWalk ==
  ASSUME NEW n \in Nodes, NEW w, IsWalk(w, n), NEW i \in 0..Steps, Ends(w[i])
  PROVE  \A j \in i..Steps : w[j] = w[i]
<1> DEFINE Bad == {j \in i..Steps : w[j] # w[i]}
<1> SUFFICES ASSUME Bad # {} PROVE FALSE
  OBVIOUS
<1>1. PICK j \in Bad : \A k \in Bad : j <= k
  <2>1. Bad \in SUBSET Nat
    BY StepsTyped
  <2> HIDE DEF Bad
  <2> QED BY <2>1, SmallestNumber
<1>2. j # i /\ j \in i..Steps /\ w[j] # w[i]
  OBVIOUS
<1>3. j - 1 \in i..Steps /\ j \in 1..Steps /\ j - 1 \notin Bad
  BY <1>1, <1>2, StepsTyped
<1>4. w[j] = Successor(w[j - 1]) /\ w[j - 1] = w[i]
  BY <1>3, WalkSteps
<1> QED BY <1>2, <1>4, SuccessorOf

\* While a walk has not ended, ranks go down.
LEMMA RanksFall ==
  ASSUME NEW n \in Nodes, NEW w \in [0..Steps -> Nodes], IsWalk(w, n), ~Ends(w[Steps]), OneSuccessor,
         NEW rank \in [Nodes -> Nat], \A r \in Accepted : rank[NewOf[r]] < rank[OldOf[r]]
  PROVE  \A i \in 0..Steps : \A j \in 0..Steps : i < j => rank[w[j]] < rank[w[i]]
<1> SUFFICES ASSUME NEW i \in 0..Steps PROVE \A j \in 0..Steps : i < j => rank[w[j]] < rank[w[i]]
  OBVIOUS
<1> DEFINE Bad == {j \in 0..Steps : i < j /\ ~(rank[w[j]] < rank[w[i]])}
<1> SUFFICES ASSUME Bad # {} PROVE FALSE
  OBVIOUS
<1>1. PICK j \in Bad : \A k \in Bad : j <= k
  <2>1. Bad \in SUBSET Nat
    BY StepsTyped
  <2> HIDE DEF Bad
  <2> QED BY <2>1, SmallestNumber
<1>2. j \in 0..Steps /\ i < j /\ ~(rank[w[j]] < rank[w[i]])
  OBVIOUS
<1>3. j \in 1..Steps /\ j - 1 \in 0..Steps /\ j - 1 \notin Bad /\ (j - 1 = i \/ i < j - 1)
  BY <1>1, <1>2, StepsTyped
<1>4. ~Ends(w[j - 1])
  <2>1. SUFFICES ASSUME Ends(w[j - 1]) PROVE FALSE
    OBVIOUS
  <2>2. Steps \in j - 1..Steps
    BY <1>3, StepsTyped
  <2>3. w[Steps] = w[j - 1]
    BY <1>3, <2>1, <2>2, EndedWalk
  <2> QED BY <2>1, <2>3
<1>7. rank[w[j - 1]] = rank[w[i]] \/ rank[w[j - 1]] < rank[w[i]]
  BY <1>3
<1> HIDE DEF Bad
<1>5. PICK r \in Accepted : OldOf[r] = w[j - 1] /\ w[j] = NewOf[r]
  <2>1. w[j] = Successor(w[j - 1])
    BY <1>3, WalkSteps
  <2>2. \E r \in Accepted : OldOf[r] = w[j - 1] /\ Successor(w[j - 1]) = NewOf[r]
    BY <1>4, SuccessorOf
  <2> QED BY <2>1, <2>2
<1>6. rank[w[j]] < rank[w[j - 1]]
  BY <1>5
<1>8. rank[w[j]] \in Nat /\ rank[w[j - 1]] \in Nat /\ rank[w[i]] \in Nat
  BY <1>3, StepsTyped
<1> QED BY <1>2, <1>6, <1>7, <1>8

\* With ranks, a walk ends: it cannot meet more identities than there are.
LEMMA WalksEnd ==
  ASSUME RotationInv, NEW n \in Nodes, NEW w \in [0..Steps -> Nodes], IsWalk(w, n)
  PROVE  Ends(w[Steps])
<1> SUFFICES ASSUME ~Ends(w[Steps]) PROVE FALSE
  OBVIOUS
<1>1. PICK rank \in [Nodes -> Nat] : \A r \in Accepted : rank[NewOf[r]] < rank[OldOf[r]]
  BY DEF RotationInv, RankIn
<1>2. \A i \in 0..Steps : \A j \in 0..Steps : i < j => rank[w[j]] < rank[w[i]]
  BY <1>1, RanksFall DEF RotationInv
<1>3. PICK i \in 0..Steps, j \in 0..Steps : i # j /\ w[i] = w[j]
  <2>1. IsFiniteSet(0..Steps) /\ Cardinality(0..Steps) = Steps + 1
    BY StepsTyped, FS_Interval
  <2>2. Cardinality(Nodes) < Cardinality(0..Steps)
    BY <2>1, StepsTyped DEF Steps
  <2> QED BY <2>1, <2>2, StepsTyped, FS_PigeonHole
<1>4. i < j \/ j < i
  BY <1>3
<1>5. rank[w[i]] \in Nat
  OBVIOUS
<1>6. rank[w[i]] < rank[w[i]]
  BY <1>2, <1>3, <1>4
<1> QED BY <1>5, <1>6

\* What resolve() yields: an end, the same along each rotation.
LEMMA WalkResolved ==
  ASSUME RotationInv, NEW n \in Nodes
  PROVE  /\ \E w \in [0..Steps -> Nodes] : IsWalk(w, n) /\ resolve(n) = w[Steps]
         /\ resolve(n) \in Nodes /\ resolve(n) # "cycle" /\ Ends(resolve(n))
         /\ Ends(n) => resolve(n) = n
<1>1. PICK w \in [0..Steps -> Nodes] :
        IsWalk(w, n) /\ resolve(n) = IF Ends(w[Steps]) THEN w[Steps] ELSE "cycle"
  BY WalkOf
<1>2. Ends(w[Steps]) /\ resolve(n) = w[Steps] /\ w[Steps] \in Nodes
  BY <1>1, WalksEnd, StepsTyped
<1>3. Ends(n) => w[Steps] = n
  <2>1. w[0] = n /\ 0 \in 0..Steps /\ Steps \in 0..Steps
    BY <1>1, WalkSteps, StepsTyped
  <2> QED BY <1>1, <2>1, EndedWalk
<1> QED BY <1>1, <1>2, <1>3, KeyRotationAssumption

LEMMA ResolvedAlong ==
  ASSUME RotationInv, NEW r \in Accepted
  PROVE  resolve(OldOf[r]) = resolve(NewOf[r])
<1> DEFINE m == OldOf[r]
           n == NewOf[r]
<1>1. m \in Nodes /\ n \in Nodes /\ ~Ends(m) /\ Successor(m) = n
  BY AcceptedTyped, SuccessorOf DEF RotationInv
<1> HIDE DEF m, n
<1>2. PICK u \in [0..Steps -> Nodes] : IsWalk(u, m) /\ resolve(m) = u[Steps]
  BY <1>1, WalkResolved
<1>3. PICK w \in [0..Steps -> Nodes] : IsWalk(w, n) /\ resolve(n) = w[Steps]
  BY <1>1, WalkResolved
<1>w. w[0] = n /\ \A i \in 1..Steps : w[i] = Successor(w[i - 1])
  BY <1>1, <1>3, WalkSteps
<1>4. ASSUME NEW i \in 1..Steps PROVE u[i] = w[i - 1]
  <2> DEFINE Bad == {k \in 1..Steps : u[k] # w[k - 1]}
  <2>1. SUFFICES ASSUME Bad # {} PROVE FALSE
    OBVIOUS
  <2>2. PICK k \in Bad : \A l \in Bad : k <= l
    <3>1. Bad \in SUBSET Nat
      BY StepsTyped
    <3> HIDE DEF Bad
    <3> QED BY <2>1, <3>1, SmallestNumber
  <2>3. k \in 1..Steps /\ u[k] # w[k - 1] /\ u[k] = Successor(u[k - 1])
    BY <1>1, <1>2, WalkSteps
  <2>4. CASE k = 1
    <3>1. u[0] = m /\ w[0] = n
      BY <1>1, <1>2, <1>3, WalkSteps
    <3>2. k - 1 = 0
      BY <2>4
    <3> QED BY <1>1, <2>3, <3>1, <3>2
  <2>5. CASE k # 1
    <3>1. k - 1 \in 1..Steps /\ k - 1 \notin Bad
      BY <2>2, <2>3, <2>5, StepsTyped
    <3>2. u[k - 1] = w[k - 1 - 1]
      BY <3>1
    <3>3. w[k - 1] = Successor(w[k - 1 - 1])
      BY <1>w, <3>1
    <3> QED BY <2>3, <3>2, <3>3
  <2> QED BY <2>4, <2>5
<1>5. Steps \in 1..Steps
  <2>1. Steps # 0
    BY <1>1, StepsTyped, FS_EmptySet DEF Steps
  <2> QED BY <2>1, StepsTyped
<1>6. u[Steps] = w[Steps - 1] /\ w[Steps] = Successor(w[Steps - 1])
  BY <1>1, <1>3, <1>4, <1>5, WalkSteps
<1>7. Ends(u[Steps])
  BY <1>1, <1>2, WalkResolved
<1>8. w[Steps] = u[Steps]
  BY <1>6, <1>7, SuccessorOf
<1> QED BY <1>2, <1>3, <1>8 DEF m, n

\* The walk back that continuity_node_ids() takes.
Before(S) == S \cup {OldOf[r] : r \in {q \in Accepted : NewOf[q] \in S}}
IsBack(b, n) == b = [i \in 0..Steps |-> IF i = 0 THEN {resolve(n)} ELSE Before(b[i - 1])]

LEMMA BackOf ==
  ASSUME RotationInv, NEW n \in Nodes
  PROVE  \E b : /\ IsBack(b, n) /\ continuity_node_ids(n) = b[Steps]
                /\ b[0] = {resolve(n)} /\ \A i \in 1..Steps : b[i] = Before(b[i - 1])
<1> DEFINE V == SUBSET Nodes
           G == [i \in 1..Steps |-> [S \in V |-> Before(S)]]
<1>1. G \in [1..Steps -> [V -> V]]
  BY AcceptedTyped DEF Before
<1>2. {resolve(n)} \in V
  BY WalkResolved
<1>3. PICK g \in [0..Steps -> V] : IsRun(g, G, {resolve(n)}, Steps)
  <2> HIDE DEF G, V
  <2> QED BY <1>1, <1>2, StepsTyped, RunExists
<1>4. IsBack(g, n)
  <2>1. ASSUME NEW i \in 0..Steps
        PROVE  (IF i = 0 THEN {resolve(n)} ELSE G[i][g[i - 1]])
                 = IF i = 0 THEN {resolve(n)} ELSE Before(g[i - 1])
    <3>1. CASE i # 0
      <4>1. i \in 1..Steps /\ g[i - 1] \in V
        BY <1>3, <3>1, StepsTyped
      <4> QED BY <3>1, <4>1
    <3> QED BY <3>1
  <2> QED BY <1>3, <2>1 DEF IsRun, IsBack
<1> DEFINE b == CHOOSE back : IsBack(back, n)
<1>5. IsBack(b, n)
  BY <1>4
<1>6. continuity_node_ids(n) = b[Steps]
  BY DEF continuity_node_ids, IsBack, Before, Steps
<1> HIDE DEF b
<1>7. b[0] = {resolve(n)}
  BY <1>5, StepsTyped DEF IsBack
<1>8. ASSUME NEW i \in 1..Steps PROVE b[i] = Before(b[i - 1])
  <2>1. i \in 0..Steps /\ i # 0
    BY StepsTyped
  <2>2. \A k \in 0..Steps : b[k] = IF k = 0 THEN {resolve(n)} ELSE Before(b[k - 1])
    BY <1>5 DEF IsBack
  <2> QED BY <2>1, <2>2
<1> QED BY <1>5, <1>6, <1>7, <1>8

LEMMA BackLeads ==
  ASSUME RotationInv, NEW n \in Nodes, NEW b, b[0] = {resolve(n)},
         \A i \in 1..Steps : b[i] = Before(b[i - 1])
  PROVE  \A i \in 0..Steps : \A m \in b[i] : m \in Nodes /\ resolve(m) = resolve(n)
<1> DEFINE Leads(m) == m \in Nodes /\ resolve(m) = resolve(n)
           Bad == {i \in 0..Steps : ~ \A m \in b[i] : Leads(m)}
<1> SUFFICES ASSUME Bad # {} PROVE FALSE
  OBVIOUS
<1>1. PICK i \in Bad : \A k \in Bad : i <= k
  <2>1. Bad \in SUBSET Nat
    OBVIOUS
  <2> HIDE DEF Bad
  <2> QED BY <2>1, SmallestNumber
<1>2. i \in 0..Steps /\ ~ \A m \in b[i] : Leads(m)
  OBVIOUS
<1>3. i # 0
  <2>1. Leads(resolve(n))
    BY WalkResolved
  <2> QED BY <1>2, <2>1
<1>4. i \in 1..Steps /\ i - 1 \in 0..Steps /\ i - 1 \notin Bad
  BY <1>1, <1>2, <1>3, StepsTyped
<1>5. b[i] = Before(b[i - 1]) /\ \A m \in b[i - 1] : Leads(m)
  BY <1>4
<1>6. ASSUME NEW r \in Accepted, NewOf[r] \in b[i - 1] PROVE Leads(OldOf[r])
  BY <1>5, <1>6, AcceptedTyped, ResolvedAlong
<1> HIDE DEF Leads
<1> QED BY <1>2, <1>5, <1>6 DEF Before

LEMMA BackReaches ==
  ASSUME RotationInv, NEW n \in Nodes, NEW m \in Nodes, resolve(m) = resolve(n),
         NEW b, b[0] = {resolve(n)}, \A i \in 1..Steps : b[i] = Before(b[i - 1])
  PROVE  m \in b[Steps]
<1>1. PICK w \in [0..Steps -> Nodes] : IsWalk(w, m) /\ resolve(m) = w[Steps]
  BY WalkResolved
<1>2. w[0] = m /\ \A i \in 1..Steps : w[i] = Successor(w[i - 1])
  BY <1>1, WalkSteps
<1> DEFINE Bad == {k \in 0..Steps : w[Steps - k] \notin b[k]}
<1>3. Bad = {}
  <2> SUFFICES ASSUME Bad # {} PROVE FALSE
    OBVIOUS
  <2>1. PICK k \in Bad : \A l \in Bad : k <= l
    <3>1. Bad \in SUBSET Nat
      OBVIOUS
    <3> HIDE DEF Bad
    <3> QED BY <3>1, SmallestNumber
  <2>2. k \in 0..Steps /\ w[Steps - k] \notin b[k]
    OBVIOUS
  <2>3. k # 0
    <3>1. Steps - 0 = Steps
      BY StepsTyped
    <3> QED BY <1>1, <2>2, <3>1
  <2>4. k \in 1..Steps /\ k - 1 \notin Bad /\ k - 1 \in 0..Steps
    BY <2>1, <2>2, <2>3, StepsTyped
  <2> DEFINE at == Steps - k + 1
  <2>5. at \in 1..Steps /\ Steps - (k - 1) = at /\ at - 1 = Steps - k
    BY <2>4, StepsTyped
  <2>6. w[at] \in b[k - 1]
    BY <2>4, <2>5
  <2> HIDE DEF at, Bad
  <2>7. w[at] = Successor(w[Steps - k]) /\ b[k] = Before(b[k - 1])
    BY <1>2, <2>4, <2>5
  <2>8. CASE Ends(w[Steps - k])
    BY <2>2, <2>6, <2>7, <2>8, SuccessorOf DEF Before
  <2>9. CASE ~Ends(w[Steps - k])
    <3>1. PICK r \in Accepted : OldOf[r] = w[Steps - k] /\ Successor(w[Steps - k]) = NewOf[r]
      BY <2>9, SuccessorOf
    <3> QED BY <2>2, <2>6, <2>7, <3>1 DEF Before
  <2> QED BY <2>8, <2>9
<1>4. Steps \in 0..Steps /\ Steps - Steps = 0 /\ Steps \notin Bad
  BY <1>3, StepsTyped
<1> QED BY <1>2, <1>4

LEMMA AgreesFromInv == RotationInv => ContinuityAgrees
<1> SUFFICES ASSUME RotationInv PROVE ContinuityAgrees
  OBVIOUS
<1>1. ASSUME NEW n \in Nodes PROVE Cardinality(_active_decision_for_old(n)) <= 1
  <2>1. CASE _active_decision_for_old(n) = {}
    BY <2>1, FS_EmptySet
  <2>2. CASE _active_decision_for_old(n) # {}
    <3>1. PICK r : r \in _active_decision_for_old(n)
      BY <2>2
    <3>2. _active_decision_for_old(n) = {r}
      BY <3>1 DEF RotationInv, OneSuccessor, _active_decision_for_old
    <3> QED BY <3>2, FS_Singleton
  <2> QED BY <2>1, <2>2
<1>2. ASSUME NEW n \in Nodes PROVE resolve(n) # "cycle"
  BY WalkResolved
<1>3. ASSUME NEW n \in Nodes
      PROVE  continuity_node_ids(n) = {m \in Nodes : is_continuation(m, n)}
  <2>1. PICK b : /\ continuity_node_ids(n) = b[Steps]
                 /\ b[0] = {resolve(n)} /\ \A i \in 1..Steps : b[i] = Before(b[i - 1])
    BY BackOf
  <2>2. ASSUME NEW m \in b[Steps] PROVE m \in Nodes /\ is_continuation(m, n)
    <3>1. Steps \in 0..Steps
      BY StepsTyped
    <3> QED BY <2>1, <3>1, BackLeads DEF is_continuation
  <2>3. ASSUME NEW m \in Nodes, is_continuation(m, n) PROVE m \in b[Steps]
    BY <2>1, <2>3, BackReaches DEF is_continuation
  <2> QED BY <2>1, <2>2, <2>3
<1> QED BY <1>1, <1>2, <1>3 DEF ContinuityAgrees

LEMMA FewerKeepInv ==
  ASSUME RotationInv, RotationTypeOK', Accepted' \subseteq Accepted
  PROVE  RotationInv'
<1>1. OneSuccessor'
  BY DEF RotationInv, OneSuccessor
<1>2. PICK rank \in [Nodes -> Nat] : \A r \in Accepted : rank[NewOf[r]] < rank[OldOf[r]]
  BY DEF RotationInv, RankIn
<1>3. \A r \in Accepted' : rank[NewOf[r]] < rank[OldOf[r]]
  BY <1>2
<1> QED BY <1>1, <1>3 DEF RotationInv, RankIn

\* An accepted rotation closes no circle: what leads to its old identity is put
\* above what its new identity leads through.
LEMMA AcceptKeepsInv ==
  ASSUME RotationInv, NEW r \in Rotations, accept(r)
  PROVE  RotationInv'
<1>1. /\ RotationTypeOK /\ RotationTypeOK'
      /\ latest'[r] = "accepted" /\ \A q \in Rotations \ {r} : latest'[q] = latest[q]
  BY DEF RotationInv, RotationTypeOK, accept, Record
<1>2. Accepted' = Accepted \cup {r}
  BY <1>1 DEF Accepted
<1>3. CASE r \in Accepted
  BY <1>1, <1>2, <1>3, FewerKeepInv
<1>4. CASE r \notin Accepted
  <2>1. /\ OldOf[r] \in Nodes /\ NewOf[r] \in Nodes
        /\ Ends(OldOf[r]) /\ resolve(NewOf[r]) # OldOf[r]
    BY <1>4, KeyRotationAssumption DEF accept, Ends, _active_decision_for_old
  <2>2. OneSuccessor'
    <3>1. \A q \in Accepted : OldOf[q] # OldOf[r]
      BY <2>1 DEF Ends, _active_decision_for_old
    <3> QED BY <1>2, <3>1 DEF RotationInv, OneSuccessor
  <2>3. PICK rank \in [Nodes -> Nat] : \A q \in Accepted : rank[NewOf[q]] < rank[OldOf[q]]
    BY DEF RotationInv, RankIn
  <2> DEFINE up == rank[NewOf[r]] + 1
             higher == [n \in Nodes |-> IF resolve(n) = OldOf[r] THEN rank[n] + up ELSE rank[n]]
  <2>4. higher \in [Nodes -> Nat]
    BY <2>1
  <2>5. ASSUME NEW q \in Accepted PROVE higher[NewOf[q]] < higher[OldOf[q]]
    <3>1. /\ OldOf[q] \in Nodes /\ NewOf[q] \in Nodes
          /\ resolve(OldOf[q]) = resolve(NewOf[q])
          /\ rank[NewOf[q]] < rank[OldOf[q]] /\ rank[NewOf[q]] \in Nat /\ rank[OldOf[q]] \in Nat
      BY <2>3, AcceptedTyped, ResolvedAlong
    <3>2. up \in Nat
      BY <2>1
    <3> HIDE DEF up
    <3> QED BY <3>1, <3>2
  <2>6. higher[NewOf[r]] < higher[OldOf[r]]
    <3>1. resolve(OldOf[r]) = OldOf[r]
      BY <2>1, WalkResolved
    <3>2. rank[NewOf[r]] \in Nat /\ rank[OldOf[r]] \in Nat
      BY <2>1
    <3>3. higher[NewOf[r]] = rank[NewOf[r]] /\ higher[OldOf[r]] = rank[OldOf[r]] + up
      BY <2>1, <3>1
    <3> HIDE DEF higher
    <3> QED BY <3>2, <3>3
  <2> HIDE DEF higher
  <2>7. \A q \in Accepted' : higher[NewOf[q]] < higher[OldOf[q]]
    BY <1>2, <2>5, <2>6
  <2> QED BY <1>1, <2>2, <2>4, <2>7 DEF RotationInv, RankIn
<1> QED BY <1>3, <1>4

LEMMA InitRotationInv == RotationInit => RotationInv
<1> SUFFICES ASSUME RotationInit PROVE RotationInv
  OBVIOUS
<1>1. RotationTypeOK /\ Accepted = {}
  BY DEF RotationInit, RotationTypeOK, Accepted
<1> DEFINE rank == [n \in Nodes |-> 0]
<1>2. rank \in [Nodes -> Nat]
  OBVIOUS
<1> HIDE DEF rank
<1> QED BY <1>1, <1>2 DEF RotationInv, OneSuccessor, RankIn

LEMMA RotationInvIsInductive == RotationInv /\ [RotationNext]_latest => RotationInv'
<1> SUFFICES ASSUME RotationInv, [RotationNext]_latest PROVE RotationInv'
  OBVIOUS
<1>1. ASSUME NEW r \in Rotations, reject(r) \/ revoke(r) PROVE RotationInv'
  BY <1>1, FewerKeepInv DEF RotationInv, RotationTypeOK, reject, revoke, Record, Accepted
<1>2. CASE UNCHANGED latest
  BY <1>2, FewerKeepInv DEF RotationInv, RotationTypeOK, Accepted
<1> QED BY <1>1, <1>2, AcceptKeepsInv DEF RotationNext

\* Whatever the operator accepts, rejects and takes back, an identity has one
\* successor at most and the accepted rotations have ranks that fall along them.
THEOREM RotationInvariant == RotationSpec => []RotationInv
BY InitRotationInv, RotationInvIsInductive, PTL DEF RotationSpec

\* For any number of identities and rotations: resolve() meets no cycle, and
\* continuity_node_ids() names exactly whom is_continuation() relates.
THEOREM IdentitiesAgree == RotationSpec => []ContinuityAgrees
BY RotationInvariant, AgreesFromInv, PTL

-----------------------------------------------------------------------------
(***************************************************************************)
(* The claims of peers.                                                    *)
(***************************************************************************)
IsUpTo(f, rows, S) ==
  f = [i \in 0..Len(rows) |->
         IF i = 0 THEN <<>> ELSE IF rows[i] \in S THEN Append(f[i - 1], rows[i]) ELSE f[i - 1]]

\* Only() goes over the rows one by one.
LEMMA OnlySteps ==
  ASSUME NEW C, NEW rows \in Seq(C), NEW S
  PROVE  \E f \in [0..Len(rows) -> Seq(C)] :
           /\ Only(rows, S) = f[Len(rows)] /\ f[0] = <<>>
           /\ \A i \in 1..Len(rows) :
                f[i] = IF rows[i] \in S THEN Append(f[i - 1], rows[i]) ELSE f[i - 1]
<1> DEFINE V == Seq(C)
           n == Len(rows)
           G == [i \in 1..n |-> [t \in V |-> IF rows[i] \in S THEN Append(t, rows[i]) ELSE t]]
<1>1. n \in Nat /\ <<>> \in V /\ \A i \in 1..n : rows[i] \in C
  BY LenProperties, ElementOfSeq
<1>2. G \in [1..n -> [V -> V]]
  BY <1>1
<1>3. PICK g \in [0..n -> V] : IsRun(g, G, <<>>, n)
  <2> HIDE DEF G, V, n
  <2> QED BY <1>1, <1>2, RunExists
<1>4. ASSUME NEW i \in 0..n
      PROVE  (IF i = 0 THEN <<>> ELSE G[i][g[i - 1]]) =
               IF i = 0 THEN <<>> ELSE IF rows[i] \in S THEN Append(g[i - 1], rows[i]) ELSE g[i - 1]
  <2>1. CASE i # 0
    <3> HIDE DEF n
    <3>1. i \in 1..n /\ i - 1 \in 0..n
      BY <1>1, <2>1
    <3> HIDE DEF V
    <3>2. g[i - 1] \in V
      BY <1>3, <3>1
    <3> QED BY <2>1, <3>1, <3>2
  <2> QED BY <2>1
<1>5. IsUpTo(g, rows, S)
  BY <1>3, <1>4 DEF IsRun, IsUpTo
<1> DEFINE f == CHOOSE upto : IsUpTo(upto, rows, S)
<1>6. IsUpTo(f, rows, S)
  BY <1>5
<1>7. Only(rows, S) = f[Len(rows)]
  BY DEF Only, IsUpTo
<1> HIDE DEF f, G, V
<1>8. \A i \in 0..n : f[i] = IF i = 0 THEN <<>> ELSE IF rows[i] \in S THEN Append(f[i - 1], rows[i]) ELSE f[i - 1]
  BY <1>6 DEF IsUpTo
<1>9. \A i \in 0..n : g[i] = IF i = 0 THEN <<>> ELSE IF rows[i] \in S THEN Append(g[i - 1], rows[i]) ELSE g[i - 1]
  BY <1>5 DEF IsUpTo
<1> HIDE DEF n
<1>10. \A i \in 0..n : f[i] = g[i]
  <2> DEFINE Bad == {i \in 0..n : f[i] # g[i]}
  <2>1. SUFFICES ASSUME Bad # {} PROVE FALSE
    OBVIOUS
  <2>2. PICK i \in Bad : \A k \in Bad : i <= k
    <3>1. Bad \in SUBSET Nat
      OBVIOUS
    <3> HIDE DEF Bad
    <3> QED BY <2>1, <3>1, SmallestNumber
  <2>3. i \in 0..n /\ f[i] # g[i]
    OBVIOUS
  <2>4. i # 0 => i - 1 \in 0..n /\ i - 1 \notin Bad
    BY <1>1, <2>2, <2>3
  <2>5. i # 0 => f[i - 1] = g[i - 1]
    BY <2>4
  <2> HIDE DEF Bad
  <2> QED BY <1>8, <1>9, <2>3, <2>5
<1>11. f \in [0..n -> Seq(C)]
  <2>1. f = [i \in 0..n |-> f[i]]
    BY <1>6 DEF IsUpTo, n
  <2>2. \A i \in 0..n : f[i] \in Seq(C)
    BY <1>3, <1>10 DEF V
  <2> QED BY <2>1, <2>2
<1>12. /\ f[0] = <<>>
       /\ \A i \in 1..n : f[i] = IF rows[i] \in S THEN Append(f[i - 1], rows[i]) ELSE f[i - 1]
  <2>1. 0 \in 0..n /\ \A i \in 1..n : i \in 0..n /\ i # 0
    BY <1>1
  <2> QED BY <1>8, <2>1
<1> QED BY <1>7, <1>11, <1>12 DEF n

LEMMA SetOf ==
  ASSUME NEW C, NEW s \in Seq(C)
  PROVE  /\ ToSet(s) = {s[i] : i \in 1..Len(s)} /\ ToSet(s) \subseteq C
         /\ \A c \in C : Append(s, c) \in Seq(C) /\ ToSet(Append(s, c)) = ToSet(s) \cup {c}
<1>1. ToSet(s) = {s[i] : i \in 1..Len(s)} /\ ToSet(s) \subseteq C
  BY LenProperties, ElementOfSeq DEF ToSet
<1>2. ASSUME NEW c \in C PROVE Append(s, c) \in Seq(C) /\ ToSet(Append(s, c)) = ToSet(s) \cup {c}
  <2>1. /\ Append(s, c) \in Seq(C) /\ Len(Append(s, c)) = Len(s) + 1
        /\ \A i \in 1..Len(s) : Append(s, c)[i] = s[i]
        /\ Append(s, c)[Len(s) + 1] = c /\ Len(s) \in Nat
    BY AppendProperties, LenProperties
  <2>2. ToSet(Append(s, c)) = {Append(s, c)[i] : i \in 1..Len(s) + 1}
    BY <2>1, LenProperties DEF ToSet
  <2>3. 1..Len(s) + 1 = 1..Len(s) \cup {Len(s) + 1}
    BY <2>1
  <2> QED BY <1>1, <2>1, <2>2, <2>3
<1> QED BY <1>1, <1>2

\* Only() keeps the rows that are in S.
LEMMA OnlyKeeps ==
  ASSUME NEW C, NEW rows \in Seq(C), NEW S
  PROVE  Only(rows, S) \in Seq(C) /\ ToSet(Only(rows, S)) = ToSet(rows) \cap S
<1>1. PICK f \in [0..Len(rows) -> Seq(C)] :
        /\ Only(rows, S) = f[Len(rows)] /\ f[0] = <<>>
        /\ \A i \in 1..Len(rows) :
             f[i] = IF rows[i] \in S THEN Append(f[i - 1], rows[i]) ELSE f[i - 1]
  BY OnlySteps
<1>2. PICK n \in Nat : n = Len(rows)
  BY LenProperties
<1>3. \A i \in 1..n : rows[i] \in C
  BY <1>2, ElementOfSeq
<1> DEFINE Upto(i) == {rows[k] : k \in 1..i} \cap S
           Bad == {i \in 0..n : ToSet(f[i]) # Upto(i)}
<1>4. Bad = {}
  <2> SUFFICES ASSUME Bad # {} PROVE FALSE
    OBVIOUS
  <2>1. PICK i \in Bad : \A k \in Bad : i <= k
    <3>1. Bad \in SUBSET Nat
      OBVIOUS
    <3> HIDE DEF Bad
    <3> QED BY <3>1, SmallestNumber
  <2>2. i \in 0..n /\ ToSet(f[i]) # Upto(i)
    OBVIOUS
  <2>3. i # 0
    <3>1. ToSet(<<>>) = {}
      BY DEF ToSet
    <3>2. Upto(0) = {}
      OBVIOUS
    <3> QED BY <1>1, <2>2, <3>1, <3>2
  <2>4. i \in 1..n /\ i - 1 \in 0..n /\ i - 1 \notin Bad
    BY <2>1, <2>2, <2>3
  <2>5. ToSet(f[i - 1]) = Upto(i - 1) /\ f[i - 1] \in Seq(C) /\ rows[i] \in C
    BY <1>1, <1>2, <1>3, <2>4
  <2>6. f[i] = IF rows[i] \in S THEN Append(f[i - 1], rows[i]) ELSE f[i - 1]
    BY <1>1, <1>2, <2>4
  <2>7. 1..i = 1..i - 1 \cup {i}
    BY <2>4
  <2>8. ToSet(Append(f[i - 1], rows[i])) = ToSet(f[i - 1]) \cup {rows[i]}
    BY <2>5, SetOf
  <2> QED BY <2>2, <2>5, <2>6, <2>7, <2>8
<1>5. n \in 0..n /\ n \notin Bad
  BY <1>4
<1>6. ToSet(f[n]) = Upto(n)
  BY <1>5
<1> QED BY <1>1, <1>2, <1>5, <1>6, SetOf

\* Of what was heard and not evicted, only what expired long ago is forgotten.
Forgotten == \A c \in heard \ ToSet(stored) : c.expires < Cutoff
ClaimsInv ==
  /\ now \in Nat
  /\ stored \in Seq(Claims) /\ ToSet(stored) \subseteq heard /\ heard \subseteq Claims
  /\ Forgotten

LEMMA StateOf ==
  ASSUME NEW R, NEW c, c.kind = "observation"
  PROVE  StateAmong(R, c) = "active" <=>
           /\ c \notin revoked /\ ~IsExpired(c)
           /\ \A r \in R \ revoked : ~Retracts(r, c) /\ ~Supersedes(r, c)
BY DEF StateAmong

\* What is forgotten takes nothing back: a retraction no longer counts, and a newer
\* observation would be newer than what still lives.
LEMMA WithdrawnFromInv == ClaimsInv => WithdrawnStays
<1> SUFFICES ASSUME ClaimsInv, NEW c \in Observations \cap ToSet(stored)
             PROVE  c \in Current <=>
                      /\ ~IsExpired(c)
                      /\ bans[c.issuer] # "banned"
                      /\ c \notin revoked
                      /\ \A w \in heard \ revoked : ~Retracts(w, c) /\ ~Supersedes(w, c)
  BY DEF WithdrawnStays
<1>1. c \in Claims /\ c.kind = "observation" /\ c \in Observations
  BY DEF Observations
<1>2. c \in Current <=> bans[c.issuer] # "banned" /\ StateAmong(ToSet(stored), c) = "active"
  BY <1>1 DEF Current, Active
<1>3. ASSUME ~IsExpired(c), NEW w \in heard \ ToSet(stored)
      PROVE  ~Retracts(w, c) /\ ~Supersedes(w, c)
  <2>1. /\ w \in Claims /\ w.expires < now - Retention
        /\ now \in Nat /\ Retention \in Nat /\ Retention >= 0
        /\ w.expires \in Nat /\ w.issued \in Nat /\ w.issued < w.expires
    BY PeerClaimsAssumption DEF ClaimsInv, Forgotten, Cutoff
  <2>2. /\ c.expires \in Nat /\ c.issued \in Nat /\ c.expires > now
        /\ c.expires - c.issued <= Retention
    BY <1>1, <1>3, <2>1, PeerClaimsAssumption DEF IsExpired
  <2>3. ~Retracts(w, c)
    BY <2>1 DEF Retracts, IsExpired
  <2>4. w.issued < c.issued
    BY <2>1, <2>2
  <2> QED BY <2>2, <2>1, <2>3, <2>4 DEF Supersedes
<1>4. StateAmong(ToSet(stored), c) = "active" <=>
        /\ c \notin revoked /\ ~IsExpired(c)
        /\ \A w \in heard \ revoked : ~Retracts(w, c) /\ ~Supersedes(w, c)
  BY <1>1, <1>3, StateOf DEF ClaimsInv
<1> QED BY <1>2, <1>4

\* What a pruning leaves, and what it forgets.
LEMMA Pruned ==
  ASSUME ClaimsInv, UNCHANGED now, NEW rows \in Seq(Claims), Prune(rows), ToSet(stored) \subseteq ToSet(rows)
  PROVE  ClaimsInv'
<1> DEFINE kept == Kept(rows)
           gone == Evicted(kept)
<1>1. /\ kept \in Seq(Claims)
      /\ \A c \in ToSet(rows) \ ToSet(kept) : c.expires < Cutoff
      /\ ToSet(kept) \subseteq ToSet(rows)
  <2>1. /\ kept \in Seq(Claims)
        /\ ToSet(kept) = ToSet(rows) \cap (Active(ToSet(rows)) \cup {c \in Claims : c.expires >= Cutoff})
    BY OnlyKeeps DEF Kept
  <2>2. ToSet(rows) \subseteq Claims
    BY SetOf
  <2>3. ASSUME NEW c \in ToSet(rows) \ ToSet(kept) PROVE c.expires < Cutoff
    <3>1. c \in Claims /\ ~(c.expires >= Cutoff)
      BY <2>1, <2>2
    <3>2. c.expires \in Nat /\ now \in Nat /\ Retention \in Nat
      BY <3>1, PeerClaimsAssumption DEF ClaimsInv
    <3> QED BY <3>1, <3>2 DEF Cutoff
  <2> QED BY <2>1, <2>3
<1>2. stored' = Only(kept, Claims \ gone) /\ heard' = (heard \cup ToSet(rows)) \ gone
  BY DEF Prune
<1> HIDE DEF kept, gone
<1>3. /\ stored' \in Seq(Claims) /\ ToSet(stored') = ToSet(kept) \cap (Claims \ gone)
      /\ ToSet(kept) \subseteq Claims /\ ToSet(rows) \subseteq Claims
  BY <1>1, <1>2, OnlyKeeps, SetOf
<1>4. heard' \subseteq Claims /\ ToSet(stored') \subseteq heard'
  BY <1>1, <1>2, <1>3 DEF ClaimsInv
<1>5. ASSUME NEW c \in heard' \ ToSet(stored') PROVE c.expires < Cutoff
  <2>1. c \notin ToSet(kept) /\ (c \in ToSet(rows) \/ c \in heard \ ToSet(stored))
    BY <1>2, <1>3, <1>4, <1>5
  <2> QED BY <1>1, <2>1 DEF ClaimsInv, Forgotten
<1>6. Cutoff' = Cutoff
  BY DEF Cutoff
<1> QED BY <1>3, <1>4, <1>5, <1>6 DEF ClaimsInv, Forgotten

LEMMA ClaimsInvIsInductive == ClaimsInv /\ [ClaimsNext]_claimVars => ClaimsInv'
<1> SUFFICES ASSUME ClaimsInv, [ClaimsNext]_claimVars PROVE ClaimsInv'
  OBVIOUS
<1>1. ASSUME UNCHANGED <<now, stored, heard>> PROVE ClaimsInv'
  BY <1>1 DEF ClaimsInv, Forgotten, Cutoff
<1>2. ASSUME NEW c \in Claims, ingest(c) PROVE ClaimsInv'
  <2>1. CASE Duplicate(c)
    BY <1>1, <1>2, <2>1 DEF Duplicate, ingest
  <2>2. CASE Insert(c)
    <3>1. Append(stored, c) \in Seq(Claims) /\ ToSet(stored) \subseteq ToSet(Append(stored, c))
      BY SetOf DEF ClaimsInv
    <3> QED BY <1>2, <2>2, <3>1, Pruned DEF Insert, ingest
  <2> QED BY <1>2, <2>1, <2>2 DEF ingest
<1>3. CASE prune
  BY <1>3, Pruned DEF prune, ClaimsInv
<1>4. CASE Tick
  <2>1. now \in Nat /\ Retention \in Nat /\ now' = now + 1 /\ UNCHANGED <<stored, heard>>
    BY <1>4, PeerClaimsAssumption DEF Tick, ClaimsInv
  <2>2. Cutoff' = now' - Retention
    BY DEF Cutoff
  <2>3. ASSUME NEW c \in heard \ ToSet(stored) PROVE c.expires < Cutoff'
    <3>1. c.expires \in Nat /\ c.expires < now - Retention
      BY <2>3, PeerClaimsAssumption DEF ClaimsInv, Forgotten, Cutoff
    <3> QED BY <2>1, <2>2, <3>1
  <2>4. Forgotten'
    BY <2>1, <2>3 DEF Forgotten
  <2> QED BY <2>1, <2>4 DEF ClaimsInv
<1>5. ASSUME NEW c \in Claims, revoke_claim(c) \/ restore_claim(c) PROVE ClaimsInv'
  BY <1>1, <1>5 DEF revoke_claim, restore_claim
<1>6. ASSUME NEW i \in Issuers, ban_peer(i) \/ unban_peer(i) \/ BanLapses(i) PROVE ClaimsInv'
  BY <1>1, <1>6 DEF ban_peer, unban_peer, BanLapses
<1>7. CASE UNCHANGED claimVars
  BY <1>1, <1>7 DEF claimVars
<1> QED BY <1>2, <1>3, <1>4, <1>5, <1>6, <1>7 DEF ClaimsNext

LEMMA InitClaimsInv == ClaimsInit => ClaimsInv
BY DEF ClaimsInit, ClaimsInv, Forgotten, ToSet

\* Of what peers sent, only what has long expired is forgotten, or what was evicted
\* for want of room.
THEOREM ClaimsInvariant == ClaimsSpec => []ClaimsInv
BY InitClaimsInv, ClaimsInvIsInductive, PTL DEF ClaimsSpec

\* For any claims, limits and order of arrival: what an issuer took back stays
\* taken back, and nobody else takes it back.
THEOREM WithdrawnClaimsStay == ClaimsSpec => []WithdrawnStays
BY ClaimsInvariant, WithdrawnFromInv, PTL
-----------------------------------------------------------------------------
\* How many rows there are.
LEMMA DistinctRows ==
  ASSUME NEW C, NEW s \in Seq(C)
  PROVE  IsInjective(s) <=> \A i, j \in 1..Len(s) : s[i] = s[j] => i = j
BY LenProperties DEF IsInjective

\* The first m of distinct rows are m.
LEMMA FirstRows ==
  ASSUME NEW C, NEW s \in Seq(C), IsInjective(s), NEW m \in Nat, m <= Len(s)
  PROVE  LET first == {s[i] : i \in 1..m} IN IsFiniteSet(first) /\ Cardinality(first) = m
<1> DEFINE first == {s[i] : i \in 1..m}
           f == [i \in 1..m |-> s[i]]
<1>1. PICK n \in Nat : n = Len(s)
  BY LenProperties
<1>2. \A i \in 1..m : i \in 1..Len(s)
  BY <1>1
<1>3. f \in [1..m -> first] /\ \A i \in 1..m : f[i] = s[i]
  OBVIOUS
<1>4. \A i, j \in 1..m : f[i] = f[j] => i = j
  BY <1>2, <1>3, DistinctRows
<1>5. \A c \in first : \E i \in 1..m : f[i] = c
  OBVIOUS
<1> HIDE DEF f, first
<1>6. f \in Bijection(1..m, first)
  BY <1>3, <1>4, <1>5 DEF Bijection, Injection, Surjection, IsInjective
<1>7. ExistsBijection(1..m, first)
  BY <1>6 DEF ExistsBijection
<1>8. IsFiniteSet(first) /\ Cardinality(first) = m
  BY <1>7, FS_NatBijection, FS_CountingElements
<1> QED BY <1>8 DEF first

\* Distinct rows are as many as they are different.
LEMMA RowsCounted ==
  ASSUME NEW C, NEW s \in Seq(C), IsInjective(s)
  PROVE  Len(s) \in Nat /\ IsFiniteSet(ToSet(s)) /\ Cardinality(ToSet(s)) = Len(s)
<1>1. PICK n \in Nat : n = Len(s)
  BY LenProperties
<1>2. ToSet(s) = {s[i] : i \in 1..n}
  BY <1>1, SetOf
<1>3. n <= Len(s)
  BY <1>1
<1>4. IsFiniteSet({s[i] : i \in 1..n}) /\ Cardinality({s[i] : i \in 1..n}) = n
  BY <1>3, FirstRows
<1> QED BY <1>1, <1>2, <1>4

LEMMA AppendDistinct ==
  ASSUME NEW C, NEW s \in Seq(C), IsInjective(s), NEW c \in C, c \notin ToSet(s)
  PROVE  IsInjective(Append(s, c))
<1>1. /\ Append(s, c) \in Seq(C) /\ Len(Append(s, c)) = Len(s) + 1
      /\ \A i \in 1..Len(s) : Append(s, c)[i] = s[i]
      /\ Append(s, c)[Len(s) + 1] = c
  BY AppendProperties
<1>2. PICK n \in Nat : n = Len(s)
  BY LenProperties
<1>3. \A i \in 1..n : s[i] # c
  BY <1>2, SetOf
<1>4. ASSUME NEW i \in 1..n + 1, NEW j \in 1..n + 1, Append(s, c)[i] = Append(s, c)[j]
      PROVE  i = j
  <2>1. \A k \in 1..n + 1 : k \in 1..n \/ k = n + 1
    OBVIOUS
  <2>2. CASE i \in 1..n /\ j \in 1..n
    BY <1>1, <1>2, <1>4, <2>2, DistinctRows
  <2>3. CASE i = n + 1 /\ j \in 1..n
    BY <1>1, <1>2, <1>3, <1>4, <2>3
  <2>4. CASE i \in 1..n /\ j = n + 1
    BY <1>1, <1>2, <1>3, <1>4, <2>4
  <2> QED BY <2>1, <2>2, <2>3, <2>4
<1>5. \A i, j \in 1..Len(Append(s, c)) : Append(s, c)[i] = Append(s, c)[j] => i = j
  BY <1>1, <1>2, <1>4
<1> QED BY <1>1, <1>5, DistinctRows

LEMMA ConcatDistinct ==
  ASSUME NEW C, NEW s \in Seq(C), NEW t \in Seq(C), IsInjective(s), IsInjective(t),
         ToSet(s) \cap ToSet(t) = {}
  PROVE  /\ s \o t \in Seq(C) /\ IsInjective(s \o t) /\ ToSet(s \o t) \subseteq ToSet(s) \cup ToSet(t)
         /\ Len(s \o t) = Len(s) + Len(t)
<1>1. PICK n \in Nat : n = Len(s)
  BY LenProperties
<1>2. PICK k \in Nat : k = Len(t)
  BY LenProperties
<1>3. /\ s \o t \in Seq(C) /\ Len(s \o t) = n + k
      /\ \A i \in 1..n + k : (s \o t)[i] = IF i <= n THEN s[i] ELSE t[i - n]
  BY <1>1, <1>2, ConcatProperties
<1> DEFINE u == s \o t
<1>4. ASSUME NEW i \in 1..n + k
      PROVE  /\ i <= n => u[i] = s[i] /\ u[i] \in ToSet(s) /\ i \in 1..n
             /\ ~ (i <= n) => u[i] = t[i - n] /\ u[i] \in ToSet(t) /\ i - n \in 1..k
  <2>1. ToSet(s) = {s[l] : l \in 1..n} /\ ToSet(t) = {t[l] : l \in 1..k}
    BY <1>1, <1>2, SetOf
  <2>2. u[i] = IF i <= n THEN s[i] ELSE t[i - n]
    BY <1>3
  <2> HIDE DEF u
  <2>3. ASSUME i <= n PROVE u[i] = s[i] /\ u[i] \in ToSet(s) /\ i \in 1..n
    <3>1. i \in 1..n
      BY <2>3
    <3> QED BY <2>1, <2>2, <2>3, <3>1
  <2>4. ASSUME ~ (i <= n) PROVE u[i] = t[i - n] /\ u[i] \in ToSet(t) /\ i - n \in 1..k
    <3>1. i - n \in 1..k
      BY <2>4
    <3> DEFINE l == i - n
    <3>2. l \in 1..k /\ u[i] = t[l]
      BY <2>2, <2>4, <3>1
    <3>3. t[l] \in ToSet(t)
      <4> HIDE DEF l
      <4> QED BY <2>1, <3>2
    <3> QED BY <3>2, <3>3
  <2> QED BY <2>3, <2>4
<1> HIDE DEF u
<1>5. ASSUME NEW i \in 1..n + k, NEW j \in 1..n + k, u[i] = u[j] PROVE i = j
  <2>1. CASE i <= n /\ j <= n
    BY <1>1, <1>4, <1>5, <2>1, DistinctRows
  <2>2. CASE ~ (i <= n) /\ ~ (j <= n)
    <3>1. i - n = j - n
      <4>1. i - n \in 1..Len(t) /\ j - n \in 1..Len(t) /\ t[i - n] = t[j - n]
        BY <1>2, <1>4, <1>5, <2>2
      <4> QED BY <4>1, DistinctRows
    <3> QED BY <3>1
  <2>3. CASE (i <= n) # (j <= n)
    BY <1>4, <1>5, <2>3
  <2> QED BY <2>1, <2>2, <2>3
<1>6. u \in Seq(C) /\ Len(u) = n + k
  BY <1>3 DEF u
<1>7. IsInjective(u)
  BY <1>5, <1>6, DistinctRows
<1>8. ToSet(u) \subseteq ToSet(s) \cup ToSet(t)
  <2>1. ToSet(u) = {u[i] : i \in 1..n + k}
    BY <1>6, SetOf
  <2> QED BY <1>4, <2>1
<1> QED BY <1>1, <1>2, <1>6, <1>7, <1>8 DEF u

\* Of distinct rows, those that Only() keeps are distinct.
LEMMA OnlyDistinct ==
  ASSUME NEW C, NEW rows \in Seq(C), NEW S
  PROVE  IsInjective(rows) => IsInjective(Only(rows, S))
<1>1. PICK f \in [0..Len(rows) -> Seq(C)] :
        /\ Only(rows, S) = f[Len(rows)] /\ f[0] = <<>>
        /\ \A i \in 1..Len(rows) :
             f[i] = IF rows[i] \in S THEN Append(f[i - 1], rows[i]) ELSE f[i - 1]
  BY OnlySteps
<1>2. PICK n \in Nat : n = Len(rows)
  BY LenProperties
<1>3. \A i \in 1..n : rows[i] \in C
  BY <1>2, ElementOfSeq
<1> HAVE IsInjective(rows)
<1> DEFINE Upto(i) == {rows[k] : k \in 1..i}
           Fine(i) == IsInjective(f[i]) /\ ToSet(f[i]) \subseteq Upto(i)
           Bad == {i \in 0..n : ~ Fine(i)}
<1>4. Bad = {}
  <2> SUFFICES ASSUME Bad # {} PROVE FALSE
    OBVIOUS
  <2>1. PICK i \in Bad : \A k \in Bad : i <= k
    <3>1. Bad \in SUBSET Nat
      OBVIOUS
    <3> HIDE DEF Bad
    <3> QED BY <3>1, SmallestNumber
  <2>2. i \in 0..n /\ ~ Fine(i)
    OBVIOUS
  <2>3. i # 0
    <3>1. ToSet(<<>>) = {} /\ IsInjective(<<>>)
      BY DEF ToSet, IsInjective
    <3> QED BY <1>1, <2>2, <3>1
  <2>4. i \in 1..n /\ i - 1 \in 0..n /\ Fine(i - 1)
    <3> HIDE DEF Fine
    <3>1. i \in 1..n /\ i - 1 \in 0..n
      BY <2>2, <2>3
    <3>2. i - 1 \notin Bad
      BY <2>1, <3>1
    <3> QED BY <3>1, <3>2
  <2> DEFINE h == i - 1
  <2>h. h \in 0..n /\ Fine(h) /\ i \in 1..n /\ h + 1 = i
    BY <2>4
  <2>5. f[h] \in Seq(C) /\ rows[i] \in C
    BY <1>1, <1>2, <1>3, <2>h
  <2>6. f[i] = IF rows[i] \in S THEN Append(f[h], rows[i]) ELSE f[h]
    BY <1>1, <1>2, <2>4
  <2> HIDE DEF h
  <2>7. 1..i = 1..h \cup {i} /\ i \notin 1..h /\ \A k \in 1..h : k \in 1..n
    BY <2>h
  <2>8. rows[i] \notin Upto(h)
    <3>1. ASSUME NEW k \in 1..h, rows[k] = rows[i] PROVE FALSE
      <4>1. k \in 1..Len(rows) /\ i \in 1..Len(rows) /\ k # i
        BY <1>2, <2>h, <2>7
      <4> QED BY <3>1, <4>1, DistinctRows
    <3> QED BY <3>1
  <2>9. rows[i] \notin ToSet(f[h])
    BY <2>h, <2>8
  <2>10. /\ IsInjective(Append(f[h], rows[i]))
         /\ ToSet(Append(f[h], rows[i])) = ToSet(f[h]) \cup {rows[i]}
    BY <2>h, <2>5, <2>9, AppendDistinct, SetOf
  <2>11. Upto(h) \subseteq Upto(i) /\ rows[i] \in Upto(i)
    BY <2>7
  <2> HIDE DEF Bad, Upto
  <2> QED BY <2>2, <2>h, <2>6, <2>10, <2>11
<1>5. Fine(n)
  <2> HIDE DEF Fine
  <2> QED BY <1>4
<1> QED BY <1>1, <1>2, <1>5

-----------------------------------------------------------------------------
\* Of too many rows, as many are evicted as are too many.
LEMMA EvictedMany ==
  ASSUME NEW kept \in Seq(Claims), IsInjective(kept), Len(kept) > MaxClaims
  PROVE  /\ Evicted(kept) \subseteq ToSet(kept) /\ IsFiniteSet(Evicted(kept))
         /\ Cardinality(Evicted(kept)) = Len(kept) - MaxClaims
<1> DEFINE active == Active(ToSet(kept))
           first == Only(kept, Claims \ active)
           last == Only(kept, active)
           order == first \o last
           m == Len(kept) - MaxClaims
<1>1. /\ Len(kept) \in Nat /\ MaxClaims \in Nat /\ ToSet(kept) \subseteq Claims
      /\ IsFiniteSet(ToSet(kept)) /\ Cardinality(ToSet(kept)) = Len(kept)
  BY RowsCounted, SetOf, PeerClaimsAssumption
<1>2. Evicted(kept) = {order[i] : i \in 1..m}
  BY DEF Evicted
<1> HIDE DEF active
<1>3. /\ first \in Seq(Claims) /\ ToSet(first) = ToSet(kept) \cap (Claims \ active) /\ IsInjective(first)
      /\ last \in Seq(Claims) /\ ToSet(last) = ToSet(kept) \cap active /\ IsInjective(last)
  BY OnlyKeeps, OnlyDistinct
<1> HIDE DEF first, last
<1>4. /\ order \in Seq(Claims) /\ IsInjective(order) /\ Len(order) = Len(first) + Len(last)
      /\ ToSet(order) \subseteq ToSet(kept)
  <2>1. ToSet(first) \cap ToSet(last) = {}
    BY <1>3
  <2>2. ToSet(first) \cup ToSet(last) \subseteq ToSet(kept)
    BY <1>3
  <2> QED BY <1>3, <2>1, <2>2, ConcatDistinct
<1>5. Len(order) = Len(kept)
  <2>1. ToSet(first) \cup ToSet(last) = ToSet(kept) /\ ToSet(first) \cap ToSet(last) = {}
    BY <1>1, <1>3
  <2>2. /\ IsFiniteSet(ToSet(first)) /\ Cardinality(ToSet(first)) = Len(first) /\ Len(first) \in Nat
        /\ IsFiniteSet(ToSet(last)) /\ Cardinality(ToSet(last)) = Len(last) /\ Len(last) \in Nat
    BY <1>3, RowsCounted
  <2>3. Cardinality(ToSet(kept)) = Len(first) + Len(last)
    <3> DEFINE A == ToSet(first)
               B == ToSet(last)
    <3>1. IsFiniteSet(A) /\ IsFiniteSet(B) /\ A \cup B = ToSet(kept) /\ A \cap B = {}
      BY <2>1, <2>2
    <3>2. Cardinality(A) = Len(first) /\ Cardinality(B) = Len(last)
      BY <2>2
    <3> HIDE DEF A, B
    <3>3. Cardinality(A \cup B) = Cardinality(A) + Cardinality(B) - Cardinality(A \cap B)
      BY <3>1, FS_Union
    <3>4. Cardinality(A \cap B) = 0
      BY <3>1, FS_EmptySet
    <3>5. Cardinality(ToSet(kept)) = Cardinality(A \cup B)
      BY <3>1
    <3>6. Len(first) \in Nat /\ Len(last) \in Nat
      BY <2>2
    <3>7. Cardinality(A \cup B) = Len(first) + Len(last)
      BY <3>2, <3>3, <3>4, <3>6
    <3> QED BY <3>5, <3>7
  <2> QED BY <1>1, <1>4, <2>3
<1> HIDE DEF order
<1>6. m \in Nat /\ m <= Len(order) /\ m > 0
  BY <1>1, <1>5
<1> HIDE DEF m
<1>7. IsFiniteSet({order[i] : i \in 1..m}) /\ Cardinality({order[i] : i \in 1..m}) = m
  BY <1>4, <1>6, FirstRows
<1>8. {order[i] : i \in 1..m} \subseteq ToSet(kept)
  <2>1. \A i \in 1..m : i \in 1..Len(order)
    BY <1>1, <1>5, <1>6
  <2> QED BY <1>4, <2>1, SetOf
<1> QED BY <1>2, <1>7, <1>8 DEF m

\* What a pruning leaves is distinct, and not too much.
LEMMA PrunedFits ==
  ASSUME NEW rows \in Seq(Claims), IsInjective(rows), Prune(rows)
  PROVE  stored' \in Seq(Claims) /\ IsInjective(stored') /\ Len(stored') <= MaxClaims
<1> DEFINE kept == Kept(rows)
           gone == Evicted(kept)
<1>1. kept \in Seq(Claims) /\ IsInjective(kept)
  BY OnlyKeeps, OnlyDistinct DEF Kept
<1>2. stored' = Only(kept, Claims \ gone)
  BY DEF Prune
<1>3. CASE Len(kept) > MaxClaims
  <2> HIDE DEF kept
  <2>1. gone \subseteq ToSet(kept) /\ IsFiniteSet(gone) /\ Cardinality(gone) = Len(kept) - MaxClaims
    BY <1>1, <1>3, EvictedMany
  <2> HIDE DEF gone
  <2>2. /\ stored' \in Seq(Claims) /\ IsInjective(stored')
        /\ ToSet(stored') = ToSet(kept) \cap (Claims \ gone)
    BY <1>1, <1>2, OnlyKeeps, OnlyDistinct
  <2>3. /\ Len(kept) \in Nat /\ IsFiniteSet(ToSet(kept)) /\ Cardinality(ToSet(kept)) = Len(kept)
        /\ ToSet(kept) \subseteq Claims /\ MaxClaims \in Nat
    BY <1>1, RowsCounted, SetOf, PeerClaimsAssumption
  <2>4. Len(stored') \in Nat /\ Cardinality(ToSet(stored')) = Len(stored')
    BY <2>2, RowsCounted
  <2>5. ToSet(stored') = ToSet(kept) \ gone /\ ToSet(kept) \cap gone = gone
    BY <2>1, <2>2, <2>3
  <2>6. Len(stored') = MaxClaims
    <3> DEFINE K == ToSet(kept)
    <3>1. IsFiniteSet(K) /\ Cardinality(K) = Len(kept)
      BY <2>3
    <3>2. ToSet(stored') = K \ gone /\ K \cap gone = gone
      BY <2>5
    <3> HIDE DEF K
    <3>3. Cardinality(K \ gone) = Cardinality(K) - Cardinality(K \cap gone)
      BY <3>1, FS_Difference
    <3>4. Len(stored') = Len(kept) - (Len(kept) - MaxClaims)
      BY <2>1, <2>4, <3>1, <3>2, <3>3
    <3> QED BY <2>3, <3>4
  <2> QED BY <2>2, <2>3, <2>6
<1>4. CASE ~(Len(kept) > MaxClaims)
  <2> HIDE DEF kept, gone
  <2>2. /\ stored' \in Seq(Claims) /\ IsInjective(stored')
        /\ ToSet(stored') \subseteq ToSet(kept)
    BY <1>1, <1>2, OnlyKeeps, OnlyDistinct
  <2>3. /\ Len(kept) \in Nat /\ IsFiniteSet(ToSet(kept)) /\ Cardinality(ToSet(kept)) = Len(kept)
        /\ MaxClaims \in Nat
    BY <1>1, RowsCounted, PeerClaimsAssumption
  <2>4. Len(stored') \in Nat /\ Cardinality(ToSet(stored')) = Len(stored')
    BY <2>2, RowsCounted
  <2>5. Cardinality(ToSet(stored')) <= Cardinality(ToSet(kept))
    BY <2>2, <2>3, FS_Subset
  <2> QED BY <1>4, <2>2, <2>3, <2>4, <2>5
<1> QED BY <1>3, <1>4

LEMMA ClaimsTypeIsInductive == ClaimsInv /\ ClaimsInv' /\ ClaimsTypeOK /\ [ClaimsNext]_claimVars => ClaimsTypeOK'
<1> SUFFICES ASSUME ClaimsInv, ClaimsInv', ClaimsTypeOK, [ClaimsNext]_claimVars PROVE ClaimsTypeOK'
  OBVIOUS
<1>1. ASSUME NEW rows \in Seq(Claims), IsInjective(rows), Prune(rows), UNCHANGED <<now, revoked>>,
             taken' \in [Issuers -> 0..ClaimsPerWindow]
      PROVE  ClaimsTypeOK'
  <2>1. stored' \in Seq(Claims) /\ IsInjective(stored') /\ Len(stored') <= MaxClaims
    BY <1>1, PrunedFits
  <2>2. bans' \in [Issuers -> {"none", "banned", "lapsed"}]
    BY <1>1 DEF Prune, ClaimsTypeOK
  <2> QED BY <1>1, <2>1, <2>2 DEF ClaimsTypeOK, ClaimsInv
<1>2. ASSUME NEW c \in Claims, ingest(c) PROVE ClaimsTypeOK'
  <2>1. taken' \in [Issuers -> 0..ClaimsPerWindow]
    <3>1. ClaimsPerWindow \in Nat /\ c.issuer \in Issuers
      BY PeerClaimsAssumption
    <3>2. taken[c.issuer] + 1 \in 0..ClaimsPerWindow
      BY <1>2, <3>1 DEF ClaimsTypeOK, ingest, HasSlot
    <3> QED BY <1>2, <3>2 DEF ClaimsTypeOK, ingest
  <2>2. CASE Duplicate(c)
    BY <1>2, <2>1, <2>2 DEF Duplicate, ingest, ClaimsTypeOK
  <2>3. CASE Insert(c)
    <3>1. Append(stored, c) \in Seq(Claims) /\ IsInjective(Append(stored, c))
      BY <2>3, SetOf, AppendDistinct DEF ClaimsTypeOK, Insert
    <3> QED BY <1>1, <1>2, <2>1, <2>3, <3>1 DEF Insert, ingest
  <2> QED BY <1>2, <2>2, <2>3 DEF ingest
<1>3. CASE prune
  BY <1>1, <1>3 DEF prune, ClaimsTypeOK
<1>4. CASE Tick
  <2>1. now' \in 0..Horizon
    BY <1>4, PeerClaimsAssumption DEF Tick, ClaimsTypeOK
  <2>2. taken' \in [Issuers -> 0..ClaimsPerWindow]
    BY <1>4, PeerClaimsAssumption DEF Tick
  <2> QED BY <1>4, <2>1, <2>2 DEF Tick, ClaimsTypeOK
<1>5. ASSUME NEW c \in Claims, revoke_claim(c) \/ restore_claim(c) PROVE ClaimsTypeOK'
  BY <1>5 DEF revoke_claim, restore_claim, ClaimsTypeOK
<1>6. ASSUME NEW i \in Issuers, ban_peer(i) \/ unban_peer(i) \/ BanLapses(i) PROVE ClaimsTypeOK'
  BY <1>6 DEF ban_peer, unban_peer, BanLapses, ClaimsTypeOK
<1>7. CASE UNCHANGED claimVars
  BY <1>7 DEF claimVars, ClaimsTypeOK
<1> QED BY <1>2, <1>3, <1>4, <1>5, <1>6, <1>7 DEF ClaimsNext

LEMMA InitClaimsType == ClaimsInit => ClaimsTypeOK
<1> SUFFICES ASSUME ClaimsInit PROVE ClaimsTypeOK
  OBVIOUS
<1>1. stored \in Seq(Claims) /\ IsInjective(stored) /\ Len(stored) = 0 /\ ToSet(stored) = {}
  BY DEF ClaimsInit, IsInjective, ToSet
<1>2. 0 \in 0..Horizon /\ 0 \in 0..ClaimsPerWindow /\ 0 <= MaxClaims
  BY PeerClaimsAssumption
<1> QED BY <1>1, <1>2 DEF ClaimsInit, ClaimsTypeOK

\* However many claims arrive, in whatever order and however often, the store
\* keeps each once and never more than max_claims of them, and no issuer sends
\* more in a window than it may: evicting, inactive claims first, takes away
\* exactly what is too much.
THEOREM ClaimsFit == ClaimsSpec => []ClaimsTypeOK
BY ClaimsInvariant, InitClaimsType, ClaimsTypeIsInductive, PTL DEF ClaimsSpec
=============================================================================
