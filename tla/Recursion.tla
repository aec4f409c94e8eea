------------------------------ MODULE Recursion ------------------------------
(***************************************************************************)
(* When a recursive function exists: f[x \in Domain] == Step(f, x), if the  *)
(* step looks only at arguments of a lower rank.  A module that defines one *)
(* instantiates this one; the proofs of what it computes begin here.        *)
(***************************************************************************)
EXTENDS Integers, WellFoundedInduction, TLAPS

CONSTANTS
  Domain,
  Rank,      \* of each argument, a natural number
  Step(_,_)  \* the body: a function and an argument

Below == {pair \in Nat \X Nat : pair[1] < pair[2]}

\* A non-empty set of natural numbers has a least element.
LEMMA LeastElement ==
  ASSUME NEW S, S \subseteq Nat, S # {}
  PROVE  \E n \in S : \A m \in S : n <= m
<1>1. IsWellFoundedOn(Below, Nat)
  BY NatLessThanWellFounded DEF OpToRel, Below
<1>2. PICK n \in S : \A m \in S : ~ (<<m, n>> \in Below)
  BY <1>1, WFMin
<1>3. \A m \in S : m \in Nat /\ n \in Nat /\ ~(m < n)
  BY <1>2 DEF Below
<1>4. \A m \in S : n <= m
  BY <1>3
<1>5. QED BY <1>4

\* Induction over the natural numbers, for a set in place of a predicate.
LEMMA SetInduction ==
  ASSUME NEW S, 0 \in S, \A n \in Nat : n \in S => n + 1 \in S
  PROVE  \A n \in Nat : n \in S
<1> SUFFICES ASSUME Nat \ S # {} PROVE FALSE
  OBVIOUS
<1>1. PICK n \in Nat \ S : \A m \in Nat \ S : n <= m
  BY LeastElement
<1>2. n - 1 \in Nat /\ n - 1 \notin Nat \ S
  BY <1>1
<1>3. QED BY <1>2

----------------------------------------------------------------------------
Lower(n) == {x \in Domain : Rank[x] < n}

\* The step depends on the function's values at arguments of a lower rank only.
Local ==
  \A x \in Domain : \A f, g :
    (\A y \in Domain : Rank[y] < Rank[x] => f[y] = g[y]) => Step(f, x) = Step(g, x)

\* f is the function, as far as the arguments of a rank below n.
Solves(n, f) == f = [x \in Lower(n) |-> Step(f, x)]

\* What a solution is at an argument.
LEMMA SolvesAt ==
  ASSUME NEW n, NEW f, Solves(n, f), NEW x \in Lower(n)
  PROVE  f[x] = Step(f, x)
BY DEF Solves

\* Two solutions agree wherever both are defined.
LEMMA SolutionsAgree ==
  ASSUME Rank \in [Domain -> Nat], Local,
         NEW m \in Nat, NEW n \in Nat, NEW f, NEW g, Solves(m, f), Solves(n, g)
  PROVE  \A x \in Lower(m) \cap Lower(n) : f[x] = g[x]
<1> DEFINE S == {i \in Nat : \A x \in Lower(m) \cap Lower(n) : Rank[x] < i => f[x] = g[x]}
<1>1. 0 \in S
  BY DEF Lower
<1>2. ASSUME NEW i \in Nat, i \in S PROVE i + 1 \in S
  <2>1. ASSUME NEW x \in Lower(m) \cap Lower(n), Rank[x] < i + 1
        PROVE  f[x] = g[x]
    <3>1. x \in Domain /\ Rank[x] \in Nat /\ Rank[x] < m /\ Rank[x] < n
      BY DEF Lower
    <3>2. ASSUME NEW y \in Domain, Rank[y] < Rank[x] PROVE f[y] = g[y]
      <4>1. Rank[y] \in Nat /\ Rank[y] < m /\ Rank[y] < n /\ Rank[y] < i
        BY <3>1, <3>2, <2>1
      <4>2. y \in Lower(m) \cap Lower(n)
        BY <4>1 DEF Lower
      <4>3. QED BY <1>2, <4>1, <4>2
    <3>3. Step(f, x) = Step(g, x)
      BY <3>1, <3>2 DEF Local
    <3>4. f[x] = Step(f, x) /\ g[x] = Step(g, x)
      BY SolvesAt
    <3>5. QED BY <3>3, <3>4
  <2>2. i + 1 \in Nat
    OBVIOUS
  <2>3. QED BY <2>1, <2>2
<1> HIDE DEF S
<1>3. \A i \in Nat : i \in S
  BY <1>1, <1>2, SetInduction
<1>4. m \in S
  BY <1>3
<1>5. QED BY <1>4 DEF S, Lower

\* There is a solution for the arguments below any rank.
LEMMA SolutionExists ==
  ASSUME Rank \in [Domain -> Nat], Local, NEW n \in Nat
  PROVE  \E f : Solves(n, f)
<1> DEFINE S == {i \in Nat : \E f : Solves(i, f)}
<1>1. 0 \in S
  <2>1. Lower(0) = {}
    BY DEF Lower
  <2>2. Solves(0, [x \in {} |-> x])
    BY <2>1 DEF Solves
  <2>3. QED BY <2>2
<1>2. ASSUME NEW i \in Nat, i \in S PROVE i + 1 \in S
  <2>1. PICK f : Solves(i, f)
    BY <1>2
  <2> DEFINE g == [x \in Lower(i + 1) |-> Step(f, x)]
  <2>2. ASSUME NEW x \in Lower(i + 1) PROVE Step(f, x) = Step(g, x)
    <3>1. x \in Domain /\ Rank[x] \in Nat /\ Rank[x] < i + 1
      BY DEF Lower
    <3>2. ASSUME NEW y \in Domain, Rank[y] < Rank[x] PROVE f[y] = g[y]
      <4>1. Rank[y] \in Nat /\ Rank[y] < i /\ Rank[y] < i + 1
        BY <3>1, <3>2
      <4>2. y \in Lower(i) /\ y \in Lower(i + 1)
        BY <4>1 DEF Lower
      <4>3. f[y] = Step(f, y)
        BY <2>1, <4>2, SolvesAt
      <4>4. QED BY <4>2, <4>3
    <3> HIDE DEF g
    <3>3. QED BY <3>1, <3>2 DEF Local
  <2>3. g = [x \in Lower(i + 1) |-> Step(g, x)]
    BY <2>2
  <2>4. Solves(i + 1, g) /\ i + 1 \in Nat
    BY <2>3 DEF Solves
  <2> HIDE DEF g
  <2>5. QED BY <2>4
<1> HIDE DEF S
<1>3. \A i \in Nat : i \in S
  BY <1>1, <1>2, SetInduction
<1>4. QED BY <1>3 DEF S

\* The recursive definition defines a function that satisfies it.
LEMMA FunctionExists ==
  ASSUME Rank \in [Domain -> Nat], Local
  PROVE  \E f : f = [x \in Domain |-> Step(f, x)]
<1> DEFINE G(n) == CHOOSE f : Solves(n, f)
           f == [x \in Domain |-> G(Rank[x] + 1)[x]]
<1>1. \A n \in Nat : Solves(n, G(n))
  BY SolutionExists
<1> HIDE DEF G
<1>2. ASSUME NEW x \in Domain PROVE f[x] = Step(f, x)
  <2> DEFINE n == Rank[x] + 1
  <2>1. n \in Nat /\ Rank[x] \in Nat /\ x \in Lower(n)
    BY DEF Lower
  <2>2. G(n)[x] = Step(G(n), x)
    BY <1>1, <2>1, SolvesAt
  <2>3. ASSUME NEW y \in Domain, Rank[y] < Rank[x] PROVE G(n)[y] = f[y]
    <3>1. Rank[y] + 1 \in Nat /\ y \in Lower(Rank[y] + 1) /\ y \in Lower(n)
      BY <2>1, <2>3 DEF Lower
    <3>2. Solves(n, G(n)) /\ Solves(Rank[y] + 1, G(Rank[y] + 1))
      BY <1>1, <2>1, <3>1
    <3>3. G(Rank[y] + 1)[y] = G(n)[y]
      BY <2>1, <3>1, <3>2, SolutionsAgree
    <3>4. QED BY <3>3
  <2>4. f[x] = G(n)[x]
    OBVIOUS
  <2> HIDE DEF f, n
  <2>5. Step(G(n), x) = Step(f, x)
    BY <2>3 DEF Local
  <2>6. QED BY <2>2, <2>4, <2>5
<1>3. f = [x \in Domain |-> Step(f, x)]
  BY <1>2
<1> HIDE DEF f
<1>4. QED BY <1>3
=============================================================================
