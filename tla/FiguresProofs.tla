---------------------------- MODULE FiguresProofs ----------------------------
(***************************************************************************)
(* Theorems about Terms, Reports and Identifiers, for every input: first   *)
(* about sums, by induction over a finite set, then about each of the      *)
(* figures the code works out.                                             *)
(***************************************************************************)
EXTENDS Terms, Reports, Identifiers, SequenceTheorems, FiniteSetTheorems, NaturalsInduction, TLAPS

-----------------------------------------------------------------------------
(* Induction over data, with a set of good values where the library has a  *)
(* predicate: over the numbers, and over the subsets of a finite set.      *)
LEMMA SmallestSubset ==
  ASSUME NEW S, IsFiniteSet(S), NEW Bad, Bad \subseteq SUBSET S, Bad # {}
  PROVE  \E U \in Bad : \A V \in Bad : V \subseteq U => V = U
<1>1. IsWellFoundedOn(StrictSubsetOrdering(S), SUBSET S)
  <2>1. FiniteSubsetsOf(S) = SUBSET S
    BY FS_FiniteSubsetsOfFinite
  <2>2. IsWellFoundedOn(StrictSubsetOrdering(S), FiniteSubsetsOf(S))
    BY FS_StrictSubsetOrderingWellFounded
  <2>. QED BY <2>1, <2>2
<1>2. PICK U \in Bad : \A V \in Bad : ~(<<V, U>> \in StrictSubsetOrdering(S))
  BY <1>1, WFMin
<1>3. \A V \in Bad : V \subseteq U /\ V # U => <<V, U>> \in StrictSubsetOrdering(S)
  BY DEF StrictSubsetOrdering
<1>4. \A V \in Bad : V \subseteq U => V = U
  BY <1>2, <1>3
<1>. QED BY <1>4, Zenon

LEMMA SmallestNumber ==
  ASSUME NEW Bad, Bad \subseteq Nat, Bad # {}
  PROVE  \E n \in Bad : \A m \in Bad : n <= m
<1>1. PICK top \in Bad : TRUE
  OBVIOUS
<1>. DEFINE Up(n) == 0..n
            Family == {Up(n) : n \in {m \in Bad : m <= top}}
<1>2. PICK U \in Family : \A V \in Family : V \subseteq U => V = U
  <2>1. top \in Nat /\ IsFiniteSet(Up(top))
    BY <1>1, FS_Interval
  <2>2. Up(top) \in Family
    BY <1>1, <2>1
  <2>3. \A n \in Bad : n <= top => Up(n) \in SUBSET (Up(top))
    BY <2>1
  <2>4. Family \subseteq SUBSET (Up(top))
    BY <2>3
  <2>. HIDE DEF Family, Up
  <2>. QED BY <2>1, <2>2, <2>4, SmallestSubset
<1>3. PICK n \in Bad : n <= top /\ U = Up(n)
  BY <1>2
<1>4. ASSUME NEW m \in Bad, ~(n <= m)
      PROVE  FALSE
  <2>1. m \in Nat /\ n \in Nat /\ m <= top /\ m < n
    BY <1>1, <1>3, <1>4
  <2>2. Up(m) \in Family /\ Up(m) \subseteq Up(n)
    BY <2>1, <1>4
  <2>3. n \in Up(n) /\ n \notin Up(m)
    BY <2>1
  <2>. QED BY <1>2, <1>3, <2>2, <2>3
<1>. QED BY <1>4

LEMMA CountingUp ==
  ASSUME NEW Good, 0 \in Good, \A n \in Nat : n \in Good => n + 1 \in Good
  PROVE  \A n \in Nat : n \in Good
<1>. DEFINE Bad == Nat \ Good
<1>. SUFFICES ASSUME Bad # {} PROVE FALSE
  OBVIOUS
<1>1. PICK n \in Bad : \A m \in Bad : n <= m
  <2>1. Bad \subseteq Nat
    OBVIOUS
  <2>. HIDE DEF Bad
  <2>. QED BY <2>1, SmallestNumber
<1>2. n \in Nat \ {0} /\ n - 1 \in Nat /\ ~(n <= n - 1) /\ (n - 1) + 1 = n
  BY <1>1
<1>. QED BY <1>1, <1>2

LEMMA Dismantling ==
  ASSUME NEW S, IsFiniteSet(S), NEW Good,
         \A U \in SUBSET S : (\A x \in U : U \ {x} \in Good) => U \in Good
  PROVE  \A U \in SUBSET S : U \in Good
<1>. DEFINE Bad == (SUBSET S) \ Good
<1>. SUFFICES ASSUME Bad # {} PROVE FALSE
  OBVIOUS
<1>1. PICK U \in Bad : \A V \in Bad : V \subseteq U => V = U
  <2>1. Bad \subseteq SUBSET S
    OBVIOUS
  <2>. HIDE DEF Bad
  <2>. QED BY <2>1, SmallestSubset
<1>2. \A x \in U : U \ {x} \in SUBSET S /\ U \ {x} \subseteq U /\ U \ {x} # U
  BY <1>1
<1>3. \A x \in U : U \ {x} \in Good
  BY <1>1, <1>2
<1>. QED BY <1>1, <1>3

-----------------------------------------------------------------------------

Pick(s) == CHOOSE x \in s : TRUE
Adds(f, g, s) == IF s = {} THEN 0 ELSE f[Pick(s)] + g[s \ {Pick(s)}]

LEMMA SumIs ==
  ASSUME NEW f, NEW S
  PROVE  SumFunctionOnSet(f, S) = (CHOOSE g : g = [s \in SUBSET S |-> Adds(f, g, s)])[S]
BY DEF SumFunctionOnSet, FoldFunctionOnSet, MapThenFoldSet, Adds, Pick

LEMMA Picked ==
  ASSUME NEW s, s # {}
  PROVE  Pick(s) \in s
BY DEF Pick

LEMMA SumExists ==
  ASSUME NEW f, NEW S, IsFiniteSet(S)
  PROVE  \E g : g = [s \in SUBSET S |-> Adds(f, g, s)]
<1>. DEFINE Level(n) == {s \in SUBSET S : Cardinality(s) <= n}
            Good == {n \in Nat : \E g : g = [s \in Level(n) |-> Adds(f, g, s)]}
<1>1. \A s \in SUBSET S : IsFiniteSet(s) /\ Cardinality(s) \in Nat /\ (Cardinality(s) = 0 <=> s = {})
  BY FS_Subset, FS_CardinalityType, FS_EmptySet
<1>2. 0 \in Good
  <2>. DEFINE g == [s \in Level(0) |-> 0]
  <2>1. \A s \in Level(0) : s = {}
    BY <1>1
  <2>2. g = [s \in Level(0) |-> Adds(f, g, s)]
    BY <2>1 DEF Adds
  <2>. QED BY <2>2
<1>3. ASSUME NEW n \in Nat, n \in Good
      PROVE  n + 1 \in Good
  <2>1. PICK g : g = [s \in Level(n) |-> Adds(f, g, s)]
    BY <1>3
  <2>. DEFINE h == [s \in Level(n + 1) |-> Adds(f, g, s)]
  <2>2. ASSUME NEW s \in Level(n + 1), s # {}
        PROVE  s \ {Pick(s)} \in Level(n) /\ s \ {Pick(s)} \in Level(n + 1)
    <3>1. Pick(s) \in s
      BY <2>2, Picked
    <3>2. Cardinality(s \ {Pick(s)}) = Cardinality(s) - 1
      BY <1>1, <3>1, FS_RemoveElement
    <3>. QED BY <1>1, <3>2
  <2>3. \A s \in Level(n) : s \in Level(n + 1) /\ h[s] = g[s]
    BY <1>1, <2>1
  <2>. HIDE DEF Level
  <2>4. \A s \in Level(n + 1) : Adds(f, g, s) = Adds(f, h, s)
    BY <2>2, <2>3 DEF Adds
  <2>5. h = [s \in Level(n + 1) |-> Adds(f, h, s)]
    BY <2>4
  <2>. HIDE DEF h
  <2>6. \E k : k = [s \in Level(n + 1) |-> Adds(f, k, s)]
    BY <2>5
  <2>. QED BY <2>6
<1>4. Cardinality(S) \in Good
  <2>. HIDE DEF Good
  <2>. QED BY <1>1, <1>2, <1>3, CountingUp
<1>5. Level(Cardinality(S)) = SUBSET S
  BY FS_Subset
<1>. QED BY <1>4, <1>5

(* What it is defined by, it does: an element is taken, the rest is summed.*)
LEMMA SumSteps ==
  ASSUME NEW f, NEW S, IsFiniteSet(S)
  PROVE  SumFunctionOnSet(f, S)
           = IF S = {} THEN 0 ELSE f[Pick(S)] + SumFunctionOnSet(f, S \ {Pick(S)})
<1>. DEFINE Sums(D) == CHOOSE g : g = [s \in SUBSET D |-> Adds(f, g, s)]
<1>1. \A D \in SUBSET S : Sums(D) = [s \in SUBSET D |-> Adds(f, Sums(D), s)]
  <2>. TAKE D \in SUBSET S
  <2>1. \E g : g = [s \in SUBSET D |-> Adds(f, g, s)]
    BY SumExists, FS_Subset
  <2>. QED BY <2>1
<1>2. \A D \in SUBSET S : SumFunctionOnSet(f, D) = Sums(D)[D]
  BY SumIs
<1>. HIDE DEF Sums
<1>3. CASE S = {}
  BY <1>1, <1>2, <1>3 DEF Adds
<1>4. CASE S # {}
  <2>. DEFINE D == S \ {Pick(S)}
              Good == {s \in SUBSET D : Sums(S)[s] = Sums(D)[s]}
              Bad == (SUBSET D) \ Good
  <2>1. Pick(S) \in S /\ IsFiniteSet(D) /\ D \in SUBSET S
    BY <1>4, Picked, FS_Subset
  <2>2. ASSUME Bad # {} PROVE FALSE
    <3>1. PICK s \in Bad : \A t \in Bad : t \subseteq s => t = s
      <4>1. Bad \subseteq SUBSET D
        OBVIOUS
      <4>. HIDE DEF Bad
      <4>. QED BY <2>1, <2>2, <4>1, SmallestSubset
    <3>2. s \in SUBSET D /\ s \in SUBSET S /\ D \in SUBSET S /\ Sums(S)[s] # Sums(D)[s]
      BY <2>1, <3>1
    <3>3. /\ Sums(S)[s] = Adds(f, Sums(S), s)
          /\ Sums(D)[s] = Adds(f, Sums(D), s)
      <4>1. S \in SUBSET S
        OBVIOUS
      <4>. HIDE DEF D
      <4>. QED BY <1>1, <3>2, <4>1
    <3>4. s # {}
      BY <3>2, <3>3 DEF Adds
    <3>5. Sums(S)[s \ {Pick(s)}] = Sums(D)[s \ {Pick(s)}]
      <4>1. Pick(s) \in s
        BY <3>4, Picked
      <4>2. s \ {Pick(s)} \in SUBSET D
        BY <3>2
      <4>. HIDE DEF D
      <4>. QED BY <3>1, <4>1, <4>2
    <3>. QED BY <3>2, <3>3, <3>4, <3>5 DEF Adds
  <2>3. Sums(S)[D] = Sums(D)[D]
    BY <2>1, <2>2
  <2>4. Sums(S)[S] = Adds(f, Sums(S), S)
    BY <1>1
  <2>. QED BY <1>2, <1>4, <2>1, <2>3, <2>4 DEF Adds
<1>. QED BY <1>3, <1>4

LEMMA SumOfNone ==
  ASSUME NEW f
  PROVE  SumFunctionOnSet(f, {}) = 0
BY SumSteps, FS_EmptySet

LEMMA SumType ==
  ASSUME NEW f, NEW S, IsFiniteSet(S), \A x \in S : f[x] \in Int
  PROVE  SumFunctionOnSet(f, S) \in Int
<1>. DEFINE Good == {U \in SUBSET S : SumFunctionOnSet(f, U) \in Int}
<1>1. \A U \in SUBSET S : (\A x \in U : U \ {x} \in Good) => U \in Good
  <2>0. SUFFICES ASSUME NEW U \in SUBSET S, \A x \in U : U \ {x} \in Good
                PROVE  U \in Good
    OBVIOUS
  <2>1. IsFiniteSet(U)
    BY FS_Subset
  <2>2. CASE U = {}
    BY <2>2, SumOfNone
  <2>3. CASE U # {}
    <3>1. Pick(U) \in U
      BY <2>3, Picked
    <3>2. SumFunctionOnSet(f, U) = f[Pick(U)] + SumFunctionOnSet(f, U \ {Pick(U)})
      BY <2>1, <2>3, SumSteps
    <3>3. SumFunctionOnSet(f, U \ {Pick(U)}) \in Int
      BY <2>0, <3>1
    <3>4. f[Pick(U)] \in Int
      BY <3>1
    <3>. QED BY <3>2, <3>3, <3>4
  <2>. QED BY <2>2, <2>3
<1>2. \A U \in SUBSET S : U \in Good
  <2>. HIDE DEF Good
  <2>. QED BY <1>1, Dismantling
<1>. QED BY <1>2

(* The order does not matter: any element may be taken first. *)
LEMMA SumRemove ==
  ASSUME NEW f, NEW S, IsFiniteSet(S), \A x \in S : f[x] \in Int
  PROVE  \A x \in S : SumFunctionOnSet(f, S) = f[x] + SumFunctionOnSet(f, S \ {x})
<1>. DEFINE Total(U) == SumFunctionOnSet(f, U)
            Good == {U \in SUBSET S : \A x \in U : Total(U) = f[x] + Total(U \ {x})}
<1>0. \A U \in SUBSET S : IsFiniteSet(U) /\ Total(U) \in Int
  BY FS_Subset, SumType
<1>1. \A U \in SUBSET S : (\A x \in U : U \ {x} \in Good) => U \in Good
  <2>0. SUFFICES ASSUME NEW U \in SUBSET S, \A x \in U : U \ {x} \in Good
                PROVE  U \in Good
    OBVIOUS
  <2>. SUFFICES ASSUME NEW x \in U PROVE Total(U) = f[x] + Total(U \ {x})
    OBVIOUS
  <2>a. \A V \in Good : \A y \in V : Total(V) = f[y] + Total(V \ {y})
    OBVIOUS
  <2>. DEFINE p == Pick(U)
  <2>1. p \in U /\ Total(U) = f[p] + Total(U \ {p})
    BY <1>0, SumSteps, Picked
  <2>. HIDE DEF Total, p, Good
  <2>2. CASE x # p
    <3>1. U \ {p} \in Good /\ x \in U \ {p} /\ U \ {x} \in Good /\ p \in U \ {x}
      BY <2>0, <2>1, <2>2
    <3>. DEFINE V == U \ {p}
                W == U \ {x}
                rest == V \ {x}
    <3>2. rest = W \ {p} /\ rest \in SUBSET S
      OBVIOUS
    <3>3. f[x] \in Int /\ f[p] \in Int /\ Total(rest) \in Int
      BY <1>0, <2>1, <3>2
    <3>4. Total(V) = f[x] + Total(rest)
      BY <2>a, <3>1
    <3>5. Total(W) = f[p] + Total(rest)
      BY <2>a, <3>1, <3>2
    <3>6. Total(U) = f[p] + Total(V)
      BY <2>1
    <3>. HIDE DEF V, W, rest
    <3>7. Total(U) = f[x] + Total(W)
      BY <3>3, <3>4, <3>5, <3>6
    <3>. QED BY <3>7 DEF W
  <2>. QED BY <2>1, <2>2
<1>2. \A U \in SUBSET S : U \in Good
  <2>. HIDE DEF Good
  <2>. QED BY <1>1, Dismantling
<1>. QED BY <1>2

LEMMA SumAdd ==
  ASSUME NEW f, NEW S, IsFiniteSet(S), NEW x, x \notin S, \A y \in S \cup {x} : f[y] \in Int
  PROVE  SumFunctionOnSet(f, S \cup {x}) = f[x] + SumFunctionOnSet(f, S)
<1>1. IsFiniteSet(S \cup {x}) /\ (S \cup {x}) \ {x} = S
  BY FS_AddElement
<1>. QED BY <1>1, SumRemove

(* What is proved of one element more holds of every sum. *)
LEMMA SumSame ==
  ASSUME NEW f, NEW g, NEW S, IsFiniteSet(S), \A x \in S : f[x] = g[x] /\ f[x] \in Int
  PROVE  SumFunctionOnSet(f, S) = SumFunctionOnSet(g, S)
<1>. DEFINE Good == {U \in SUBSET S : SumFunctionOnSet(f, U) = SumFunctionOnSet(g, U)}
<1>1. \A U \in SUBSET S : (\A x \in U : U \ {x} \in Good) => U \in Good
  <2>0. SUFFICES ASSUME NEW U \in SUBSET S, \A x \in U : U \ {x} \in Good
                PROVE  U \in Good
    OBVIOUS
  <2>1. IsFiniteSet(U)
    BY FS_Subset
  <2>2. CASE U = {}
    BY <2>2, SumOfNone
  <2>3. CASE U # {}
    <3>1. Pick(U) \in U
      BY <2>3, Picked
    <3>2. /\ SumFunctionOnSet(f, U) = f[Pick(U)] + SumFunctionOnSet(f, U \ {Pick(U)})
          /\ SumFunctionOnSet(g, U) = g[Pick(U)] + SumFunctionOnSet(g, U \ {Pick(U)})
      BY <2>1, <2>3, SumSteps
    <3>. QED BY <2>0, <3>1, <3>2
  <2>. QED BY <2>2, <2>3
<1>2. \A U \in SUBSET S : U \in Good
  <2>. HIDE DEF Good
  <2>. QED BY <1>1, Dismantling
<1>. QED BY <1>2

LEMMA SumUnion ==
  ASSUME NEW f, NEW S, NEW T, IsFiniteSet(S), IsFiniteSet(T), S \cap T = {},
         \A x \in S \cup T : f[x] \in Int
  PROVE  SumFunctionOnSet(f, S \cup T) = SumFunctionOnSet(f, S) + SumFunctionOnSet(f, T)
<1>. DEFINE Total(U) == SumFunctionOnSet(f, U)
            Good == {U \in SUBSET T : Total(S \cup U) = Total(S) + Total(U)}
<1>1. \A U \in SUBSET T : (\A x \in U : U \ {x} \in Good) => U \in Good
  <2>0. SUFFICES ASSUME NEW U \in SUBSET T, \A x \in U : U \ {x} \in Good
                PROVE  U \in Good
    OBVIOUS
  <2>1. IsFiniteSet(U) /\ IsFiniteSet(S \cup U) /\ Total(S) \in Int
    BY FS_Subset, FS_Union, SumType
  <2>2. CASE U = {}
    <3>1. S \cup U = S
      BY <2>2
    <3>. QED BY <2>1, <2>2, <3>1, SumOfNone
  <2>3. CASE U # {}
    <3>1. PICK x \in U : TRUE
      BY <2>3
    <3>2. Total(U) = f[x] + Total(U \ {x})
      BY <2>1, SumRemove
    <3>3. Total(S \cup U) = f[x] + Total((S \cup U) \ {x})
      BY <2>1, SumRemove
    <3>4. (S \cup U) \ {x} = S \cup (U \ {x})
      OBVIOUS
    <3>5. Total(S \cup (U \ {x})) = Total(S) + Total(U \ {x})
      BY <2>0
    <3>6. f[x] \in Int /\ Total(U \ {x}) \in Int
      BY <2>1, FS_Subset, SumType
    <3>. DEFINE V == U \ {x}
                All == S \cup U
                Less == S \cup V
    <3>7. /\ Total(U) = f[x] + Total(V) /\ Total(All) = f[x] + Total(Less)
          /\ Total(Less) = Total(S) + Total(V) /\ Total(V) \in Int
      BY <3>2, <3>3, <3>4, <3>5, <3>6
    <3>. HIDE DEF Total, V, All, Less
    <3>8. Total(All) = Total(S) + Total(U)
      BY <2>1, <3>6, <3>7
    <3>. QED BY <3>8 DEF Total, All
  <2>. QED BY <2>2, <2>3
<1>2. \A U \in SUBSET T : U \in Good
  <2>. HIDE DEF Good
  <2>. QED BY <1>1, Dismantling
<1>. QED BY <1>2

LEMMA Building ==
  ASSUME NEW S, IsFiniteSet(S), NEW Good, {} \in Good,
         \A U \in SUBSET S : \A x \in U : U \ {x} \in Good => U \in Good
  PROVE  S \in Good
<1>1. \A U \in SUBSET S : (\A x \in U : U \ {x} \in Good) => U \in Good
  <2>. SUFFICES ASSUME NEW U \in SUBSET S, \A x \in U : U \ {x} \in Good, U # {}
                PROVE  U \in Good
    OBVIOUS
  <2>1. PICK x \in U : TRUE
    OBVIOUS
  <2>. QED BY <2>1
<1>. QED BY <1>1, Dismantling

LEMMA SumPlus ==
  ASSUME NEW f, NEW g, NEW h, NEW S, IsFiniteSet(S),
         \A x \in S : f[x] \in Int /\ g[x] \in Int /\ h[x] = f[x] + g[x]
  PROVE  SumFunctionOnSet(h, S) = SumFunctionOnSet(f, S) + SumFunctionOnSet(g, S)
<1>. DEFINE Good == {U \in SUBSET S :
                       SumFunctionOnSet(h, U) = SumFunctionOnSet(f, U) + SumFunctionOnSet(g, U)}
<1>1. {} \in Good
  BY SumOfNone
<1>2. ASSUME NEW U \in SUBSET S, NEW x \in U, U \ {x} \in Good
      PROVE  U \in Good
  <2>1. IsFiniteSet(U) /\ IsFiniteSet(U \ {x})
    BY FS_Subset
  <2>2. /\ SumFunctionOnSet(f, U) = f[x] + SumFunctionOnSet(f, U \ {x})
        /\ SumFunctionOnSet(g, U) = g[x] + SumFunctionOnSet(g, U \ {x})
        /\ SumFunctionOnSet(h, U) = h[x] + SumFunctionOnSet(h, U \ {x})
    BY <2>1, SumRemove
  <2>3. /\ SumFunctionOnSet(f, U \ {x}) \in Int /\ SumFunctionOnSet(g, U \ {x}) \in Int
        /\ f[x] \in Int /\ g[x] \in Int /\ h[x] = f[x] + g[x]
    BY <2>1, SumType
  <2>. QED BY <1>2, <2>2, <2>3
<1>. HIDE DEF Good
<1>3. S \in Good
  BY <1>1, <1>2, Building
<1>. QED BY <1>3 DEF Good

LEMMA SumLeq ==
  ASSUME NEW f, NEW g, NEW S, IsFiniteSet(S),
         \A x \in S : f[x] \in Int /\ g[x] \in Int /\ f[x] <= g[x]
  PROVE  SumFunctionOnSet(f, S) <= SumFunctionOnSet(g, S)
<1>. DEFINE Good == {U \in SUBSET S : SumFunctionOnSet(f, U) <= SumFunctionOnSet(g, U)}
<1>1. {} \in Good
  BY SumOfNone
<1>2. ASSUME NEW U \in SUBSET S, NEW x \in U, U \ {x} \in Good
      PROVE  U \in Good
  <2>1. IsFiniteSet(U) /\ IsFiniteSet(U \ {x})
    BY FS_Subset
  <2>2. /\ SumFunctionOnSet(f, U) = f[x] + SumFunctionOnSet(f, U \ {x})
        /\ SumFunctionOnSet(g, U) = g[x] + SumFunctionOnSet(g, U \ {x})
    BY <2>1, SumRemove
  <2>3. /\ SumFunctionOnSet(f, U \ {x}) \in Int /\ SumFunctionOnSet(g, U \ {x}) \in Int
        /\ f[x] \in Int /\ g[x] \in Int /\ f[x] <= g[x]
    BY <2>1, SumType
  <2>. QED BY <1>2, <2>2, <2>3
<1>. HIDE DEF Good
<1>3. S \in Good
  BY <1>1, <1>2, Building
<1>. QED BY <1>3 DEF Good

LEMMA SumOfZeros ==
  ASSUME NEW f, NEW S, IsFiniteSet(S), \A x \in S : f[x] = 0
  PROVE  SumFunctionOnSet(f, S) = 0
<1>. DEFINE Good == {U \in SUBSET S : SumFunctionOnSet(f, U) = 0}
<1>1. {} \in Good
  BY SumOfNone
<1>2. ASSUME NEW U \in SUBSET S, NEW x \in U, U \ {x} \in Good
      PROVE  U \in Good
  <2>1. IsFiniteSet(U)
    BY FS_Subset
  <2>2. SumFunctionOnSet(f, U) = f[x] + SumFunctionOnSet(f, U \ {x})
    BY <2>1, SumRemove
  <2>. QED BY <1>2, <2>2
<1>. HIDE DEF Good
<1>3. S \in Good
  BY <1>1, <1>2, Building
<1>. QED BY <1>3 DEF Good

(* What a function makes of the elements of a set. *)
Made(h, S) == {h[x] : x \in S}

LEMMA MadeIsFinite ==
  ASSUME NEW S, IsFiniteSet(S), NEW h
  PROVE  IsFiniteSet(Made(h, S))
<1>. DEFINE Good == {U \in SUBSET S : IsFiniteSet(Made(h, U))}
<1>1. {} \in Good
  <2>1. Made(h, {}) = {}
    BY DEF Made
  <2>. QED BY <2>1, FS_EmptySet
<1>2. ASSUME NEW U \in SUBSET S, NEW x \in U, U \ {x} \in Good
      PROVE  U \in Good
  <2>1. Made(h, U) = Made(h, U \ {x}) \cup {h[x]}
    BY DEF Made
  <2>2. IsFiniteSet(Made(h, U \ {x}))
    BY <1>2
  <2>. QED BY <2>1, <2>2, FS_AddElement
<1>. HIDE DEF Good
<1>3. S \in Good
  BY <1>1, <1>2, Building
<1>. QED BY <1>3 DEF Good

(* A sum of copies, one for one. *)
LEMMA SumOfImage ==
  ASSUME NEW S, IsFiniteSet(S), NEW h, NEW f, NEW g,
         \A x, y \in S : h[x] = h[y] => x = y,
         \A x \in S : f[h[x]] \in Int /\ g[x] = f[h[x]]
  PROVE  SumFunctionOnSet(f, Made(h, S)) = SumFunctionOnSet(g, S)
<1>. DEFINE Good == {U \in SUBSET S : SumFunctionOnSet(f, Made(h, U)) = SumFunctionOnSet(g, U)}
<1>1. {} \in Good
  <2>1. Made(h, {}) = {}
    BY DEF Made
  <2>. QED BY <2>1, SumOfNone
<1>2. ASSUME NEW U \in SUBSET S, NEW x \in U, U \ {x} \in Good
      PROVE  U \in Good
  <2>1. IsFiniteSet(U) /\ IsFiniteSet(U \ {x})
    BY FS_Subset
  <2>2. SumFunctionOnSet(g, U) = g[x] + SumFunctionOnSet(g, U \ {x})
    BY <2>1, SumRemove
  <2>. DEFINE Rest == Made(h, U \ {x})
  <2>3. Made(h, U) = Rest \cup {h[x]}
    BY DEF Made
  <2>3a. IsFiniteSet(Rest)
    BY <2>1, MadeIsFinite
  <2>4. h[x] \notin Rest
    BY DEF Made
  <2>4a. \A y \in Rest \cup {h[x]} : f[y] \in Int
    <3>1. \A y \in Rest : \E z \in S : y = h[z]
      BY DEF Made
    <3>. QED BY <3>1
  <2>5. SumFunctionOnSet(f, Rest) = SumFunctionOnSet(g, U \ {x})
    BY <1>2
  <2>. HIDE DEF Rest
  <2>6. SumFunctionOnSet(f, Rest \cup {h[x]}) = f[h[x]] + SumFunctionOnSet(f, Rest)
    BY <2>3a, <2>4, <2>4a, SumAdd
  <2>. QED BY <2>2, <2>3, <2>5, <2>6
<1>. HIDE DEF Good
<1>3. S \in Good
  BY <1>1, <1>2, Building
<1>. QED BY <1>3 DEF Good

(* The elements of a set that have one key. *)
RowOf(S, key, r) == {x \in S : key[x] = r}

(* Summed by rows, whatever the rows are, it is the same. *)
LEMMA SumByRows ==
  ASSUME NEW S, IsFiniteSet(S), NEW f, \A x \in S : f[x] \in Int, NEW key,
         NEW Rows, IsFiniteSet(Rows), \A x \in S : key[x] \in Rows, NEW row,
         \A r \in Rows : row[r] = SumFunctionOnSet(f, RowOf(S, key, r))
  PROVE  SumFunctionOnSet(row, Rows) = SumFunctionOnSet(f, S)
<1>. DEFINE In(U) == {x \in S : key[x] \in U}
            Good == {U \in SUBSET Rows : SumFunctionOnSet(row, U) = SumFunctionOnSet(f, In(U))}
<1>1. {} \in Good
  <2>1. In({}) = {}
    OBVIOUS
  <2>. QED BY <2>1, SumOfNone
<1>2. \A r \in Rows : row[r] \in Int
  <2>. TAKE r \in Rows
  <2>. DEFINE Own == RowOf(S, key, r)
  <2>1. Own \in SUBSET S
    BY DEF RowOf
  <2>. HIDE DEF Own
  <2>2. SumFunctionOnSet(f, Own) \in Int
    BY <2>1, FS_Subset, SumType
  <2>. QED BY <2>2 DEF Own
<1>3. ASSUME NEW U \in SUBSET Rows, NEW r \in U, U \ {r} \in Good
      PROVE  U \in Good
  <2>. DEFINE Own == RowOf(S, key, r)
  <2>1. IsFiniteSet(U) /\ IsFiniteSet(Own) /\ IsFiniteSet(In(U \ {r}))
    <3>1. Own \in SUBSET S /\ In(U \ {r}) \in SUBSET S
      BY DEF RowOf
    <3>. HIDE DEF Own, In
    <3>. QED BY <3>1, FS_Subset
  <2>2. SumFunctionOnSet(row, U) = row[r] + SumFunctionOnSet(row, U \ {r})
    BY <1>2, <2>1, SumRemove
  <2>3. In(U) = Own \cup In(U \ {r}) /\ Own \cap In(U \ {r}) = {}
    BY DEF RowOf
  <2>4. \A x \in Own \cup In(U \ {r}) : f[x] \in Int
    BY DEF RowOf
  <2>5. /\ SumFunctionOnSet(row, U \ {r}) = SumFunctionOnSet(f, In(U \ {r}))
        /\ row[r] = SumFunctionOnSet(f, Own)
    BY <1>3
  <2>. DEFINE Rest == In(U \ {r})
  <2>. HIDE DEF In, Own, Rest
  <2>6. SumFunctionOnSet(f, Own \cup Rest) = SumFunctionOnSet(f, Own) + SumFunctionOnSet(f, Rest)
    BY <2>1, <2>3, <2>4, SumUnion DEF Rest
  <2>. QED BY <2>2, <2>3, <2>5, <2>6 DEF Rest
<1>4. In(Rows) = S
  OBVIOUS
<1>. HIDE DEF Good, In
<1>5. Rows \in Good
  BY <1>1, <1>3, Building
<1>. QED BY <1>4, <1>5 DEF Good

-----------------------------------------------------------------------------
(* Figures (T, of Terms): the arithmetic of a contract, for every number.  *)
(* What is summed over a schedule is left to TLC.                          *)

LEMMA ProductGrows ==
  ASSUME NEW a \in Int, NEW b \in Int, NEW r \in Int, a <= b, r >= 0
  PROVE  a * r \in Int /\ a * r <= b * r
BY Z3

(* Kilometres cost nothing until the allowance is driven and never less    *)
(* for driving further, at any rate and with or without an allowance.      *)
THEOREM MilesFair ==
  ASSUME NEW out \in Int, NEW back \in Int, NEW allowance \in Nat \cup {NoLimit}, NEW rate \in Int
  PROVE  MilesAreFair(out, back, allowance, rate)
<1>. DEFINE Fee(km) == ExcessMileage(out, km, allowance, rate)
<1>1. ASSUME NEW km \in Int
      PROVE  /\ Fee(km) >= 0 /\ Fee(km) \in Int
             /\ km <= out => Fee(km) = 0
  <2>. DEFINE over == km - out - allowance
  <2>1. rate > 0 /\ over > 0 => over * rate \in Int /\ over * rate >= 0 * rate
    BY ProductGrows DEF NoLimit
  <2>. QED BY <2>1 DEF ExcessMileage, NoLimit
<1>2. ASSUME NEW km \in out..back
      PROVE  Fee(km) <= Fee(back)
  <2>. DEFINE over == km - out - allowance
              most == back - out - allowance
  <2>1. rate > 0 => over * rate <= most * rate
    BY ProductGrows DEF NoLimit
  <2>2. CASE allowance = NoLimit \/ rate <= 0 \/ over <= 0
    BY <1>1, <2>2 DEF ExcessMileage
  <2>3. CASE ~(allowance = NoLimit \/ rate <= 0 \/ over <= 0)
    BY <2>1, <2>3 DEF ExcessMileage, NoLimit
  <2>. QED BY <2>2, <2>3
<1>. QED BY <1>1, <1>2 DEF MilesAreFair

(* A service announced stays announced as days pass, and no car goes from  *)
(* nothing due to overdue in a day and a kilometre, whatever its markers.  *)
THEOREM ServiceForetold ==
  ASSUME NEW markers \in [day : Nat \cup {NoLimit}, km : Nat \cup {NoLimit}],
         NEW today \in Int, NEW odometer \in Int
  PROVE  ServiceIsForetold(markers, today, odometer)
BY DEF ServiceIsForetold, ServiceDue, Grade, NoLimit

LEMMA Divided ==
  ASSUME NEW n \in Nat, NEW d \in Nat \ {0}
  PROVE  /\ n \div d \in Nat /\ n % d \in 0..(d - 1)
         /\ n = d * (n \div d) + (n % d)
<1>1. n \div d \in Int /\ n \div d >= 0
  OBVIOUS
<1>2. n % d \in 0..(d - 1)
  OBVIOUS
<1>3. n = d * (n \div d) + (n % d)
  OBVIOUS
<1>. QED BY <1>1, <1>2, <1>3

(* Rounding halves up: the magnitude of a quotient, and its sign. *)
LEMMA HalfUp ==
  ASSUME NEW n \in Int, NEW d \in Nat \ {0}
  PROVE  \E m \in Nat :
           /\ DivideRound(n, d, "HALF_UP") = IF n < 0 THEN -m ELSE m
           /\ DivideRound(-n, d, "HALF_UP") = IF -n < 0 THEN -m ELSE m
           /\ 2 * (d * m - Magnitude(n)) \in (1 - d)..d
           /\ n = 0 => m = 0
<1>. DEFINE N == Magnitude(n)
            q == N \div d
            r == N % d
            m == IF 2 * r >= d THEN q + 1 ELSE q
<1>1. N \in Nat /\ Magnitude(-n) = N /\ Magnitude(d) = d
  BY DEF Magnitude
<1>2. q \in Nat /\ r \in 0..(d - 1) /\ N = d * q + r
  BY <1>1, Divided
<1>3. d * (q + 1) = d * q + d /\ d * q \in Int
  BY <1>2
<1>4. m \in Nat
  BY <1>2
<1>5. 2 * (d * m - N) \in (1 - d)..d
  <2>1. CASE 2 * r >= d
    <3>1. d * m - N = d - r
      BY <1>1, <1>2, <1>3, <2>1
    <3>. QED BY <1>2, <2>1, <3>1
  <2>2. CASE 2 * r < d
    <3>1. d * m - N = -r
      BY <1>1, <1>2, <1>3, <2>2
    <3>. QED BY <1>2, <2>2, <3>1
  <2>. QED BY <1>2, <2>1, <2>2
<1>6. n = 0 => m = 0
  <2>1. n = 0 => N = 0
    BY DEF Magnitude
  <2>2. N = 0 => q = 0 /\ r = 0
    BY <1>2
  <2>. QED BY <1>2, <2>1, <2>2
<1>7. ASSUME NEW x \in Int, Magnitude(x) = N
      PROVE  DivideRound(x, d, "HALF_UP") = IF x < 0 THEN -m ELSE m
  <2>1. /\ Magnitude(x) \div Magnitude(d) = q /\ Magnitude(x) % Magnitude(d) = r
        /\ (x < 0) # (d < 0) <=> x < 0
    BY <1>1, <1>7
  <2>. HIDE DEF q, r, N
  <2>2. CASE r = 0
    <3>1. ~(2 * r >= d)
      BY <2>2
    <3>2. (CASE r = 0 -> FALSE
             [] "HALF_UP" = "DOWN" -> FALSE
             [] "HALF_UP" = "UP" -> TRUE
             [] "HALF_UP" = "HALF_UP" -> 2 * r >= d
             [] OTHER -> 2 * r > d \/ (2 * r = d /\ q % 2 # 0)) = FALSE
      BY <2>2, <3>1
    <3>. QED BY <1>1, <2>1, <3>1, <3>2, Zenon DEF DivideRound
  <2>3. CASE r # 0 /\ 2 * r >= d
    BY <1>1, <2>1, <2>3, Zenon DEF DivideRound
  <2>4. CASE r # 0 /\ ~(2 * r >= d)
    BY <1>1, <2>1, <2>4, Zenon DEF DivideRound
  <2>. QED BY <2>2, <2>3, <2>4
<1>8. /\ DivideRound(n, d, "HALF_UP") = IF n < 0 THEN -m ELSE m
      /\ DivideRound(-n, d, "HALF_UP") = IF -n < 0 THEN -m ELSE m
  <2>. HIDE DEF m
  <2>. QED BY <1>1, <1>7
<1>. HIDE DEF m, q, r, N
<1>. QED BY <1>4, <1>5, <1>6, <1>8 DEF N

(* So a quotient is the nearest there is. *)
LEMMA Nearest ==
  ASSUME NEW n \in Int, NEW d \in Nat \ {0}
  PROVE  /\ DivideRound(n, d, "HALF_UP") \in Int
         /\ 2 * (d * DivideRound(n, d, "HALF_UP") - n) <= d
         /\ 2 * (n - d * DivideRound(n, d, "HALF_UP")) <= d
<1>. DEFINE q == DivideRound(n, d, "HALF_UP")
<1>1. PICK m \in Nat :
        /\ q = IF n < 0 THEN -m ELSE m
        /\ 2 * (d * m - Magnitude(n)) \in (1 - d)..d
  BY HalfUp
<1>2. /\ d * (-m) = -(d * m) /\ d * m \in Int
  OBVIOUS
<1>. HIDE DEF q
<1>3. CASE n < 0
  BY <1>1, <1>2, <1>3 DEF Magnitude, q
<1>4. CASE ~(n < 0)
  BY <1>1, <1>2, <1>4 DEF Magnitude, q
<1>. QED BY <1>3, <1>4

(* VAT of five per cent: the net found in a gross, and the VAT on it. *)
LEMMA VatComesBack ==
  ASSUME NEW n \in Int
  PROVE  Magnitude(NetFromGross(n, 500) + VatOn(NetFromGross(n, 500), 500) - n) <= 1
<1>. DEFINE net == NetFromGross(n, 500)
            vat == VatOn(net, 500)
<1>1. net = DivideRound(n * 10000, 10500, "HALF_UP") /\ n * 10000 \in Int
  BY DEF NetFromGross
<1>2. /\ net \in Int
      /\ 2 * (10500 * net - n * 10000) <= 10500
      /\ 2 * (n * 10000 - 10500 * net) <= 10500
  <2>. HIDE DEF net
  <2>1. 10500 \in Nat \ {0}
    OBVIOUS
  <2>. QED BY <1>1, <2>1, Nearest
<1>3. vat = DivideRound(net * 500, 10000, "HALF_UP") /\ net * 500 \in Int
  BY <1>2 DEF VatOn
<1>4. /\ vat \in Int
      /\ 2 * (10000 * vat - net * 500) <= 10000
      /\ 2 * (net * 500 - 10000 * vat) <= 10000
  <2>. HIDE DEF net, vat
  <2>1. 10000 \in Nat \ {0}
    OBVIOUS
  <2>. QED BY <1>3, <2>1, Nearest
<1>. HIDE DEF net, vat
<1>5. net + vat - n <= 1 /\ n - net - vat <= 1
  BY <1>2, <1>4
<1>6. Magnitude(net + vat - n) <= 1
  BY <1>2, <1>4, <1>5 DEF Magnitude
<1>. QED BY <1>6 DEF net, vat

(* Every amount, over every divisor, is rounded to the nearest, halves     *)
(* away from zero and alike for what is owed and what is owed back; and    *)
(* VAT taken out of a gross and put back is at most a fil out.             *)
THEOREM RoundingFair ==
  ASSUME NEW n \in Int, NEW d \in Nat \ {0}
  PROVE  RoundingIsFair(n, d)
<1>. DEFINE q == DivideRound(n, d, "HALF_UP")
<1>1. PICK m \in Nat :
        /\ q = IF n < 0 THEN -m ELSE m
        /\ DivideRound(-n, d, "HALF_UP") = IF -n < 0 THEN -m ELSE m
        /\ 2 * (d * m - Magnitude(n)) \in (1 - d)..d
        /\ n = 0 => m = 0
  BY HalfUp
<1>2. /\ m * d = d * m /\ (-m) * d = -(d * m) /\ d * m \in Nat
  OBVIOUS
<1>3. Magnitude(q) = m
  BY <1>1 DEF Magnitude
<1>4. 2 * Magnitude(q * d - n) = 2 * Magnitude(d * m - Magnitude(n))
  <2>. HIDE DEF q
  <2>1. CASE n < 0
    <3>1. q * d - n = -(d * m - Magnitude(n))
      BY <1>1, <1>2, <2>1 DEF Magnitude
    <3>. QED BY <1>2, <3>1 DEF Magnitude
  <2>2. CASE ~(n < 0)
    <3>1. q * d - n = d * m - Magnitude(n)
      BY <1>1, <1>2, <2>2 DEF Magnitude
    <3>. QED BY <3>1
  <2>. QED BY <2>1, <2>2
<1>5. /\ 2 * Magnitude(q * d - n) <= d
      /\ 2 * Magnitude(q * d - n) = d => Magnitude(q) * d > Magnitude(n)
  <2>. DEFINE N == Magnitude(n)
              off == d * m - N
  <2>1. N \in Nat /\ off \in Int
    BY <1>2 DEF Magnitude
  <2>2. /\ 2 * Magnitude(off) <= d
        /\ 2 * Magnitude(off) = d => off > 0
    BY <1>1, <2>1 DEF Magnitude
  <2>. QED BY <1>2, <1>3, <1>4, <2>1, <2>2
<1>6. DivideRound(-n, d, "HALF_UP") = -q
  BY <1>1
<1>. QED BY <1>5, <1>6, VatComesBack DEF RoundingIsFair

-----------------------------------------------------------------------------
(* The calendar. *)

Date == {d \in Int \X (1..12) \X (1..31) : d[3] <= DaysInMonth(d[1], d[2])}

Index(d) == 12 * d[1] + d[2]

LEMMA MonthLengths ==
  ASSUME NEW year \in Int, NEW month \in 1..12
  PROVE  DaysInMonth(year, month) \in 28..31
BY DEF DaysInMonth

(* Some months on is a date of that month, on the same day or its last. *)
LEMMA MonthsOn ==
  ASSUME NEW start \in Date, NEW months \in Int
  PROVE  LET date == AddMonths(start, months) IN
         /\ date \in Date
         /\ Index(date) = Index(start) + months
         /\ date[3] <= start[3]
         /\ date[3] = start[3] \/ date[3] = DaysInMonth(date[1], date[2])
<1>. DEFINE index == start[1] * 12 + (start[2] - 1) + months
            year == index \div 12
            month == (index % 12) + 1
            last == DaysInMonth(year, month)
            day == IF start[3] < last THEN start[3] ELSE last
<1>1. /\ start[1] \in Int /\ start[2] \in 1..12 /\ start[3] \in 1..31
      /\ start[3] <= DaysInMonth(start[1], start[2])
  BY DEF Date
<1>2. index \in Int
  BY <1>1
<1>3. year \in Int /\ month \in 1..12 /\ 12 * year + month = index + 1
  <2>. HIDE DEF index
  <2>. QED BY <1>2
<1>4. last \in 28..31
  BY <1>3, MonthLengths
<1>5. AddMonths(start, months) = <<year, month, day>>
  BY DEF AddMonths
<1>6. 12 * year + month = Index(start) + months
  BY <1>1, <1>3 DEF Index
<1>. HIDE DEF index, year, month, last
<1>7. day \in 1..31 /\ day <= last /\ day <= start[3] /\ (day = start[3] \/ day = last)
  BY <1>1, <1>4
<1>8. <<year, month, day>> \in Date
  BY <1>3, <1>7 DEF Date, last
<1>. QED BY <1>5, <1>6, <1>7, <1>8 DEF Index, last

LEMMA NoMonthsOn ==
  ASSUME NEW start \in Date
  PROVE  AddMonths(start, 0) = start
<1>. DEFINE index == start[1] * 12 + (start[2] - 1) + 0
<1>1. /\ start[1] \in Int /\ start[2] \in 1..12 /\ start[3] \in 1..31
      /\ start[3] <= DaysInMonth(start[1], start[2])
      /\ start = <<start[1], start[2], start[3]>>
  BY DEF Date
<1>2. index \div 12 = start[1] /\ (index % 12) + 1 = start[2]
  BY <1>1
<1>3. DaysInMonth(start[1], start[2]) \in 28..31
  BY <1>1, MonthLengths
<1>. QED BY <1>1, <1>2, <1>3 DEF AddMonths

(* The day before is of the same month, or the last of the month before. *)
LEMMA DaysBefore ==
  ASSUME NEW date \in Date
  PROVE  LET before == DayBefore(date) IN
         /\ before \in Date
         /\ \/ date[3] > 1 /\ Index(before) = Index(date) /\ before[3] = date[3] - 1
            \/ date[3] = 1 /\ Index(before) = Index(date) - 1 /\ before[3] >= 28
<1>1. /\ date[1] \in Int /\ date[2] \in 1..12 /\ date[3] \in 1..31
      /\ date[3] <= DaysInMonth(date[1], date[2])
  BY DEF Date
<1>2. CASE date[3] > 1
  <2>1. DayBefore(date) = <<date[1], date[2], date[3] - 1>>
    BY <1>2 DEF DayBefore
  <2>2. DaysInMonth(date[1], date[2]) \in 28..31
    BY <1>1, MonthLengths
  <2>3. date[3] - 1 \in 1..31 /\ date[3] - 1 <= DaysInMonth(date[1], date[2])
    BY <1>1, <1>2, <2>2
  <2>. QED BY <1>1, <1>2, <2>1, <2>3 DEF Date, Index
<1>3. CASE ~(date[3] > 1)
  <2>. DEFINE first == <<date[1], date[2], 1>>
              month == AddMonths(first, -1)
              last == DaysInMonth(month[1], month[2])
  <2>1. DaysInMonth(date[1], date[2]) \in 28..31
    BY <1>1, MonthLengths
  <2>2. first \in Date /\ Index(first) = Index(date)
    BY <1>1, <2>1 DEF Date, Index
  <2>3. month \in Date /\ Index(month) = Index(first) + (-1)
    <3>. HIDE DEF first
    <3>. QED BY <2>2, MonthsOn
  <2>4. DayBefore(date) = <<month[1], month[2], last>>
    BY <1>3 DEF DayBefore
  <2>. HIDE DEF month
  <2>5. month[1] \in Int /\ month[2] \in 1..12
    BY <2>3 DEF Date
  <2>6. last \in 28..31
    BY <2>5, MonthLengths
  <2>7. Index(month) = 12 * month[1] + month[2] /\ Index(date) \in Int
    BY <1>1 DEF Index
  <2>8. <<month[1], month[2], last>> \in Date
    BY <2>5, <2>6 DEF Date
  <2>9. Index(DayBefore(date)) = Index(date) - 1
    BY <2>2, <2>3, <2>4, <2>7 DEF Index
  <2>. QED BY <1>1, <1>3, <2>4, <2>6, <2>8, <2>9
<1>. QED BY <1>2, <1>3

(* An earlier date is of an earlier month, or an earlier day of its own. *)
LEMMA EarlierIs ==
  ASSUME NEW a \in Date, NEW b \in Date
  PROVE  Earlier(a, b) <=> Index(a) < Index(b) \/ (Index(a) = Index(b) /\ a[3] < b[3])
<1>1. /\ a[1] \in Int /\ a[2] \in 1..12 /\ a[3] \in 1..31
      /\ b[1] \in Int /\ b[2] \in 1..12 /\ b[3] \in 1..31
  BY DEF Date
<1>. QED BY <1>1 DEF Earlier, Index

(* A period that begins some months on has a day at least before the next begins. *)
LEMMA PeriodsInOrder ==
  ASSUME NEW start \in Date, NEW k \in Int, NEW l \in Int, l > k
  PROVE  ~Earlier(DayBefore(AddMonths(start, l)), AddMonths(start, k))
<1>. DEFINE from == AddMonths(start, k)
            next == AddMonths(start, l)
            to == DayBefore(next)
<1>1. /\ from \in Date /\ Index(from) = Index(start) + k
      /\ from[3] <= start[3]
  BY MonthsOn
<1>2. /\ next \in Date /\ Index(next) = Index(start) + l
      /\ next[3] = start[3] \/ next[3] = DaysInMonth(next[1], next[2])
  BY MonthsOn
<1>. HIDE DEF from, next
<1>3. /\ to \in Date
      /\ \/ next[3] > 1 /\ Index(to) = Index(next) /\ to[3] = next[3] - 1
         \/ next[3] = 1 /\ Index(to) = Index(next) - 1 /\ to[3] >= 28
  BY <1>2, DaysBefore
<1>4. /\ start[3] \in 1..31 /\ from[3] \in 1..31 /\ to[3] \in 1..31
      /\ next[1] \in Int /\ next[2] \in 1..12 /\ Index(start) \in Int
  BY <1>1, <1>2, <1>3 DEF Date, Index
<1>5. DaysInMonth(next[1], next[2]) \in 28..31
  BY <1>4, MonthLengths
<1>. HIDE DEF to
<1>6. ~Earlier(to, from)
  BY <1>1, <1>2, <1>3, <1>4, <1>5, EarlierIs
<1>. QED BY <1>6 DEF from, next, to

-----------------------------------------------------------------------------
(* The schedule. *)

(* Terms as they are signed: VAT is five per cent. *)
Sheets ==
  [of : {"schedule"}, start : Date, months : Nat \ {0}, rental : Nat, insurance : Nat,
   downPayment : Nat, buyout : Nat, vat : {500}]

Instalment(key, i, from, to, net) ==
  [key |-> key, sequence |-> i, from |-> from, to |-> to, due |-> from,
   net |-> net, vat |-> VatOn(net, 500), gross |-> net + VatOn(net, 500)]

Charge(key, recurrence, amount, startsOn, occurrences) ==
  [key |-> key, recurrence |-> recurrence, amount |-> amount, startsOn |-> startsOn,
   occurrences |-> occurrences]

LEMMA MonthlyItems ==
  ASSUME NEW start, NEW amount, NEW months
  PROVE  ExpandCharge(Charge("rental", "MONTHLY", amount, start, months), months, 500)
           = {Instalment("rental", i, AddMonths(start, 1 * (i - 1)),
                DayBefore(AddMonths(start, 1 * (i - 1) + 1)), amount) : i \in 1..months}
BY DEF ExpandCharge, Charge, Instalment

LEMMA AnnualItems ==
  ASSUME NEW start, NEW amount, NEW months, NEW years
  PROVE  ExpandCharge(Charge("insurance", "ANNUAL", amount, start, years), months, 500)
           = {Instalment("insurance", i, AddMonths(start, 12 * (i - 1)),
                DayBefore(AddMonths(start, 12 * (i - 1) + MonthsCovered(i, months))),
                IF MonthsCovered(i, months) = 12 THEN amount
                ELSE AnnualOverMonths(amount, MonthsCovered(i, months))) : i \in 1..years}
BY DEF ExpandCharge, Charge, Instalment

LEMMA OnceItems ==
  ASSUME NEW key, NEW start, NEW amount, NEW months
  PROVE  ExpandCharge(Charge(key, "ONCE", amount, start, 1), months, 500)
           = {Instalment(key, 1, start, start, amount)}
BY DEF ExpandCharge, Charge, Instalment

Years(terms) == (terms.months + 11) \div 12

(* A contract's rental is its months and its insurance its years. *)
LEMMA Scheduled ==
  ASSUME NEW terms \in Sheets
  PROVE  /\ {x \in BuildSchedule(terms) : x.key = "rental"}
             = {Instalment("rental", i, AddMonths(terms.start, i - 1),
                  DayBefore(AddMonths(terms.start, i)), terms.rental) : i \in 1..terms.months}
         /\ {x \in BuildSchedule(terms) : x.key = "insurance"} # {} =>
             {x \in BuildSchedule(terms) : x.key = "insurance"}
             = {Instalment("insurance", i, AddMonths(terms.start, 12 * (i - 1)),
                  DayBefore(AddMonths(terms.start, 12 * (i - 1) + MonthsCovered(i, terms.months))),
                  IF MonthsCovered(i, terms.months) = 12 THEN terms.insurance
                  ELSE AnnualOverMonths(terms.insurance, MonthsCovered(i, terms.months))) :
                 i \in 1..Years(terms)}
<1>. DEFINE rental == Charge("rental", "MONTHLY", terms.rental, terms.start, terms.months)
            down == Charge("down-payment", "ONCE", terms.downPayment, terms.start, 1)
            insurance == Charge("insurance", "ANNUAL", terms.insurance, terms.start, Years(terms))
            buyout == Charge("buyout", "ONCE", terms.buyout,
                             ContractEndDate(terms.start, terms.months), 1)
            Items(c) == ExpandCharge(c, terms.months, 500)
            Of(key) == {x \in BuildSchedule(terms) : x.key = key}
<1>1. /\ ChargesFor(terms) \subseteq {rental, down, insurance, buyout}
      /\ rental \in ChargesFor(terms)
  BY DEF ChargesFor, Charge, Years
<1>2. BuildSchedule(terms) = UNION {Items(c) : c \in ChargesFor(terms)}
  BY DEF BuildSchedule, Sheets
<1>3. \A x \in Items(rental) : x.key = "rental"
  BY MonthlyItems DEF Instalment
<1>4. \A x \in Items(insurance) : x.key = "insurance"
  BY AnnualItems DEF Instalment
<1>5. /\ \A x \in Items(down) : x.key = "down-payment"
      /\ \A x \in Items(buyout) : x.key = "buyout"
  BY OnceItems DEF Instalment
<1>6. Items(rental)
        = {Instalment("rental", i, AddMonths(terms.start, i - 1),
             DayBefore(AddMonths(terms.start, i)), terms.rental) : i \in 1..terms.months}
  <2>1. \A i \in 1..terms.months : 1 * (i - 1) = i - 1 /\ 1 * (i - 1) + 1 = i
    BY DEF Sheets
  <2>. QED BY <2>1, MonthlyItems
<1>. HIDE DEF rental, down, insurance, buyout, Items
<1>7. Of("rental") = Items(rental)
  BY <1>1, <1>2, <1>3, <1>4, <1>5
<1>8. Of("insurance") # {} => Of("insurance") = Items(insurance)
  BY <1>1, <1>2, <1>3, <1>4, <1>5
<1>. QED BY <1>6, <1>7, <1>8, AnnualItems DEF insurance, Items

(* Five per cent of the month's rental, invoiced as it was quoted. *)
LEMMA QuotedVat ==
  ASSUME NEW n \in Nat
  PROVE  VatOn(n, 500) = DivideRound(n * 5, 100, "HALF_UP")
<1>1. /\ (n * 500) \div 10000 = (n * 5) \div 100
      /\ (n * 500) % 10000 = 100 * ((n * 5) % 100)
  OBVIOUS
<1>2. (n * 5) \div 100 \in Nat /\ (n * 5) % 100 \in Nat
  OBVIOUS
<1>3. ~(n * 500 < 0) /\ ~(n * 5 < 0) /\ ~(10000 < 0) /\ ~(100 < 0)
  OBVIOUS
<1>. QED BY <1>1, <1>2, <1>3 DEF VatOn, DivideRound, Magnitude

LEMMA Quoted ==
  ASSUME NEW terms \in Sheets
  PROVE  DealOf(terms).rentalWithVat = terms.rental + VatOn(terms.rental, 500)
<1>1. terms.rental \in Nat /\ "rental" \in DOMAIN terms
  BY DEF Sheets
<1>2. DealOf(terms).rentalWithVat = terms.rental + DivideRound(terms.rental * 5, 100, "HALF_UP")
  BY <1>1 DEF DealOf, CalculateDeal, MoneyFields
<1>. QED BY <1>1, <1>2, QuotedVat

(* Whatever day a contract begins, for however many months and whatever    *)
(* amounts: it is invoiced every month for what the customer was quoted,   *)
(* its rental and its insurance cover it to the day, with no gap and no    *)
(* overlap, and its supplier is owed for the same months, the day the      *)
(* rental falls due: the start's day of the month, or the month's last.    *)
THEOREM MonthsAsDealt ==
  ASSUME NEW terms \in Sheets
  PROVE  MonthsAreTheDeal(terms)
<1>. DEFINE start == terms.start
            months == terms.months
            Of(key) == {x \in BuildSchedule(terms) : x.key = key}
            Month(i) == Instalment("rental", i, AddMonths(start, i - 1),
                          DayBefore(AddMonths(start, i)), terms.rental)
            On(i) == 12 * (i - 1)
            Off(i) == On(i) + MonthsCovered(i, months)
            Year(i) == Instalment("insurance", i, AddMonths(start, On(i)),
                         DayBefore(AddMonths(start, Off(i))),
                         IF MonthsCovered(i, months) = 12 THEN terms.insurance
                         ELSE AnnualOverMonths(terms.insurance, MonthsCovered(i, months)))
<1>1. start \in Date /\ months \in Nat \ {0}
  BY DEF Sheets
<1>2. /\ Of("rental") = {Month(i) : i \in 1..months}
      /\ Of("insurance") # {} => Of("insurance") = {Year(i) : i \in 1..Years(terms)}
  BY Scheduled
<1>3. /\ Month(1).from = start
      /\ Month(months).to = ContractEndDate(start, months)
      /\ \A i \in 1..months :
           /\ Month(i).sequence = i
           /\ Month(i).gross = DealOf(terms).rentalWithVat
           /\ ~Earlier(Month(i).to, Month(i).from)
           /\ \A j \in 1..months : j = i + 1 => DayBefore(Month(j).from) = Month(i).to
  <2>1. Month(1).from = start
    BY <1>1, NoMonthsOn, 1 - 1 = 0 DEF Instalment
  <2>2. \A i \in 1..months : ~Earlier(Month(i).to, Month(i).from)
    BY <1>1, PeriodsInOrder DEF Instalment
  <2>3. \A i \in 1..months : Month(i).gross = DealOf(terms).rentalWithVat
    BY Quoted DEF Instalment
  <2>4. \A i, j \in 1..months : j = i + 1 => DayBefore(Month(j).from) = Month(i).to
    <3>1. \A i, j \in 1..months : j = i + 1 => j - 1 = i
      BY <1>1
    <3>. QED BY <3>1 DEF Instalment
  <2>5. /\ Month(months).to = ContractEndDate(start, months)
        /\ \A i \in 1..months : Month(i).sequence = i
    BY DEF Instalment, ContractEndDate
  <2>. QED BY <2>1, <2>2, <2>3, <2>4, <2>5
<1>4. /\ 1 \in 1..Years(terms) /\ Years(terms) \in 1..Years(terms)
      /\ On(1) = 0 /\ Off(Years(terms)) = months
      /\ \A i \in 1..Years(terms) :
           /\ On(i) \in Int /\ Off(i) \in Int /\ On(i) < Off(i)
           /\ \A j \in 1..Years(terms) : j = i + 1 => On(j) = Off(i)
  BY <1>1 DEF Years, MonthsCovered
<1>. HIDE DEF On, Off
<1>5. /\ Year(1).from = start
      /\ Year(Years(terms)).to = ContractEndDate(start, months)
      /\ \A i \in 1..Years(terms) :
           /\ Year(i).sequence = i
           /\ ~Earlier(Year(i).to, Year(i).from)
           /\ \A j \in 1..Years(terms) : j = i + 1 => DayBefore(Year(j).from) = Year(i).to
  <2>1. Year(1).from = start
    BY <1>1, <1>4, NoMonthsOn DEF Instalment
  <2>2. \A i \in 1..Years(terms) : ~Earlier(Year(i).to, Year(i).from)
    BY <1>1, <1>4, PeriodsInOrder DEF Instalment
  <2>3. \A i, j \in 1..Years(terms) : j = i + 1 => DayBefore(Year(j).from) = Year(i).to
    BY <1>4 DEF Instalment
  <2>4. /\ Year(Years(terms)).to = ContractEndDate(start, months)
        /\ \A i \in 1..Years(terms) : Year(i).sequence = i
    BY <1>4 DEF Instalment, ContractEndDate
  <2>. QED BY <2>1, <2>2, <2>3, <2>4
<1>. DEFINE Dates(x) == <<x.sequence, x.from, x.to, x.due>>
            OwedFor(i) == [sequence |-> i, from |-> AddMonths(start, i - 1),
                        to |-> DayBefore(AddMonths(start, i)),
                        due |-> AddMonths(start, i - 1), net |-> 1]
<1>6. \A i \in 1..months :
        /\ Dates(Month(i)) = Dates(OwedFor(i))
        /\ \/ Month(i).due[3] = start[3]
           \/ Month(i).due[3] = DaysInMonth(Month(i).due[1], Month(i).due[2])
  <2>. TAKE i \in 1..months
  <2>1. Month(i).due = AddMonths(start, i - 1) /\ Dates(Month(i)) = Dates(OwedFor(i))
    BY DEF Instalment
  <2>2. i - 1 \in Int
    BY <1>1
  <2>. HIDE DEF Month, OwedFor, Dates
  <2>. QED BY <1>1, <2>1, <2>2, MonthsOn
<1>7. {Dates(x) : x \in SupplierSchedule(start, months, 1)} = {Dates(x) : x \in Of("rental")}
  <2>1. SupplierSchedule(start, months, 1) = {OwedFor(i) : i \in 1..months}
    BY DEF SupplierSchedule
  <2>. HIDE DEF Month, Of, OwedFor, Dates
  <2>. QED BY <1>2, <1>6, <2>1
<1>. HIDE DEF Month, Year
<1>8. CoversContract(Of("rental"), terms)
  BY <1>1, <1>2, <1>3 DEF CoversContract
<1>9. Of("insurance") # {} => CoversContract(Of("insurance"), terms)
  BY <1>2, <1>4, <1>5 DEF CoversContract
<1>. QED BY <1>2, <1>3, <1>6, <1>7, <1>8, <1>9 DEF MonthsAreTheDeal

-----------------------------------------------------------------------------
(* The books: sums over ledger entries. *)

(* A ledger: whole amounts, and categories on the side they are named for. *)
IsLedger(ledger) ==
  /\ IsFiniteSet(ledger)
  /\ \A e \in ledger :
       /\ e.amount \in Int
       /\ e.direction \in {"REVENUE", "COST"}
       /\ e.category \in {"revenue.rental", "revenue.insurance"} => e.direction = "REVENUE"
       /\ e.category = "cost.supplier" => e.direction = "COST"

(* What is booked in a part of a ledger is the sum of its amounts there.   *)
LEMMA BookedWithin ==
  ASSUME NEW S, IsFiniteSet(S), \A e \in S : e.amount \in Int, NEW U \in SUBSET S
  PROVE  Booked(U) = SumFunctionOnSet([e \in S |-> e.amount], U) /\ Booked(U) \in Int
<1>1. IsFiniteSet(U)
  BY FS_Subset
<1>2. SumFunctionOnSet([e \in U |-> e.amount], U) = SumFunctionOnSet([e \in S |-> e.amount], U)
  BY <1>1, SumSame
<1>3. SumFunctionOnSet([e \in U |-> e.amount], U) \in Int
  BY <1>1, SumType
<1>4. Booked(U) = SumFunctionOnSet([e \in U |-> e.amount], U)
  BY DEF Booked, SumFunction
<1>. QED BY <1>2, <1>3, <1>4

LEMMA BookedApart ==
  ASSUME NEW S, IsFiniteSet(S), \A e \in S : e.amount \in Int, NEW U \in SUBSET S
  PROVE  /\ Booked(S) = Booked(U) + Booked(S \ U)
         /\ Booked(S) \in Int /\ Booked(U) \in Int /\ Booked(S \ U) \in Int
<1>. DEFINE V == S \ U
            f == [e \in S |-> e.amount]
<1>1. U \in SUBSET S /\ V \in SUBSET S /\ S \in SUBSET S /\ U \cup V = S /\ U \cap V = {}
  OBVIOUS
<1>2. IsFiniteSet(U) /\ IsFiniteSet(V) /\ \A e \in U \cup V : f[e] \in Int
  BY <1>1, FS_Subset
<1>3. /\ Booked(U) = SumFunctionOnSet(f, U) /\ Booked(U) \in Int
      /\ Booked(V) = SumFunctionOnSet(f, V) /\ Booked(V) \in Int
      /\ Booked(S) = SumFunctionOnSet(f, S) /\ Booked(S) \in Int
  BY <1>1, BookedWithin
<1>. HIDE DEF f, V
<1>4. SumFunctionOnSet(f, U \cup V) = SumFunctionOnSet(f, U) + SumFunctionOnSet(f, V)
  BY <1>1, <1>2, SumUnion
<1>. QED BY <1>1, <1>3, <1>4 DEF V

(* The rows of a report, of whatever part of it, add up to that part. *)
LEMMA BookedByRows ==
  ASSUME NEW S, IsFiniteSet(S), \A e \in S : e.amount \in Int, NEW C \in SUBSET S,
         NEW key, NEW Rows, IsFiniteSet(Rows), \A e \in C : key[e] \in Rows, NEW row,
         \A r \in Rows : row[r] = Booked(RowOf(C, key, r))
  PROVE  SumFunctionOnSet(row, Rows) = Booked(C)
<1>. DEFINE f == [e \in S |-> e.amount]
<1>2. IsFiniteSet(C) /\ \A e \in C : f[e] \in Int
  BY FS_Subset
<1>3. \A r \in Rows : row[r] = SumFunctionOnSet(f, RowOf(C, key, r))
  <2>. TAKE r \in Rows
  <2>. DEFINE Own == RowOf(C, key, r)
  <2>1. Own \in SUBSET S
    BY DEF RowOf
  <2>. HIDE DEF Own
  <2>2. Booked(Own) = SumFunctionOnSet(f, Own)
    BY <2>1, BookedWithin
  <2>. QED BY <2>2 DEF Own
<1>4. Booked(C) = SumFunctionOnSet(f, C)
  BY BookedWithin
<1>. HIDE DEF f
<1>5. SumFunctionOnSet(row, Rows) = SumFunctionOnSet(f, C)
  <2>1. \A e \in C : key[e] \in Rows
    OBVIOUS
  <2>. QED BY ONLY <1>2, <1>3, <2>1, IsFiniteSet(Rows), SumByRows
<1>. QED BY <1>4, <1>5

(* The entries a column of a report is made of; profit is a difference.    *)
Counted(entries) ==
  LET revenue == {e \in entries : e.direction = "REVENUE"}
      apart == {"revenue.rental", "revenue.insurance"}
  IN [rental |-> {e \in entries : e.category = "revenue.rental"},
      insurance |-> {e \in entries : e.category = "revenue.insurance"},
      otherRevenue |-> {e \in revenue : e.category \notin apart},
      revenue |-> revenue,
      supplierCost |-> {e \in entries : e.category = "cost.supplier"},
      otherCost |-> {e \in entries \ revenue : e.category # "cost.supplier"},
      cost |-> entries \ revenue]

Columns == {"rental", "insurance", "otherRevenue", "revenue", "supplierCost", "otherCost", "cost"}

LEMMA FiguresAreCounted ==
  ASSUME NEW entries
  PROVE  /\ \A column \in Columns : Figures(entries)[column] = Booked(Counted(entries)[column])
         /\ Figures(entries).profit = Figures(entries).revenue - Figures(entries).cost
         /\ DOMAIN Figures(entries) = Columns \cup {"profit"}
         /\ \A column \in Columns : Counted(entries)[column] \in SUBSET entries
<1>. DEFINE revenue == {e \in entries : e.direction = "REVENUE"}
            apart == {e \in revenue : e.category \in {"revenue.rental", "revenue.insurance"}}
<1>1. revenue \ apart = {e \in revenue : e.category \notin {"revenue.rental", "revenue.insurance"}}
  OBVIOUS
<1>2. /\ Figures(entries).rental = Booked(Counted(entries).rental)
      /\ Figures(entries).insurance = Booked(Counted(entries).insurance)
      /\ Figures(entries).otherRevenue = Booked(Counted(entries).otherRevenue)
      /\ Figures(entries).revenue = Booked(Counted(entries).revenue)
  BY <1>1, Zenon DEF Figures, Counted
<1>3. /\ Figures(entries).supplierCost = Booked(Counted(entries).supplierCost)
      /\ Figures(entries).otherCost = Booked(Counted(entries).otherCost)
      /\ Figures(entries).cost = Booked(Counted(entries).cost)
  BY Zenon DEF Figures, Counted
<1>4. \A column \in Columns : Figures(entries)[column] = Booked(Counted(entries)[column])
  BY <1>2, <1>3 DEF Columns
<1>5. \A column \in Columns : Counted(entries)[column] \in SUBSET entries
  BY DEF Counted, Columns
<1>. QED BY <1>4, <1>5 DEF Figures, Columns

(* A row counts what is its own of what the whole report counts. *)
LEMMA CountedOfRow ==
  ASSUME NEW entries, NEW key, NEW r, NEW column \in Columns
  PROVE  Counted(RowOf(entries, key, r))[column] = RowOf(Counted(entries)[column], key, r)
BY DEF Counted, Columns, RowOf

(* "Every report adds up to the same total": each column, in rows by any   *)
(* dimension, and the profit with them.                                    *)
LEMMA ReportAddsUp ==
  ASSUME NEW entries, IsLedger(entries), NEW dimension
  PROVE  ProfitTotal(ProfitRows(entries, dimension)) = Figures(entries)
<1>. DEFINE Rows == {e[dimension] : e \in entries}
            key == [e \in entries |-> e[dimension]]
            rows == ProfitRows(entries, dimension)
            Cells(column) == [r \in Rows |-> rows[r][column]]
            Own(r) == RowOf(entries, key, r)
<1>1. /\ Rows = Made(key, entries) /\ DOMAIN rows = Rows
      /\ \A r \in Rows : rows[r] = Figures(Own(r))
  <2>1. \A r \in Rows : Own(r) = {e \in entries : e[dimension] = r}
    BY DEF RowOf
  <2>. HIDE DEF Own
  <2>2. Rows = Made(key, entries)
    BY DEF Made
  <2>. QED BY <2>1, <2>2 DEF ProfitRows, KeysOf
<1>2. IsFiniteSet(entries) /\ \A e \in entries : e.amount \in Int
  BY DEF IsLedger
<1>2a. IsFiniteSet(Rows) /\ \A e \in entries : key[e] \in Rows
  <2>1. IsFiniteSet(Made(key, entries))
    BY <1>2, MadeIsFinite
  <2>. QED BY <1>1, <2>1
<1>3. ASSUME NEW column \in Columns
      PROVE  /\ IsFiniteSet(Rows)
             /\ SumFunctionOnSet(Cells(column), Rows) = Figures(entries)[column]
             /\ \A r \in Rows : Cells(column)[r] \in Int
  <2>. DEFINE C == Counted(entries)[column]
  <2>1. C \in SUBSET entries /\ Figures(entries)[column] = Booked(C)
    BY FiguresAreCounted
  <2>2. \A r \in Rows : Cells(column)[r] = Booked(RowOf(C, key, r))
    <3>. TAKE r \in Rows
    <3>1. Figures(Own(r))[column] = Booked(Counted(Own(r))[column])
      BY FiguresAreCounted
    <3>2. Counted(Own(r))[column] = RowOf(C, key, r)
      BY CountedOfRow
    <3>. HIDE DEF Own, C, key, rows
    <3>. QED BY <1>1, <3>1, <3>2
  <2>. HIDE DEF C, key, rows, Cells, Own
  <2>3. IsFiniteSet(Rows) /\ SumFunctionOnSet(Cells(column), Rows) = Booked(C)
    <3>. HIDE DEF Rows
    <3>1. \A e \in C : key[e] \in Rows
      BY <1>2a, <2>1
    <3>. QED BY <1>2, <1>2a, <2>1, <2>2, <3>1, BookedByRows
  <2>4. ASSUME NEW r \in Rows PROVE Booked(RowOf(C, key, r)) \in Int
    <3>1. RowOf(C, key, r) \in SUBSET entries
      BY <2>1 DEF RowOf
    <3>. QED BY <1>2, <3>1, BookedWithin
  <2>. QED BY <2>1, <2>2, <2>3, <2>4
<1>4. SumFunctionOnSet(Cells("profit"), Rows) = Figures(entries).profit
  <2>. DEFINE in == Cells("revenue")
              out == Cells("cost")
              left == Cells("profit")
  <2>1. \A r \in Rows : in[r] = left[r] + out[r] /\ left[r] \in Int /\ out[r] \in Int
    <3>. TAKE r \in Rows
    <3>1. rows[r].profit = rows[r].revenue - rows[r].cost
      BY <1>1, FiguresAreCounted
    <3>2. rows[r].revenue \in Int /\ rows[r].cost \in Int
      BY <1>3 DEF Columns
    <3>. QED BY <3>1, <3>2
  <2>2. /\ IsFiniteSet(Rows)
        /\ SumFunctionOnSet(in, Rows) = Figures(entries).revenue
        /\ SumFunctionOnSet(out, Rows) = Figures(entries).cost
    BY <1>3 DEF Columns
  <2>. HIDE DEF in, out, left, Rows
  <2>3. SumFunctionOnSet(in, Rows) = SumFunctionOnSet(left, Rows) + SumFunctionOnSet(out, Rows)
    BY <2>1, <2>2, SumPlus
  <2>4. /\ SumFunctionOnSet(left, Rows) \in Int /\ SumFunctionOnSet(out, Rows) \in Int
        /\ SumFunctionOnSet(in, Rows) \in Int
    BY <2>1, <2>2, SumType
  <2>5. Figures(entries).profit = Figures(entries).revenue - Figures(entries).cost
    BY FiguresAreCounted
  <2>6. SumFunctionOnSet(left, Rows) = Figures(entries).profit
    <3>1. SumFunctionOnSet(left, Rows) = SumFunctionOnSet(in, Rows) - SumFunctionOnSet(out, Rows)
      BY <2>3, <2>4
    <3>. QED BY <2>2, <2>5, <3>1, Zenon
  <2>. QED BY <2>6 DEF left
<1>5. DOMAIN Figures({}) = Columns \cup {"profit"} /\ DOMAIN Figures(entries) = Columns \cup {"profit"}
  BY FiguresAreCounted
<1>6. ProfitTotal(rows) = [column \in Columns \cup {"profit"} |-> SumFunctionOnSet(Cells(column), Rows)]
  BY <1>1, <1>5 DEF ProfitTotal, SumFunction
<1>7. Figures(entries) = [column \in Columns \cup {"profit"} |-> Figures(entries)[column]]
  BY DEF Figures, Columns
<1>. HIDE DEF rows, Cells, Rows
<1>. QED BY <1>3, <1>4, <1>6, <1>7 DEF rows

OnSide(entries, d) == {e \in entries : e.direction = d}

(* The lines of the break-down by category, of one side, come to that side.*)
LEMMA CategoriesAddUp ==
  ASSUME NEW entries, IsLedger(entries), NEW d
  PROVE  Booked(OnSide(CategoryTotals(entries), d)) = Booked(OnSide(entries, d))
<1>. DEFINE key == [e \in entries |-> <<e.direction, e.category>>]
            Side1 == {e \in entries : e.direction = d}
            Lines == {key[e] : e \in Side1}
            Of(l) == {e \in entries : e.direction = l[1] /\ e.category = l[2]}
            amount == [l \in Lines |-> Booked(Of(l))]
            Some == {l \in Lines : amount[l] # 0}
            Rest == Lines \ Some
            shown == [l \in Some |-> [direction |-> l[1], category |-> l[2], amount |-> amount[l]]]
            Shown == {shown[l] : l \in Some}
<1>0. IsFiniteSet(entries) /\ (\A e \in entries : e.amount \in Int) /\ Side1 \in SUBSET entries
  BY DEF IsLedger
<1>1. IsFiniteSet(Side1) /\ (\A e \in Side1 : e.amount \in Int) /\ Side1 \in SUBSET Side1
  BY <1>0, FS_Subset
<1>2. \A l \in Lines : amount[l] = Booked(RowOf(Side1, key, l)) /\ amount[l] \in Int
  <2>. TAKE l \in Lines
  <2>1. Of(l) = RowOf(Side1, key, l) /\ Of(l) \in SUBSET entries
    BY DEF RowOf
  <2>2. amount[l] = Booked(Of(l))
    OBVIOUS
  <2>3. Booked(Of(l)) \in Int
    <3>. HIDE DEF Of
    <3>. QED BY <1>0, <2>1, BookedWithin
  <2>. HIDE DEF amount, Of
  <2>. QED BY <2>1, <2>2, <2>3
<1>3. IsFiniteSet(Lines) /\ SumFunctionOnSet(amount, Lines) = Booked(Side1)
  <2>. HIDE DEF Lines, amount, Side1, key
  <2>1. Lines = Made(key, Side1)
    BY DEF Lines, Made
  <2>2. \A e \in Side1 : key[e] \in Lines
    BY DEF Lines
  <2>3. IsFiniteSet(Lines)
    BY <1>1, <2>1, MadeIsFinite
  <2>. QED BY <1>1, <1>2, <2>2, <2>3, BookedByRows
<1>4. IsFiniteSet(Some) /\ IsFiniteSet(Rest) /\ Some \cup Rest = Lines /\ Some \cap Rest = {}
  BY <1>3, FS_Subset
<1>5. SumFunctionOnSet(amount, Some) = Booked(Side1)
  <2>1. SumFunctionOnSet(amount, Lines)
          = SumFunctionOnSet(amount, Some) + SumFunctionOnSet(amount, Rest)
    <3>1. \A l \in Some \cup Rest : amount[l] \in Int
      BY <1>2
    <3>. HIDE DEF Lines, amount, Some, Rest
    <3>. QED BY <1>4, <3>1, SumUnion
  <2>2. SumFunctionOnSet(amount, Rest) = 0
    <3>1. \A l \in Rest : amount[l] = 0
      OBVIOUS
    <3>. HIDE DEF amount, Rest
    <3>. QED BY <1>4, <3>1, SumOfZeros
  <2>3. SumFunctionOnSet(amount, Some) \in Int
    <3>1. \A l \in Some : amount[l] \in Int
      BY <1>2
    <3>. HIDE DEF amount, Some
    <3>. QED BY <1>4, <3>1, SumType
  <2>. QED BY <1>3, <2>1, <2>2, <2>3
<1>6. Booked(Shown) = SumFunctionOnSet(amount, Some)
  <2>. DEFINE f == [l \in Shown |-> l.amount]
  <2>1. \A l, m \in Some : shown[l] = shown[m] => l = m
    <3>1. \A l \in Some : l = <<l[1], l[2]>> /\ shown[l].direction = l[1] /\ shown[l].category = l[2]
      OBVIOUS
    <3>. HIDE DEF shown, Some
    <3>. QED BY <3>1
  <2>2. \A l \in Some : f[shown[l]] \in Int /\ amount[l] = f[shown[l]]
    <3>1. \A l \in Some : shown[l] \in Shown /\ shown[l].amount = amount[l]
      OBVIOUS
    <3>2. \A l \in Some : amount[l] \in Int
      BY <1>2
    <3>. HIDE DEF shown, Some, amount, Shown
    <3>. QED BY <3>1, <3>2
  <2>3. Booked(Shown) = SumFunctionOnSet(f, Shown)
    BY DEF Booked, SumFunction
  <2>4. SumFunctionOnSet(f, Shown) = SumFunctionOnSet(amount, Some)
    <3>1. Shown = Made(shown, Some)
      BY DEF Made
    <3>. HIDE DEF shown, Some, amount, Shown, f
    <3>. QED BY <1>4, <2>1, <2>2, <3>1, SumOfImage
  <2>. QED BY <2>3, <2>4
<1>7. OnSide(CategoryTotals(entries), d) = Shown /\ OnSide(entries, d) = Side1
  <2>. DEFINE All == {<<e.direction, e.category>> : e \in entries}
              record(l) == [direction |-> l[1], category |-> l[2], amount |-> Booked(Of(l))]
  <2>1. CategoryTotals(entries) = {record(l) : l \in {m \in All : Booked(Of(m)) # 0}}
    BY DEF CategoryTotals
  <2>2. Lines = {l \in All : l[1] = d}
    OBVIOUS
  <2>3. Some = {l \in Lines : Booked(Of(l)) # 0} /\ \A l \in Some : shown[l] = record(l)
    OBVIOUS
  <2>4. \A l : record(l).direction = l[1]
    OBVIOUS
  <2>5. Shown = {shown[l] : l \in Some}
    OBVIOUS
  <2>. HIDE DEF All, Lines, Some, record, shown, Of, Shown
  <2>. QED BY <2>1, <2>2, <2>3, <2>4, <2>5 DEF OnSide
<1>. HIDE DEF Shown, amount, Some
<1>. QED BY <1>5, <1>6, <1>7

(* The columns of one side come to it: each entry is counted once. *)
LEMMA ColumnsAddUp ==
  ASSUME NEW entries, IsLedger(entries)
  PROVE  LET total == Figures(entries) IN
         /\ total.rental + total.insurance + total.otherRevenue = total.revenue
         /\ total.supplierCost + total.otherCost = total.cost
<1>. DEFINE of == Counted(entries)
            money(C) == Booked(C)
            total == Figures(entries)
            unrented == of.revenue \ of.rental
<1>1. /\ total.rental = money(of.rental) /\ total.insurance = money(of.insurance)
      /\ total.otherRevenue = money(of.otherRevenue) /\ total.revenue = money(of.revenue)
      /\ total.supplierCost = money(of.supplierCost) /\ total.otherCost = money(of.otherCost)
      /\ total.cost = money(of.cost)
  BY FiguresAreCounted DEF Columns
<1>2. IsFiniteSet(entries) /\ \A e \in entries : e.amount \in Int
  BY DEF IsLedger
<1>3. /\ of.revenue \in SUBSET entries /\ of.cost \in SUBSET entries
      /\ of.rental \in SUBSET of.revenue
      /\ of.insurance \in SUBSET unrented
      /\ unrented \ of.insurance = of.otherRevenue
      /\ of.supplierCost \in SUBSET of.cost
      /\ of.cost \ of.supplierCost = of.otherCost
  BY DEF IsLedger, Counted
<1>. HIDE DEF of, unrented
<1>4. \A C \in SUBSET entries : \A D \in SUBSET C :
        /\ money(C) = money(D) + money(C \ D)
        /\ money(D) \in Int /\ money(C \ D) \in Int
  <2>. TAKE C \in SUBSET entries
  <2>. TAKE D \in SUBSET C
  <2>1. IsFiniteSet(C) /\ \A e \in C : e.amount \in Int
    BY <1>2, FS_Subset
  <2>. QED BY <2>1, BookedApart
<1>5. /\ money(of.revenue) = money(of.rental) + money(unrented)
      /\ money(of.rental) \in Int /\ money(unrented) \in Int
  BY <1>3, <1>4 DEF unrented
<1>6. /\ money(unrented) = money(of.insurance) + money(of.otherRevenue)
      /\ money(of.insurance) \in Int /\ money(of.otherRevenue) \in Int
  <2>1. unrented \in SUBSET entries
    BY <1>3 DEF unrented
  <2>. QED BY <1>3, <1>4, <2>1
<1>7. money(of.cost) = money(of.supplierCost) + money(of.otherCost)
  BY <1>3, <1>4
<1>. HIDE DEF money
<1>8. money(of.rental) + money(of.insurance) + money(of.otherRevenue) = money(of.revenue)
  BY <1>5, <1>6
<1>. QED BY <1>1, <1>7, <1>8, Zenon

LEMMA PartOfLedger ==
  ASSUME NEW ledger, IsLedger(ledger), NEW part \in SUBSET ledger
  PROVE  IsLedger(part)
BY FS_Subset DEF IsLedger

(* What two sides of a report say. *)
LEMMA SidesAre ==
  ASSUME NEW entries, IsLedger(entries)
  PROVE  /\ Figures(entries).revenue = Booked(OnSide(entries, "REVENUE"))
         /\ Figures(entries).cost = Booked(OnSide(entries, "COST"))
         /\ Figures(entries).profit = Figures(entries).revenue - Figures(entries).cost
         /\ Figures(entries).revenue = Booked(OnSide(CategoryTotals(entries), "REVENUE"))
         /\ Figures(entries).cost = Booked(OnSide(CategoryTotals(entries), "COST"))
<1>1. Counted(entries).cost = OnSide(entries, "COST")
  BY DEF Counted, IsLedger, OnSide
<1>2. Counted(entries).revenue = OnSide(entries, "REVENUE")
  BY DEF Counted, OnSide
<1>3. /\ Figures(entries).revenue = Booked(OnSide(entries, "REVENUE"))
      /\ Figures(entries).cost = Booked(OnSide(entries, "COST"))
  BY <1>1, <1>2, FiguresAreCounted DEF Columns
<1>4. \A d : Booked(OnSide(CategoryTotals(entries), d)) = Booked(OnSide(entries, d))
  BY CategoriesAddUp
<1>. QED BY <1>3, <1>4, FiguresAreCounted

(* "Every report adds up to the same total: the ledger for the range"      *)
(* (INV-6): of any ledger, any range and either filter, by any dimension;  *)
(* its columns and its lines by category add up to it, and the dashboard's *)
(* month and a car's lifetime are its rows (profitability, monthResult,    *)
(* vehicleLifetime, categoryTotals).                                       *)
THEOREM LedgerAddsUp ==
  ASSUME NEW ledger, IsLedger(ledger), NEW from, NEW to, NEW type, NEW contracts
  PROVE  LedgerTellsOneStory(ledger, from, to, type, contracts)
<1>. DEFINE range == Selected(ledger, from, to, type, contracts)
            total == Figures(range)
            all == ProfitRows(ledger, "vehicle")
            months == ProfitRows(ledger, "month")
            side(d) == Booked({l \in CategoryTotals(range) : l.direction = d})
<1>1. IsLedger(range)
  <2>1. range \in SUBSET ledger
    BY DEF Selected
  <2>. QED BY <2>1, PartOfLedger
<1>2. \A dimension \in Dimensions : ProfitTotal(ProfitRows(range, dimension)) = total
  BY <1>1, ReportAddsUp
<1>3. /\ total.rental + total.insurance + total.otherRevenue = total.revenue
      /\ total.supplierCost + total.otherCost = total.cost
  BY <1>1, ColumnsAddUp
<1>4. side("REVENUE") = total.revenue /\ side("COST") = total.cost
  BY <1>1, SidesAre DEF OnSide
<1>5. ASSUME NEW vehicle \in DOMAIN all
      PROVE  Side(all[vehicle]) = VehicleLifetime(ledger, vehicle)
  <2>. DEFINE own == {e \in ledger : e.vehicle = vehicle}
              lines == CategoryTotals(own)
  <2>1. IsLedger(own)
    BY PartOfLedger
  <2>2. all[vehicle] = Figures({e \in ledger : e["vehicle"] = vehicle})
    BY DEF ProfitRows
  <2>3. all[vehicle] = Figures(own)
    BY <2>2
  <2>4. /\ Figures(own).revenue = Booked({l \in lines : l.direction = "REVENUE"})
        /\ Figures(own).cost = Booked({l \in lines : l.direction = "COST"})
        /\ Figures(own).profit = Figures(own).revenue - Figures(own).cost
    BY <2>1, SidesAre DEF OnSide
  <2>. QED BY <2>3, <2>4, Zenon DEF Side, VehicleLifetime
<1>6. ASSUME NEW month \in DOMAIN months
      PROVE  Side(months[month]) = MonthResult(ledger, month)
  <2>. DEFINE own == {e \in ledger : e.month = month}
  <2>1. IsLedger(own)
    BY PartOfLedger
  <2>2. months[month] = Figures({e \in ledger : e["month"] = month})
    BY DEF ProfitRows
  <2>3. months[month] = Figures(own)
    BY <2>2
  <2>4. /\ OnSide(own, "REVENUE")
             = {e \in ledger : e.month = month /\ e.direction = "REVENUE"}
        /\ OnSide(own, "COST")
             = {e \in ledger : e.month = month /\ e.direction = "COST"}
    BY DEF OnSide
  <2>5. /\ Figures(own).revenue
             = Booked({e \in ledger : e.month = month /\ e.direction = "REVENUE"})
        /\ Figures(own).cost = Booked({e \in ledger : e.month = month /\ e.direction = "COST"})
        /\ Figures(own).profit = Figures(own).revenue - Figures(own).cost
    BY <2>1, <2>4, SidesAre
  <2>. QED BY <2>3, <2>5, Zenon DEF Side, MonthResult
<1>. HIDE DEF total, range, all, months
<1>. QED BY <1>2, <1>3, <1>4, <1>5, <1>6 DEF LedgerTellsOneStory, total, range, all, months

(* An expense as it is entered: a contract's is on a contract there is.    *)
IsExpense(expense, contracts) ==
  /\ expense.net \in Int
  /\ expense.allocation \in {"VEHICLE", "CONTRACT", "COMPANY"}
  /\ expense.allocation = "CONTRACT" => expense.contract \in DOMAIN contracts
  /\ expense.vehicle # Unassigned
  /\ \A c \in DOMAIN contracts : c # Unassigned /\ contracts[c].vehicle # Unassigned

LEMMA BookedOne ==
  ASSUME NEW e, e.amount \in Int
  PROVE  Booked({e}) = e.amount
<1>. DEFINE f == [x \in {e} |-> x.amount]
<1>1. IsFiniteSet({e}) /\ {e} \ {e} = {} /\ f[e] \in Int /\ f[e] = e.amount
  BY FS_Singleton
<1>2. Booked({e}) = SumFunctionOnSet(f, {e})
  BY DEF Booked, SumFunction
<1>3. \A x \in {e} : f[x] \in Int
  BY <1>1
<1>. HIDE DEF f
<1>4. SumFunctionOnSet(f, {e}) = f[e] + SumFunctionOnSet(f, {e} \ {e})
  BY <1>1, <1>3, SumRemove
<1>. QED BY <1>1, <1>2, <1>4, SumOfNone

(* What one entry, a cost, adds to a row. *)
Added(entries, dimension, key) ==
  LET rows == ProfitRows(entries, dimension) IN IF key \in DOMAIN rows THEN rows[key].cost ELSE 0

LEMMA AddedByOne ==
  ASSUME NEW e, e.amount \in Int, e.direction = "COST", NEW dimension, NEW key
  PROVE  Added({e}, dimension, key) = IF key = e[dimension] THEN e.amount ELSE 0
<1>1. DOMAIN ProfitRows({e}, dimension) = {e[dimension]}
  BY DEF ProfitRows, KeysOf
<1>2. CASE key = e[dimension]
  <2>1. {x \in {e} : x[dimension] = key} = {e}
    BY <1>2
  <2>2. ProfitRows({e}, dimension)[key] = Figures({e})
    BY <1>2, <2>1 DEF ProfitRows, KeysOf
  <2>3. Counted({e}).cost = {e}
    BY DEF Counted
  <2>4. Figures({e}).cost = Booked({e})
    BY <2>3, FiguresAreCounted DEF Columns
  <2>. QED BY <1>1, <1>2, <2>2, <2>4, BookedOne DEF Added
<1>. QED BY <1>1, <1>2 DEF Added

LEMMA AddedByNone ==
  ASSUME NEW dimension, NEW key
  PROVE  Added({}, dimension, key) = 0
BY DEF Added, ProfitRows, KeysOf

(* The entry of an expense that is something. *)
CostEntry(expense, vehicle, contract, customer) ==
  [id |-> expense.id, month |-> expense.month, direction |-> "COST", category |-> "cost.other",
   amount |-> expense.net, vehicle |-> vehicle, contract |-> contract, customer |-> customer,
   supplier |-> Unassigned]

LEMMA PostingIs ==
  ASSUME NEW expense, NEW contracts, expense.net # 0
  PROVE  /\ expense.allocation = "VEHICLE" =>
              ExpensePosting(expense, contracts)
                = {CostEntry(expense, expense.vehicle, Unassigned, Unassigned)}
         /\ expense.allocation = "CONTRACT" =>
              ExpensePosting(expense, contracts)
                = {CostEntry(expense, contracts[expense.contract].vehicle, expense.contract,
                             contracts[expense.contract].customer)}
         /\ expense.allocation = "COMPANY" =>
              ExpensePosting(expense, contracts)
                = {CostEntry(expense, Unassigned, Unassigned, Unassigned)}
BY DEF ExpensePosting, CostEntry

(* "Without being smeared across vehicles that did not incur it": any      *)
(* expense, of any amount, is all of it on the car and the contract it was *)
(* incurred for, if any, and in its month, and nowhere else (createExpense,*)
(* resolveAllocation).                                                     *)
THEOREM ExpensesLand ==
  ASSUME NEW expense, NEW contracts, IsExpense(expense, contracts)
  PROVE  ExpenseLandsOnce(expense, contracts)
<1>. DEFINE posted == ExpensePosting(expense, contracts)
            where == CASE expense.allocation = "VEHICLE" -> expense.vehicle
                       [] expense.allocation = "CONTRACT" -> contracts[expense.contract].vehicle
                       [] OTHER -> Unassigned
            contract == IF expense.allocation = "CONTRACT" THEN expense.contract ELSE Unassigned
            cars == {contracts[c].vehicle : c \in DOMAIN contracts} \cup {expense.vehicle}
            charged(v) == \/ expense.allocation = "VEHICLE" /\ v = expense.vehicle
                          \/ expense.allocation = "CONTRACT" /\ v = contracts[expense.contract].vehicle
<1>1. /\ \A key : Added(posted, "vehicle", key) = IF key = where THEN expense.net ELSE 0
      /\ \A key : Added(posted, "contract", key) = IF key = contract THEN expense.net ELSE 0
      /\ Added(posted, "month", expense.month) = expense.net
  <2>1. CASE expense.net = 0
    <3>1. posted = {}
      BY <2>1 DEF ExpensePosting
    <3>. HIDE DEF posted
    <3>. QED BY <2>1, <3>1, AddedByNone
  <2>2. CASE expense.net # 0
    <3>1. PICK e : posted = {e} /\ e.amount = expense.net /\ e.direction = "COST"
                   /\ e.vehicle = where /\ e.contract = contract /\ e.month = expense.month
      <4>1. \E u : posted = {CostEntry(expense, where, contract, u)}
        <5>1. CASE expense.allocation = "VEHICLE"
          BY <2>2, <5>1, PostingIs
        <5>2. CASE expense.allocation = "CONTRACT"
          BY <2>2, <5>2, PostingIs
        <5>3. CASE expense.allocation = "COMPANY"
          BY <2>2, <5>3, PostingIs
        <5>. QED BY <5>1, <5>2, <5>3 DEF IsExpense
      <4>. HIDE DEF posted, where, contract
      <4>2. PICK u : posted = {CostEntry(expense, where, contract, u)}
        BY <4>1
      <4>. DEFINE e == CostEntry(expense, where, contract, u)
      <4>3. /\ e.amount = expense.net /\ e.direction = "COST"
            /\ e.vehicle = where /\ e.contract = contract /\ e.month = expense.month
        BY DEF CostEntry
      <4>. HIDE DEF e
      <4>. QED BY <4>2, <4>3 DEF e
    <3>2. e.amount \in Int /\ e["vehicle"] = where /\ e["contract"] = contract /\ e["month"] = expense.month
      BY <3>1 DEF IsExpense
    <3>. HIDE DEF posted, where, contract
    <3>. QED BY <3>1, <3>2, AddedByOne
  <2>. QED BY <2>1, <2>2
<1>2. \A v \in cars : Added(posted, "vehicle", v) = IF charged(v) THEN expense.net ELSE 0
  <2>1. \A v \in cars : v # Unassigned
    BY DEF IsExpense
  <2>2. \A v \in cars : charged(v) <=> v = where
    BY <2>1 DEF IsExpense
  <2>. HIDE DEF posted, where, cars, charged
  <2>. QED BY <1>1, <2>2
<1>3. \A c \in DOMAIN contracts :
        Added(posted, "contract", c)
          = IF expense.allocation = "CONTRACT" /\ c = expense.contract THEN expense.net ELSE 0
  <2>1. \A c \in DOMAIN contracts :
          (expense.allocation = "CONTRACT" /\ c = expense.contract) <=> c = contract
    BY DEF IsExpense
  <2>. HIDE DEF posted, contract
  <2>. QED BY <1>1, <2>1
<1>. HIDE DEF posted
<1>. QED BY <1>1, <1>2, <1>3, Zenon DEF ExpenseLandsOnce, Added, posted

-----------------------------------------------------------------------------
(* Collections. *)

IsInstalment(i) ==
  /\ i.issued \in BOOLEAN /\ i.waived \in BOOLEAN
  /\ i.due \in Int /\ i.gross \in Int /\ i.paid \in Int

(* The money overdue, the number of late invoices, the list of them and    *)
(* the contracts behind agree, on any number of instalments, on any day,   *)
(* if each one's status was right on a day since it fell due               *)
(* (receivables, overdueInstallments, contractCounts).                     *)
THEOREM CollectionsMeet ==
  ASSUME NEW items, IsFiniteSet(items), \A i \in items : IsInstalment(i),
         NEW today \in Int, NEW live
  PROVE  CollectionsAgree(items, today, live)
<1>. SUFFICES ASSUME \A i \in items : WasRight(i, today)
              PROVE  LET list == OverdueInstallments(items, today)
                         money == Receivables(items, today)
                     IN /\ Owed(list) = money.overdue /\ Cardinality(list) = money.overdueCount
                        /\ ContractsBehind(items, today, live) = {i.contract : i \in list} \cap live
                        /\ money.overdue <= money.outstanding
  BY Zenon DEF CollectionsAgree
<1>. DEFINE open == {i \in items : i.issued /\ ~i.waived /\ i.paid < i.gross}
            late == {i \in open : i.due < today}
            owed == [i \in items |-> i.gross - i.paid]
<1>1. ASSUME NEW i \in items, i.issued, ~i.waived, i.due < today
      PROVE  /\ i.paid < i.gross <=> i.status \in {"OVERDUE", "PARTIALLY_PAID", "DUE"}
             /\ i.paid < i.gross <=> i.status # "PAID"
  <2>1. PICK day \in i.due..today : i.status = InstallmentStatus(i, day)
    BY <1>1 DEF WasRight
  <2>2. day \in Int /\ i.due \in Int /\ i.due <= day /\ i.gross \in Int /\ i.paid \in Int
    BY <2>1 DEF IsInstalment
  <2>3. CASE i.paid >= i.gross
    BY <1>1, <2>1, <2>2, <2>3 DEF InstallmentStatus
  <2>4. CASE i.paid < i.gross
    BY <1>1, <2>1, <2>2, <2>4 DEF InstallmentStatus
  <2>. QED BY <2>2, <2>3, <2>4
<1>2. OverdueInstallments(items, today) = late
  BY <1>1 DEF OverdueInstallments
<1>3. ContractsBehind(items, today, live) = {i.contract : i \in late} \cap live
  BY <1>1 DEF ContractsBehind
<1>4. \A U \in SUBSET open : Owed(U) = SumFunctionOnSet(owed, U) /\ IsFiniteSet(U)
  <2>. TAKE U \in SUBSET open
  <2>1. U \in SUBSET items
    OBVIOUS
  <2>2. IsFiniteSet(U)
    BY <2>1, FS_Subset
  <2>3. \A i \in U : [j \in U |-> j.gross - j.paid][i] = owed[i] /\ owed[i] \in Int
    BY <2>1 DEF IsInstalment
  <2>4. SumFunctionOnSet([i \in U |-> i.gross - i.paid], U) = SumFunctionOnSet(owed, U)
    <3>. DEFINE f == [i \in U |-> i.gross - i.paid]
    <3>1. \A i \in U : f[i] = owed[i] /\ f[i] \in Int
      BY <2>3
    <3>. HIDE DEF f, owed
    <3>2. SumFunctionOnSet(f, U) = SumFunctionOnSet(owed, U)
      BY <2>2, <3>1, SumSame
    <3>. QED BY <3>2 DEF f
  <2>. QED BY <2>2, <2>4 DEF Owed, SumFunction
<1>5. Owed(late) <= Owed(open)
  <2>. DEFINE rest == open \ late
              none == [i \in items |-> 0]
  <2>1. /\ open \in SUBSET open /\ late \in SUBSET open /\ rest \in SUBSET open
        /\ late \cup rest = open /\ late \cap rest = {}
    OBVIOUS
  <2>2. \A i \in open : owed[i] \in Int /\ 0 <= owed[i]
    BY DEF IsInstalment
  <2>3. \A i \in rest : none[i] = 0 /\ none[i] \in Int
    OBVIOUS
  <2>. HIDE DEF owed, none, open, late, rest
  <2>4. SumFunctionOnSet(owed, late \cup rest)
          = SumFunctionOnSet(owed, late) + SumFunctionOnSet(owed, rest)
    BY <1>4, <2>1, <2>2, SumUnion
  <2>5. SumFunctionOnSet(none, rest) <= SumFunctionOnSet(owed, rest) /\ SumFunctionOnSet(none, rest) = 0
    BY <1>4, <2>1, <2>2, <2>3, SumLeq, SumOfZeros
  <2>6. SumFunctionOnSet(owed, late) \in Int /\ SumFunctionOnSet(owed, rest) \in Int
    BY <1>4, <2>1, <2>2, SumType
  <2>7. Owed(late) = SumFunctionOnSet(owed, late) /\ Owed(open) = SumFunctionOnSet(owed, late \cup rest)
    BY <1>4, <2>1
  <2>. QED BY <2>4, <2>5, <2>6, <2>7
<1>6. Receivables(items, today)
        = [outstanding |-> Owed(open), overdue |-> Owed(late), overdueCount |-> Cardinality(late)]
  BY DEF Receivables
<1>. HIDE DEF open, late
<1>. QED BY <1>2, <1>3, <1>5, <1>6

-----------------------------------------------------------------------------
(* Splitting: the sums of shares. *)

(* Division truncates toward zero, and what is left has the sign of all.   *)
LEMMA Truncated ==
  ASSUME NEW n \in Int, NEW d \in Nat \ {0}
  PROVE  /\ Quotient(n, d) \in Int /\ Remainder(n, d) \in Int
         /\ n = d * Quotient(n, d) + Remainder(n, d)
         /\ Remainder(n, d) \in (1 - d)..(d - 1)
         /\ n >= 0 => Quotient(n, d) >= 0 /\ Remainder(n, d) >= 0
         /\ n <= 0 => Remainder(n, d) <= 0
<1>. DEFINE N == Magnitude(n)
            q == N \div d
            r == N % d
            p == Quotient(n, d)
<1>1. N \in Nat /\ Magnitude(d) = d /\ N = IF n < 0 THEN -n ELSE n
  BY DEF Magnitude
<1>2. q \in Nat /\ r \in 0..(d - 1) /\ N = d * q + r
  BY <1>1, Divided
<1>3. p = IF n < 0 THEN -q ELSE q
  BY <1>1 DEF Quotient
<1>4. d * (-q) = -(d * q) /\ d * q \in Int
  BY <1>2
<1>5. Remainder(n, d) = n - d * p
  BY DEF Remainder
<1>. HIDE DEF N, q, r, p
<1>6. Remainder(n, d) = IF n < 0 THEN -r ELSE r
  <2>1. CASE n < 0
    BY <1>1, <1>2, <1>3, <1>4, <1>5, <2>1
  <2>2. CASE ~(n < 0)
    BY <1>1, <1>2, <1>3, <1>4, <1>5, <2>2
  <2>. QED BY <2>1, <2>2
<1>7. p \in Int /\ d * p \in Int /\ (n >= 0 => p >= 0)
  BY <1>2, <1>3
<1>8. n = d * p + Remainder(n, d)
  BY <1>2, <1>5, <1>6, <1>7
<1>9. n = 0 => r = 0
  <2>1. q > 0 => d * q >= d
    BY <1>2
  <2>2. n = 0 => d * q + r = 0
    BY <1>1, <1>2
  <2>. QED BY <1>2, <1>4, <2>1, <2>2
<1>. QED BY <1>2, <1>6, <1>7, <1>8, <1>9 DEF p

(* A sum over 1..n, or 0..n-1, by what it comes to so far. *)
LEMMA SumUpTo ==
  ASSUME NEW N \in Nat, NEW f, \A i \in 1..N : f[i] \in Int,
         NEW g, g[0] = 0, \A i \in 1..N : g[i] = g[i - 1] + f[i]
  PROVE  SumFunctionOnSet(f, 1..N) = g[N]
<1>. DEFINE Good == {n \in Nat : n <= N => SumFunctionOnSet(f, 1..n) = g[n]}
<1>1. 0 \in Good
  <2>1. 1..0 = {}
    OBVIOUS
  <2>. QED BY <2>1, SumOfNone
<1>2. ASSUME NEW n \in Nat, n \in Good
      PROVE  n + 1 \in Good
  <2>. SUFFICES ASSUME n + 1 <= N
                PROVE  SumFunctionOnSet(f, 1..(n + 1)) = g[n + 1]
    OBVIOUS
  <2>0. IsFiniteSet(1..n)
    BY FS_Interval
  <2>1. /\ n + 1 \notin 1..n /\ (1..n) \cup {n + 1} = 1..(n + 1)
        /\ n + 1 \in 1..N /\ (n + 1) - 1 = n
    OBVIOUS
  <2>2. \A i \in (1..n) \cup {n + 1} : f[i] \in Int
    BY <2>1
  <2>3. SumFunctionOnSet(f, (1..n) \cup {n + 1}) = f[n + 1] + SumFunctionOnSet(f, 1..n)
    BY <2>0, <2>1, <2>2, SumAdd
  <2>4. SumFunctionOnSet(f, 1..n) = g[n] /\ SumFunctionOnSet(f, 1..n) \in Int
    <3>1. \A i \in 1..n : f[i] \in Int
      BY <2>2
    <3>. QED BY <1>2, <2>0, <3>1, SumType
  <2>5. g[n + 1] = g[n] + f[n + 1] /\ f[n + 1] \in Int
    BY <2>1
  <2>6. SumFunctionOnSet(f, (1..n) \cup {n + 1}) = g[n + 1]
    BY <2>3, <2>4, <2>5
  <2>. QED BY <2>1, <2>6
<1>3. \A n \in Nat : n \in Good
  <2>. HIDE DEF Good
  <2>. QED BY <1>1, <1>2, CountingUp
<1>. QED BY <1>3

(* What the first n shares of a split come to. *)
FirstShares(total, parts, n) ==
  LET left == Remainder(total, parts)
      extra == IF n > Magnitude(left) THEN Magnitude(left) ELSE n
  IN n * Quotient(total, parts) + (IF left < 0 THEN -extra ELSE extra)

LEMMA SharesAre ==
  ASSUME NEW total \in Int, NEW parts \in Nat \ {0}
  PROVE  /\ \A i \in 1..parts : Allocate(total, parts)[i] \in Int
         /\ \A n \in 0..parts : FirstShares(total, parts, n) \in Int
         /\ FirstShares(total, parts, 0) = 0
         /\ FirstShares(total, parts, parts) = total
         /\ \A i \in 1..parts :
              FirstShares(total, parts, i)
                = FirstShares(total, parts, i - 1) + Allocate(total, parts)[i]
         /\ \A i, j \in 1..parts : Magnitude(Allocate(total, parts)[i] - Allocate(total, parts)[j]) <= 1
         /\ total >= 0 => \A i \in 1..parts : Allocate(total, parts)[i] >= 0
<1>. DEFINE q == Quotient(total, parts)
            left == Remainder(total, parts)
            L == Magnitude(left)
            sign == IF left < 0 THEN -1 ELSE 1
            share(i) == q + (IF i > L THEN 0 ELSE sign)
            least(n) == IF n > L THEN L ELSE n
            first(n) == n * q + (IF left < 0 THEN -least(n) ELSE least(n))
<1>1. /\ q \in Int /\ left \in Int /\ total = parts * q + left /\ parts * q \in Int
      /\ L \in 0..(parts - 1) /\ L = IF left < 0 THEN -left ELSE left
      /\ total >= 0 => q >= 0 /\ left >= 0
  <2>1. /\ q \in Int /\ left \in Int /\ total = parts * q + left /\ left \in (1 - parts)..(parts - 1)
        /\ total >= 0 => q >= 0 /\ left >= 0
    BY Truncated
  <2>2. parts * q \in Int
    BY <2>1
  <2>. HIDE DEF q, left
  <2>. QED BY <2>1, <2>2 DEF Magnitude
<1>2. /\ \A i \in 1..parts : Allocate(total, parts)[i] = share(i)
      /\ \A n \in 0..parts : FirstShares(total, parts, n) = first(n)
  BY DEF Allocate, FirstShares
<1>. HIDE DEF q, left, L
<1>3. \A n \in 0..parts : n * q \in Int
  BY <1>1
<1>4. \A i \in 1..parts : i * q = (i - 1) * q + q
  BY <1>1
<1>5. 0 * q = 0
  BY <1>1
<1>6. \A i \in 1..parts : first(i) = first(i - 1) + share(i)
  <2>. TAKE i \in 1..parts
  <2>. DEFINE a == (i - 1) * q
              b == i * q
  <2>1. a \in Int /\ b = a + q /\ i \in Int
    BY <1>3, <1>4
  <2>. HIDE DEF a, b
  <2>2. b + (IF left < 0 THEN -least(i) ELSE least(i))
          = a + (IF left < 0 THEN -least(i - 1) ELSE least(i - 1)) + share(i)
    BY <1>1, <2>1
  <2>. QED BY <2>2 DEF a, b
<1>7. first(parts) = total
  BY <1>1
<1>8. \A i \in 1..parts : share(i) \in Int /\ (total >= 0 => share(i) >= 0)
  BY <1>1
<1>9. \A i, j \in 1..parts : Magnitude(share(i) - share(j)) <= 1
  BY <1>1 DEF Magnitude
<1>10. \A n \in 0..parts : first(n) \in Int
  BY <1>1, <1>3
<1>11. first(0) = 0
  BY <1>1, <1>5
<1>. HIDE DEF first, share
<1>. QED BY <1>2, <1>6, <1>7, <1>8, <1>9, <1>10, <1>11

(* "Every payment schedule goes through it": any amount in any number of   *)
(* parts sums back to it to the fil, in shares within a fil of each other  *)
(* (allocate).                                                             *)
THEOREM SplitExact ==
  ASSUME NEW total \in Int, NEW parts \in Nat \ {0}
  PROVE  SplitIsExact(total, parts)
<1>. DEFINE shares == Allocate(total, parts)
            g == [n \in 0..parts |-> FirstShares(total, parts, n)]
<1>1. DOMAIN shares = 1..parts
  BY DEF Allocate
<1>2. /\ g[0] = 0 /\ g[parts] = total
      /\ \A i \in 1..parts : g[i] = g[i - 1] + shares[i] /\ shares[i] \in Int
  <2>1. 0 \in 0..parts /\ parts \in 0..parts /\ \A i \in 1..parts : i \in 0..parts /\ i - 1 \in 0..parts
    OBVIOUS
  <2>. QED BY <2>1, SharesAre
<1>3. \A i, j \in 1..parts : Magnitude(shares[i] - shares[j]) <= 1
  BY SharesAre
<1>. HIDE DEF shares, g
<1>4. SumFunctionOnSet(shares, 1..parts) = total
  BY <1>2, SumUpTo
<1>. QED BY <1>1, <1>3, <1>4 DEF SplitIsExact, SumFunction, shares

LEMMA SumBelow ==
  ASSUME NEW N \in Nat, NEW f, \A i \in 0..(N - 1) : f[i] \in Int,
         NEW g, g[0] = 0, \A i \in 0..(N - 1) : g[i + 1] = g[i] + f[i]
  PROVE  SumFunctionOnSet(f, 0..(N - 1)) = g[N]
<1>. DEFINE h == [i \in 1..N |-> i - 1]
            k == [i \in 1..N |-> f[i - 1]]
<1>1. Made(h, 1..N) = 0..(N - 1)
  <2>1. \A i \in 1..N : i - 1 \in 0..(N - 1)
    OBVIOUS
  <2>2. \A i \in 0..(N - 1) : i + 1 \in 1..N /\ h[i + 1] = i
    OBVIOUS
  <2>. QED BY <2>1, <2>2 DEF Made
<1>2. /\ \A i, j \in 1..N : h[i] = h[j] => i = j
      /\ \A i \in 1..N : f[h[i]] \in Int /\ k[i] = f[h[i]]
  OBVIOUS
<1>3. \A i \in 1..N : k[i] \in Int /\ g[i] = g[i - 1] + k[i]
  <2>. TAKE i \in 1..N
  <2>1. i - 1 \in 0..(N - 1) /\ (i - 1) + 1 = i
    OBVIOUS
  <2>2. g[(i - 1) + 1] = g[i - 1] + f[i - 1] /\ f[i - 1] \in Int
    BY <2>1
  <2>. QED BY <2>1, <2>2
<1>4. IsFiniteSet(1..N)
  BY FS_Interval
<1>. HIDE DEF h, k
<1>5. SumFunctionOnSet(f, Made(h, 1..N)) = SumFunctionOnSet(k, 1..N)
  BY SMTT(60), <1>2, <1>4, SumOfImage
<1>6. SumFunctionOnSet(k, 1..N) = g[N]
  BY <1>3, SumUpTo
<1>. QED BY <1>1, <1>5, <1>6

(* An annual amount over some months is so many years of it, and the first *)
(* shares of another.                                                      *)
OverMonths(annual, months) == (months \div 12) * annual + FirstShares(annual, 12, months % 12)

LEMMA SharesOfYear ==
  ASSUME NEW annual \in Int
  PROVE  /\ \A i \in 1..12 : /\ Allocate(annual, 12)[i] \in Int
                            /\ FirstShares(annual, 12, i)
                                 = FirstShares(annual, 12, i - 1) + Allocate(annual, 12)[i]
         /\ \A n \in 0..12 : FirstShares(annual, 12, n) \in Int
         /\ FirstShares(annual, 12, 0) = 0 /\ FirstShares(annual, 12, 12) = annual
         /\ annual >= 0 => \A i \in 1..12 : Allocate(annual, 12)[i] >= 0
<1>1. \A parts \in Nat \ {0} :
        /\ \A i \in 1..parts : Allocate(annual, parts)[i] \in Int
        /\ \A n \in 0..parts : FirstShares(annual, parts, n) \in Int
        /\ FirstShares(annual, parts, 0) = 0
        /\ FirstShares(annual, parts, parts) = annual
        /\ \A i \in 1..parts :
             FirstShares(annual, parts, i)
               = FirstShares(annual, parts, i - 1) + Allocate(annual, parts)[i]
        /\ annual >= 0 => \A i \in 1..parts : Allocate(annual, parts)[i] >= 0
  BY SharesAre
<1>2. 12 \in Nat \ {0}
  OBVIOUS
<1>. QED BY <1>1, <1>2

LEMMA MonthByMonth ==
  ASSUME NEW annual \in Int, NEW month \in Nat
  PROVE  /\ OverMonths(annual, month) \in Int
         /\ OverMonths(annual, month + 1)
              = OverMonths(annual, month) + Allocate(annual, 12)[(month % 12) + 1]
         /\ Allocate(annual, 12)[(month % 12) + 1] \in Int
<1>. DEFINE k == month \div 12
            r == month % 12
            a == k * annual
            first(n) == FirstShares(annual, 12, n)
            share(i) == Allocate(annual, 12)[i]
<1>1. k \in Nat /\ r \in 0..11 /\ a \in Int /\ (k + 1) * annual = a + annual
  OBVIOUS
<1>2. /\ \A i \in 1..12 : share(i) \in Int /\ first(i) = first(i - 1) + share(i)
      /\ \A n \in 0..12 : first(n) \in Int
      /\ first(0) = 0 /\ first(12) = annual
  BY SharesOfYear
<1>3. share(r + 1) \in Int /\ first(r + 1) = first(r) + share(r + 1) /\ first(r) \in Int
  <2>1. r + 1 \in 1..12 /\ (r + 1) - 1 = r /\ r \in 0..12
    BY <1>1
  <2>. HIDE DEF r, first, share
  <2>. QED BY <1>2, <2>1
<1>4. CASE r < 11
  <2>1. (month + 1) \div 12 = k /\ (month + 1) % 12 = r + 1
    BY <1>1, <1>4
  <2>2. OverMonths(annual, month + 1) = a + first(r + 1)
    BY <2>1 DEF OverMonths
  <2>3. OverMonths(annual, month) = a + first(r)
    BY DEF OverMonths
  <2>. HIDE DEF r, first, share, a
  <2>4. a + first(r + 1) = (a + first(r)) + share(r + 1) /\ a + first(r) \in Int
    BY <1>1, <1>3
  <2>. QED BY <1>3, <2>2, <2>3, <2>4 DEF share, r
<1>5. CASE r = 11
  <2>1. (month + 1) \div 12 = k + 1 /\ (month + 1) % 12 = 0
    BY <1>1, <1>5
  <2>2. OverMonths(annual, month + 1) = (k + 1) * annual + first(0)
    BY <2>1 DEF OverMonths
  <2>3. OverMonths(annual, month) = a + first(r)
    BY DEF OverMonths
  <2>4. first(r + 1) = annual
    BY <1>2, <1>5
  <2>. DEFINE b == (k + 1) * annual
  <2>4a. b = a + annual /\ first(0) = 0 /\ annual \in Int /\ a \in Int
    BY <1>1, <1>2
  <2>. HIDE DEF k, r, first, share, a, b
  <2>4b. b + first(0) = (a + first(r)) + share(r + 1) /\ a + first(r) \in Int
    BY <1>3, <2>4, <2>4a
  <2>5. (k + 1) * annual + first(0) = (a + first(r)) + share(r + 1) /\ a + first(r) \in Int
    BY <2>4b DEF b
  <2>. QED BY <1>3, <2>2, <2>3, <2>5 DEF share, r
<1>. QED BY <1>1, <1>4, <1>5

LEMMA AnnualIsOverMonths ==
  ASSUME NEW annual \in Int, NEW months \in Nat
  PROVE  AnnualOverMonths(annual, months) = OverMonths(annual, months)
<1>. DEFINE f == [month \in 0..(months - 1) |-> Allocate(annual, 12)[(month % 12) + 1]]
            g == [n \in 0..months |-> OverMonths(annual, n)]
<1>1. \A i \in 0..(months - 1) : f[i] \in Int /\ g[i + 1] = g[i] + f[i]
  <2>. TAKE i \in 0..(months - 1)
  <2>1. i \in Nat /\ i \in 0..months /\ i + 1 \in 0..months
    OBVIOUS
  <2>. QED BY <2>1, MonthByMonth
<1>2. g[0] = 0 /\ g[months] = OverMonths(annual, months)
  <2>1. 0 \div 12 = 0 /\ 0 % 12 = 0 /\ 0 * annual = 0
    OBVIOUS
  <2>2. FirstShares(annual, 12, 0) = 0
    BY SharesOfYear
  <2>. QED BY <2>1, <2>2 DEF OverMonths
<1>3. AnnualOverMonths(annual, months) = SumFunctionOnSet(f, 0..(months - 1))
  BY DEF AnnualOverMonths, SumFunction
<1>. HIDE DEF f, g
<1>4. SumFunctionOnSet(f, 0..(months - 1)) = g[months]
  BY <1>1, <1>2, SumBelow
<1>. QED BY <1>2, <1>3, <1>4

(* Whole years of it, and a year begun; it never falls for more months.    *)
LEMMA OverYears ==
  ASSUME NEW annual \in Int, NEW years \in Nat, NEW n \in 0..12
  PROVE  /\ OverMonths(annual, 12 * years + n) = years * annual + FirstShares(annual, 12, n)
         /\ OverMonths(annual, 12 * years) = years * annual
         /\ OverMonths(annual, n) = FirstShares(annual, 12, n)
<1>. DEFINE first(m) == FirstShares(annual, 12, m)
            a == years * annual
<1>1. first(0) = 0 /\ first(12) = annual /\ first(n) \in Int
  BY SharesOfYear
<1>2. a \in Int /\ (years + 1) * annual = a + annual /\ 0 * annual = 0 /\ 1 * annual = annual
  OBVIOUS
<1>3. CASE n < 12
  <2>1. /\ (12 * years + n) \div 12 = years /\ (12 * years + n) % 12 = n
        /\ n \div 12 = 0 /\ n % 12 = n
    BY <1>3
  <2>. QED BY <1>1, <1>2, <2>1 DEF OverMonths
<1>4. CASE n = 12
  <2>1. /\ (12 * years + n) \div 12 = years + 1 /\ (12 * years + n) % 12 = 0
        /\ n \div 12 = 1 /\ n % 12 = 0
    BY <1>4
  <2>. QED BY <1>1, <1>2, <1>4, <2>1 DEF OverMonths
<1>5. OverMonths(annual, 12 * years) = a
  <2>1. (12 * years) \div 12 = years /\ (12 * years) % 12 = 0
    OBVIOUS
  <2>. QED BY <1>1, <1>2, <2>1 DEF OverMonths
<1>. QED BY <1>3, <1>4, <1>5

-----------------------------------------------------------------------------
(* The schedule's total, which is the deal's. *)

(* What a set of instalments comes to. *)
NetOf(items) == SumFunctionOnSet([i \in items |-> i.net], items)

LEMMA NetTogether ==
  ASSUME NEW S, NEW T, IsFiniteSet(S), IsFiniteSet(T), S \cap T = {}, \A i \in S \cup T : i.net \in Int
  PROVE  NetOf(S \cup T) = NetOf(S) + NetOf(T) /\ NetOf(S) \in Int /\ NetOf(T) \in Int
<1>. DEFINE f == [i \in S \cup T |-> i.net]
            s == [i \in S |-> i.net]
            t == [i \in T |-> i.net]
<1>1. /\ \A i \in S : s[i] = f[i] /\ s[i] \in Int
      /\ \A i \in T : t[i] = f[i] /\ t[i] \in Int
      /\ \A i \in S \cup T : f[i] \in Int
  OBVIOUS
<1>. HIDE DEF f, s, t
<1>2. SumFunctionOnSet(s, S) = SumFunctionOnSet(f, S) /\ SumFunctionOnSet(s, S) \in Int
  BY <1>1, SumSame, SumType
<1>3. SumFunctionOnSet(t, T) = SumFunctionOnSet(f, T) /\ SumFunctionOnSet(t, T) \in Int
  BY <1>1, SumSame, SumType
<1>4. SumFunctionOnSet(f, S \cup T) = SumFunctionOnSet(f, S) + SumFunctionOnSet(f, T)
  BY <1>1, SumUnion
<1>. QED BY <1>2, <1>3, <1>4 DEF NetOf, f, s, t

(* Instalments numbered from one come to what g says so far. *)
LEMMA NetInSequence ==
  ASSUME NEW N \in Nat, NEW h, \A i \in 1..N : h[i].sequence = i /\ h[i].net \in Int,
         NEW g, g[0] = 0, \A i \in 1..N : g[i] = g[i - 1] + h[i].net
  PROVE  /\ NetOf(Made(h, 1..N)) = g[N] /\ IsFiniteSet(Made(h, 1..N))
         /\ \A x \in Made(h, 1..N) : x.net \in Int
<1>. DEFINE All == Made(h, 1..N)
            f == [x \in All |-> x.net]
            k == [i \in 1..N |-> h[i].net]
<1>1. IsFiniteSet(1..N) /\ IsFiniteSet(All)
  BY FS_Interval, MadeIsFinite
<1>2. \A i \in 1..N : h[i] \in All /\ f[h[i]] \in Int /\ k[i] = f[h[i]]
  BY DEF Made
<1>3. \A i, j \in 1..N : h[i] = h[j] => i = j
  <2>. TAKE i, j \in 1..N
  <2>1. h[i].sequence = i /\ h[j].sequence = j
    OBVIOUS
  <2>. QED BY <2>1
<1>4. \A i \in 1..N : k[i] \in Int /\ g[i] = g[i - 1] + k[i]
  OBVIOUS
<1>5. \A x \in All : x.net \in Int
  BY DEF Made
<1>6. SumFunctionOnSet(f, All) = NetOf(All)
  BY DEF NetOf
<1>. HIDE DEF f, k
<1>7. SumFunctionOnSet(f, Made(h, 1..N)) = SumFunctionOnSet(k, 1..N)
  <2>. DEFINE S == 1..N
  <2>1. /\ IsFiniteSet(S) /\ \A x, y \in S : h[x] = h[y] => x = y
        /\ \A x \in S : f[h[x]] \in Int /\ k[x] = f[h[x]]
    BY <1>1, <1>2, <1>3
  <2>. HIDE DEF S
  <2>2. SumFunctionOnSet(f, Made(h, S)) = SumFunctionOnSet(k, S)
    BY <2>1, SumOfImage
  <2>. QED BY <2>2 DEF S
<1>8. SumFunctionOnSet(k, 1..N) = g[N]
  BY <1>4, SumUpTo
<1>. QED BY <1>1, <1>5, <1>6, <1>7, <1>8

LEMMA NetOfOne ==
  ASSUME NEW x, x.net \in Int
  PROVE  NetOf({x}) = x.net /\ IsFiniteSet({x})
<1>. DEFINE f == [i \in {x} |-> i.net]
<1>1. f[x] = x.net /\ IsFiniteSet({x}) /\ {x} \ {x} = {} /\ \A i \in {x} : f[i] \in Int
  BY FS_Singleton
<1>. HIDE DEF f
<1>2. SumFunctionOnSet(f, {x}) = f[x] + SumFunctionOnSet(f, {x} \ {x})
  BY <1>1, SumRemove
<1>3. SumFunctionOnSet(f, {x}) = f[x] + 0
  BY <1>1, <1>2, SumOfNone
<1>. QED BY <1>1, <1>3 DEF NetOf, f

LEMMA NetOfNone == NetOf({}) = 0 /\ IsFiniteSet({})
BY SumOfNone, FS_EmptySet DEF NetOf

MonthItems(start, months, amount) ==
  {Instalment("rental", i, AddMonths(start, i - 1), DayBefore(AddMonths(start, i)), amount) :
     i \in 1..months}

YearItems(start, months, amount) ==
  {Instalment("insurance", i, AddMonths(start, 12 * (i - 1)),
     DayBefore(AddMonths(start, 12 * (i - 1) + MonthsCovered(i, months))),
     IF MonthsCovered(i, months) = 12 THEN amount
     ELSE AnnualOverMonths(amount, MonthsCovered(i, months))) :
       i \in 1..((months + 11) \div 12)}

LEMMA MonthsTotal ==
  ASSUME NEW start, NEW months \in Nat, NEW amount \in Nat
  PROVE  LET items == MonthItems(start, months, amount) IN
         NetOf(items) = amount * months /\ IsFiniteSet(items) /\ \A x \in items : x.net \in Int
<1>. DEFINE h == [i \in 1..months |-> Instalment("rental", i, AddMonths(start, i - 1),
                                        DayBefore(AddMonths(start, i)), amount)]
            g == [n \in 0..months |-> amount * n]
<1>1. MonthItems(start, months, amount) = Made(h, 1..months)
  BY DEF Made, MonthItems
<1>2. \A i \in 1..months : h[i].sequence = i /\ h[i].net = amount
  BY DEF Instalment
<1>3. g[0] = 0 /\ g[months] = amount * months
  BY SMTT(20)
<1>4. \A i \in 1..months : g[i] = g[i - 1] + amount
  <2>. TAKE i \in 1..months
  <2>1. g[i] = amount * i /\ g[i - 1] = amount * (i - 1)
    OBVIOUS
  <2>2. amount * i = amount * (i - 1) + amount
    OBVIOUS
  <2>. QED BY <2>1, <2>2
<1>. HIDE DEF h, g
<1>5. \A i \in 1..months : h[i].sequence = i /\ h[i].net \in Int /\ g[i] = g[i - 1] + h[i].net
  BY <1>2, <1>4
<1>6. /\ NetOf(Made(h, 1..months)) = g[months] /\ IsFiniteSet(Made(h, 1..months))
      /\ \A x \in Made(h, 1..months) : x.net \in Int
  <2>1. months \in Nat /\ g[0] = 0
    BY <1>3
  <2>. QED BY <1>5, <2>1, NetInSequence
<1>. QED BY <1>1, <1>3, <1>6, Zenon

(* Of a year's premium: the year, or the shares of the months it covers.   *)
LEMMA YearsTotal ==
  ASSUME NEW start, NEW months \in Nat \ {0}, NEW amount \in Nat
  PROVE  LET items == YearItems(start, months, amount) IN
         /\ NetOf(items) = AnnualOverMonths(amount, months) /\ IsFiniteSet(items)
         /\ \A x \in items : x.net \in Int
<1>. DEFINE years == (months + 11) \div 12
            net(i) == IF MonthsCovered(i, months) = 12 THEN amount
                      ELSE AnnualOverMonths(amount, MonthsCovered(i, months))
            h == [i \in 1..years |-> Instalment("insurance", i, AddMonths(start, 12 * (i - 1)),
                    DayBefore(AddMonths(start, 12 * (i - 1) + MonthsCovered(i, months))), net(i))]
            upTo(n) == IF 12 * n > months THEN months ELSE 12 * n
            g == [n \in 0..years |-> OverMonths(amount, upTo(n))]
<1>1. YearItems(start, months, amount) = Made(h, 1..years)
  BY DEF Made, YearItems
<1>2. \A i \in 1..years : h[i].sequence = i /\ h[i].net = net(i)
  BY DEF Instalment
<1>3. years \in Nat /\ upTo(years) = months /\ upTo(0) = 0
  OBVIOUS
<1>4. \A i \in 1..years :
        /\ MonthsCovered(i, months) \in 1..12
        /\ upTo(i) = 12 * (i - 1) + MonthsCovered(i, months)
        /\ upTo(i - 1) = 12 * (i - 1)
        /\ i - 1 \in Nat
  BY DEF MonthsCovered
<1>. HIDE DEF upTo
<1>5. \A i \in 1..years :
        net(i) \in Int /\ OverMonths(amount, upTo(i)) = OverMonths(amount, upTo(i - 1)) + net(i)
  <2>. TAKE i \in 1..years
  <2>. DEFINE n == MonthsCovered(i, months)
  <2>1. n \in 0..12 /\ n \in Nat /\ i - 1 \in Nat /\ amount \in Int
    BY <1>4
  <2>2. /\ OverMonths(amount, 12 * (i - 1) + n) = (i - 1) * amount + FirstShares(amount, 12, n)
        /\ OverMonths(amount, 12 * (i - 1)) = (i - 1) * amount
        /\ OverMonths(amount, n) = FirstShares(amount, 12, n)
    <3>. HIDE DEF n
    <3>. QED BY <2>1, OverYears
  <2>3. net(i) = FirstShares(amount, 12, n) /\ FirstShares(amount, 12, n) \in Int
    <3>1. AnnualOverMonths(amount, n) = OverMonths(amount, n)
      <4>. HIDE DEF n
      <4>. QED BY <2>1, AnnualIsOverMonths
    <3>2. n = 12 => FirstShares(amount, 12, n) = amount
      BY <2>1, SharesOfYear
    <3>3. FirstShares(amount, 12, n) \in Int
      <4>. HIDE DEF n
      <4>. QED BY <2>1, SharesOfYear
    <3>. QED BY <2>2, <3>1, <3>2, <3>3
  <2>4. upTo(i) = 12 * (i - 1) + n /\ upTo(i - 1) = 12 * (i - 1)
    BY <1>4
  <2>. HIDE DEF n, net
  <2>. QED BY <2>2, <2>3, <2>4
<1>6. g[0] = 0
  <2>1. OverMonths(amount, 12 * 0) = 0 * amount
    BY OverYears, 0 \in 0..12, amount \in Int
  <2>2. 12 * 0 = 0 /\ 0 * amount = 0
    OBVIOUS
  <2>. QED BY <1>3, <2>1, <2>2
<1>7. g[years] = AnnualOverMonths(amount, months)
  BY <1>3, AnnualIsOverMonths
<1>8. \A i \in 1..years : g[i] = g[i - 1] + net(i)
  <2>. HIDE DEF net
  <2>. QED BY <1>3, <1>5
<1>. HIDE DEF h, g, years, net
<1>9. \A i \in 1..years : h[i].sequence = i /\ h[i].net \in Int /\ g[i] = g[i - 1] + h[i].net
  BY <1>2, <1>5, <1>8
<1>10. /\ NetOf(Made(h, 1..years)) = g[years] /\ IsFiniteSet(Made(h, 1..years))
       /\ \A x \in Made(h, 1..years) : x.net \in Int
  <2>1. years \in Nat
    BY <1>3
  <2>. QED BY <1>6, <1>9, <2>1, NetInSequence
<1>. QED BY <1>1, <1>7, <1>10, Zenon

LEMMA NothingOverMonths ==
  ASSUME NEW months \in Nat
  PROVE  AnnualOverMonths(0, months) = 0
<1>1. Quotient(0, 12) = 0 /\ Remainder(0, 12) = 0
  BY DEF Quotient, Remainder, Magnitude
<1>2. \A n \in Nat : FirstShares(0, 12, n) = 0
  BY <1>1 DEF FirstShares, Magnitude
<1>3. OverMonths(0, months) = 0
  BY <1>2 DEF OverMonths
<1>. QED BY <1>3, AnnualIsOverMonths

LEMMA DealtInAll ==
  ASSUME NEW terms \in Sheets
  PROVE  DealOf(terms).totalRevenue
           = terms.rental * terms.months + AnnualOverMonths(terms.insurance, terms.months)
               + terms.downPayment + terms.buyout
BY DEF Sheets, DealOf, CalculateDeal, MoneyFields

(* The charges of a contract, those of nothing left out. *)
LEMMA ScheduledParts ==
  ASSUME NEW terms \in Sheets
  PROVE  LET once(key, on, amount) == IF amount > 0 THEN {Instalment(key, 1, on, on, amount)} ELSE {}
             rental == {x \in BuildSchedule(terms) : x.key = "rental"}
             insurance == {x \in BuildSchedule(terms) : x.key = "insurance"}
         IN /\ BuildSchedule(terms)
                 = rental \cup (insurance
                     \cup (once("down-payment", terms.start, terms.downPayment)
                       \cup once("buyout", ContractEndDate(terms.start, terms.months), terms.buyout)))
            /\ terms.insurance = 0 => insurance = {}
            /\ terms.insurance > 0 => insurance # {}
<1>. DEFINE rental == Charge("rental", "MONTHLY", terms.rental, terms.start, terms.months)
            down == Charge("down-payment", "ONCE", terms.downPayment, terms.start, 1)
            insurance == Charge("insurance", "ANNUAL", terms.insurance, terms.start, Years(terms))
            buyout == Charge("buyout", "ONCE", terms.buyout,
                             ContractEndDate(terms.start, terms.months), 1)
            Items(c) == ExpandCharge(c, terms.months, 500)
            Of(key) == {x \in BuildSchedule(terms) : x.key = key}
            charges == ChargesFor(terms)
<1>1. /\ charges \subseteq {rental, down, insurance, buyout}
      /\ rental \in charges
  BY DEF ChargesFor, Charge, Years
<1>2. /\ down \in charges <=> terms.downPayment > 0
      /\ insurance \in charges <=> terms.insurance > 0
      /\ buyout \in charges <=> terms.buyout > 0
  <2>1. charges = {rental} \cup {c \in {down, insurance, buyout} : c.amount > 0}
    BY DEF ChargesFor, Charge, Years
  <2>2. /\ rental.key = "rental" /\ down.key = "down-payment" /\ insurance.key = "insurance"
        /\ buyout.key = "buyout"
        /\ down.amount = terms.downPayment /\ insurance.amount = terms.insurance
        /\ buyout.amount = terms.buyout
    BY DEF Charge
  <2>. HIDE DEF rental, down, insurance, buyout, charges
  <2>. QED BY <2>1, <2>2
<1>3. BuildSchedule(terms) = UNION {Items(c) : c \in charges}
  BY DEF BuildSchedule, Sheets
<1>4. \A x \in Items(rental) : x.key = "rental"
  BY MonthlyItems DEF Instalment
<1>5. \A x \in Items(insurance) : x.key = "insurance"
  BY AnnualItems DEF Instalment
<1>6. /\ \A x \in Items(down) : x.key = "down-payment"
      /\ \A x \in Items(buyout) : x.key = "buyout"
      /\ Items(down) = {Instalment("down-payment", 1, terms.start, terms.start, terms.downPayment)}
      /\ Items(buyout) = {Instalment("buyout", 1, ContractEndDate(terms.start, terms.months),
                            ContractEndDate(terms.start, terms.months), terms.buyout)}
  BY OnceItems DEF Instalment
<1>7. Items(insurance) # {}
  <2>1. 1 \in 1..Years(terms)
    BY DEF Sheets, Years
  <2>2. Items(insurance) = YearItems(terms.start, terms.months, terms.insurance)
    BY AnnualItems DEF YearItems, Years
  <2>. QED BY <2>1, <2>2 DEF YearItems, Years
<1>. HIDE DEF rental, down, insurance, buyout, Items, charges
<1>8. Of("rental") = Items(rental)
  BY <1>1, <1>3, <1>4, <1>5, <1>6
<1>9. Of("insurance") = IF terms.insurance > 0 THEN Items(insurance) ELSE {}
  BY <1>1, <1>2, <1>3, <1>4, <1>5, <1>6
<1>. DEFINE D == IF terms.downPayment > 0 THEN Items(down) ELSE {}
            B == IF terms.buyout > 0 THEN Items(buyout) ELSE {}
            I == IF terms.insurance > 0 THEN Items(insurance) ELSE {}
<1>10. BuildSchedule(terms) = Items(rental) \cup (I \cup (D \cup B))
  BY <1>1, <1>2, <1>3
<1>11. terms.insurance = 0 => ~(terms.insurance > 0)
  OBVIOUS
<1>. QED BY <1>6, <1>7, <1>8, <1>9, <1>10, <1>11

(* However long, of whatever amounts and from whatever day: a contract is  *)
(* invoiced month by month for what was quoted and covers its term, and    *)
(* its instalments come, to the fil, to what the deal calculator said it   *)
(* would bring (buildSchedule, calculateDeal).                             *)
THEOREM ScheduleIsDeal ==
  ASSUME NEW terms \in Sheets
  PROVE  ScheduleIsTheDeal(terms)
<1>. DEFINE R == {x \in BuildSchedule(terms) : x.key = "rental"}
            I == {x \in BuildSchedule(terms) : x.key = "insurance"}
            once(key, on, amount) == IF amount > 0 THEN {Instalment(key, 1, on, on, amount)} ELSE {}
            D == once("down-payment", terms.start, terms.downPayment)
            B == once("buyout", ContractEndDate(terms.start, terms.months), terms.buyout)
<1>1. /\ BuildSchedule(terms) = R \cup (I \cup (D \cup B))
      /\ terms.insurance = 0 => I = {}
      /\ terms.insurance > 0 => I # {}
  BY ScheduledParts
<1>2. /\ terms.months \in Nat \ {0} /\ terms.months \in Nat /\ terms.rental \in Nat
      /\ terms.insurance \in Nat /\ terms.downPayment \in Nat /\ terms.buyout \in Nat
  BY DEF Sheets
<1>3. NetOf(R) = terms.rental * terms.months /\ IsFiniteSet(R) /\ \A x \in R : x.net \in Int
  <2>1. R = MonthItems(terms.start, terms.months, terms.rental)
    BY Scheduled DEF MonthItems
  <2>. HIDE DEF R
  <2>. QED BY <1>2, <2>1, MonthsTotal
<1>4. /\ NetOf(I) = AnnualOverMonths(terms.insurance, terms.months) /\ IsFiniteSet(I)
      /\ \A x \in I : x.net \in Int
  <2>1. CASE terms.insurance = 0
    <3>1. NetOf(I) = 0 /\ IsFiniteSet(I) /\ I = {}
      BY <1>1, <2>1, NetOfNone
    <3>2. AnnualOverMonths(terms.insurance, terms.months) = 0
      BY <1>2, <2>1, NothingOverMonths
    <3>. QED BY <3>1, <3>2
  <2>2. CASE terms.insurance > 0
    <3>1. I = YearItems(terms.start, terms.months, terms.insurance)
      BY <1>1, <2>2, Scheduled DEF YearItems, Years
    <3>. HIDE DEF I
    <3>. QED BY <1>2, <3>1, YearsTotal
  <2>. QED BY <1>2, <2>1, <2>2
<1>5. ASSUME NEW key, NEW on, NEW amount \in Nat
      PROVE  /\ NetOf(once(key, on, amount)) = amount /\ IsFiniteSet(once(key, on, amount))
             /\ \A x \in once(key, on, amount) : x.net \in Int
  <2>1. Instalment(key, 1, on, on, amount).net = amount
    BY DEF Instalment
  <2>2. CASE amount > 0
    BY <2>1, <2>2, NetOfOne
  <2>3. CASE amount = 0
    BY <2>3, NetOfNone
  <2>. QED BY <2>2, <2>3
<1>6. /\ NetOf(D) = terms.downPayment /\ IsFiniteSet(D) /\ \A x \in D : x.net \in Int
      /\ NetOf(B) = terms.buyout /\ IsFiniteSet(B) /\ \A x \in B : x.net \in Int
  BY <1>2, <1>5
<1>7. /\ \A x \in R : x.key = "rental"
      /\ \A x \in I : x.key = "insurance"
      /\ \A x \in D : x.key = "down-payment"
      /\ \A x \in B : x.key = "buyout"
  BY DEF Instalment
<1>. HIDE DEF R, I, D, B, once
<1>8. D \cap B = {} /\ I \cap (D \cup B) = {} /\ R \cap (I \cup (D \cup B)) = {}
  BY <1>7
<1>9. NetOf(D \cup B) = terms.downPayment + terms.buyout /\ IsFiniteSet(D \cup B)
  <2>1. \A x \in D \cup B : x.net \in Int
    BY <1>6
  <2>2. NetOf(D \cup B) = NetOf(D) + NetOf(B)
    BY <1>6, <1>8, <2>1, NetTogether
  <2>. QED BY <1>6, <2>2, FS_Union
<1>10. NetOf(I \cup (D \cup B)) = NetOf(I) + NetOf(D \cup B) /\ IsFiniteSet(I \cup (D \cup B))
  <2>1. \A x \in I \cup (D \cup B) : x.net \in Int
    BY <1>4, <1>6
  <2>. QED BY <1>4, <1>8, <1>9, <2>1, NetTogether, FS_Union
<1>11. NetOf(R \cup (I \cup (D \cup B))) = NetOf(R) + NetOf(I \cup (D \cup B))
  <2>1. \A x \in R \cup (I \cup (D \cup B)) : x.net \in Int
    BY <1>3, <1>4, <1>6
  <2>. QED BY <1>3, <1>8, <1>10, <2>1, NetTogether
<1>12. NetOf(BuildSchedule(terms)) = DealOf(terms).totalRevenue
  <2>. DEFINE a == terms.rental * terms.months
              b == AnnualOverMonths(terms.insurance, terms.months)
  <2>1. NetOf(BuildSchedule(terms)) = a + (b + (terms.downPayment + terms.buyout))
    BY <1>1, <1>3, <1>4, <1>9, <1>10, <1>11, Zenon
  <2>2. DealOf(terms).totalRevenue = a + b + terms.downPayment + terms.buyout
    BY DealtInAll
  <2>3. a \in Int /\ b \in Int
    <3>1. a \in Int
      BY <1>2
    <3>2. terms.insurance \in Int
      BY <1>2
    <3>3. OverMonths(terms.insurance, terms.months) \in Int
      BY <1>2, <3>2, MonthByMonth
    <3>4. b \in Int
      BY <1>2, <3>2, <3>3, AnnualIsOverMonths
    <3>. QED BY <3>1, <3>4
  <2>. HIDE DEF a, b
  <2>. QED BY <1>2, <2>1, <2>2, <2>3
<1>. QED BY <1>12, MonthsAsDealt DEF ScheduleIsTheDeal, NetOf, SumFunction

-----------------------------------------------------------------------------
(* The deal calculator, for whatever is typed. *)

Deals ==
  [of : {"deal"}, type : {"RENTAL", "LEASE_TO_OWN"}, ownership : {"OWNED", "B2B_SUPPLIER"},
   months : Int, rental : Int, vehicleCost : Int, maintenance : Int, insurance : Int,
   insuranceCost : Int, downPayment : Int, buyout : Int, oneOffCost : Int, otherCosts : Int]

LEMMA NeverLessForLonger ==
  ASSUME NEW annual \in Nat, NEW m \in Nat, NEW n \in Nat, m <= n
  PROVE  OverMonths(annual, m) <= OverMonths(annual, n) /\ OverMonths(annual, m) >= 0
<1>. DEFINE sum(k) == OverMonths(annual, k)
            Good == {k \in Nat : sum(m) <= sum(m + k)}
            Positive == {k \in Nat : sum(k) >= 0}
<1>1. \A k \in Nat : sum(k) \in Int /\ sum(k + 1) >= sum(k)
  <2>. TAKE k \in Nat
  <2>. DEFINE share == Allocate(annual, 12)[(k % 12) + 1]
  <2>1. (k % 12) + 1 \in 1..12 /\ annual \in Int /\ annual >= 0
    OBVIOUS
  <2>2. share >= 0
    <3>1. \A i \in 1..12 : Allocate(annual, 12)[i] >= 0
      BY <2>1, SharesOfYear
    <3>. QED BY <2>1, <3>1
  <2>3. sum(k) \in Int /\ sum(k + 1) = sum(k) + share /\ share \in Int
    BY <2>1, MonthByMonth
  <2>. HIDE DEF share, sum
  <2>. QED BY <2>2, <2>3
<1>2. sum(0) = 0
  <2>1. 0 \div 12 = 0 /\ 0 % 12 = 0 /\ 0 * annual = 0 /\ annual \in Int
    OBVIOUS
  <2>2. FirstShares(annual, 12, 0) = 0
    BY <2>1, SharesOfYear
  <2>. QED BY <2>1, <2>2 DEF OverMonths
<1>. HIDE DEF sum
<1>3. 0 \in Good /\ 0 \in Positive
  BY <1>1, <1>2
<1>4. ASSUME NEW k \in Nat
      PROVE  /\ k \in Good => k + 1 \in Good
             /\ k \in Positive => k + 1 \in Positive
  <2>1. m + k \in Nat /\ m + (k + 1) = (m + k) + 1
    OBVIOUS
  <2>2. sum((m + k) + 1) >= sum(m + k) /\ sum((m + k) + 1) \in Int /\ sum(m + k) \in Int
    BY <1>1, <2>1
  <2>. QED BY <1>1, <2>1, <2>2
<1>5. \A k \in Nat : k \in Good
  <2>. HIDE DEF Good
  <2>. QED BY <1>3, <1>4, CountingUp
<1>6. \A k \in Nat : k \in Positive
  <2>. HIDE DEF Positive
  <2>. QED BY <1>3, <1>4, CountingUp
<1>7. n - m \in Nat /\ m + (n - m) = n
  OBVIOUS
<1>8. sum(m) <= sum(n)
  BY <1>5, <1>7
<1>. QED BY <1>6, <1>8 DEF sum

PartOf(part, whole) == part >= 0 /\ part <= 10000 * whole

(* A part of a positive whole is at most the whole, in basis points. *)
LEMMA BasisPoints ==
  ASSUME NEW part \in Int, NEW whole \in Nat \ {0}
  PROVE  PartOf(part, whole) => DivideRound(part, whole, "HALF_UP") \in Margins
<1>. DEFINE points == DivideRound(part, whole, "HALF_UP")
<1>1. PICK m \in Nat :
        /\ points = IF part < 0 THEN -m ELSE m
        /\ 2 * (whole * m - Magnitude(part)) \in (1 - whole)..whole
  BY HalfUp
<1>. SUFFICES ASSUME part >= 0, part <= 10000 * whole
              PROVE  points \in 0..10000
  BY DEF PartOf, Margins
<1>. HIDE DEF points
<1>2. points = m /\ 2 * (whole * m - part) <= whole
  BY <1>1 DEF Magnitude
<1>3. m > 10000 => FALSE
  <2>. SUFFICES ASSUME m > 10000 PROVE FALSE
    OBVIOUS
  <2>1. m - 10001 \in Nat /\ m = 10001 + (m - 10001)
    OBVIOUS
  <2>2. whole * (m - 10001) >= 0 /\ whole * (m - 10001) \in Int
    BY <2>1
  <2>3. whole * m = 10001 * whole + whole * (m - 10001)
    BY <2>1
  <2>. DEFINE x == whole * m
              y == whole * (m - 10001)
  <2>4. x = 10001 * whole + y /\ y \in Nat /\ 2 * (x - part) <= whole
    BY <1>2, <2>2, <2>3
  <2>. HIDE DEF x, y
  <2>. QED BY <2>4
<1>. QED BY SMTT(60), <1>2, <1>3

LEMMA MultiplyOut ==
  ASSUME NEW a \in Int, NEW b \in Int, NEW n \in Int
  PROVE  (a - b) * n = a * n - b * n /\ a * n \in Int /\ b * n \in Int
BY SMTT(60)

LEMMA DealWithoutIssues ==
  ASSUME NEW deal \in Deals, DealIssues(deal) = {}
  PROVE  DealAddsUp(deal)
<1>. DEFINE months == deal.months
            first == IF months < 12 THEN months ELSE 12
            premium == AnnualOverMonths(deal.insurance, months)
            premium1 == AnnualOverMonths(deal.insurance, first)
            covers == AnnualOverMonths(deal.insuranceCost, months)
            rent == deal.rental * months
            rent1 == deal.rental * first
            cars == deal.vehicleCost * months
            upkeep == deal.maintenance * months
            revenue == rent + premium + deal.downPayment + deal.buyout
            cost == cars + deal.oneOffCost + covers + upkeep + deal.otherCosts
            profit == revenue - cost
            sum == CalculateDeal(deal)
<1>1. months \in Nat \ {0}
  BY DEF DealIssues, Deals
<1>2. /\ deal.rental \in Nat /\ deal.vehicleCost \in Nat /\ deal.maintenance \in Nat
      /\ deal.insurance \in Nat /\ deal.insuranceCost \in Nat /\ deal.downPayment \in Nat
      /\ deal.buyout \in Nat /\ deal.oneOffCost \in Nat /\ deal.otherCosts \in Nat
  <2>1. \A f \in MoneyFields : ~(deal[f] < 0)
    BY DEF DealIssues
  <2>. QED BY <2>1 DEF MoneyFields, Deals
<1>3. /\ sum.firstYearRevenue = rent1 + premium1
      /\ sum.grossProfitFromRental = (deal.rental - deal.vehicleCost) * months
      /\ sum.totalRevenue = revenue
      /\ sum.totalProfit = profit
      /\ sum.marginBasisPoints
           = IF revenue > 0 THEN DivideRound(profit * 10000, revenue, "HALF_UP") ELSE 0
  BY DEF CalculateDeal
<1>4. /\ premium \in Nat /\ premium1 \in Nat /\ covers \in Nat /\ premium1 <= premium
  <2>1. first \in Nat /\ first <= months /\ months \in Nat /\ deal.insurance \in Int
        /\ deal.insuranceCost \in Int /\ months <= months
    BY <1>1, <1>2
  <2>2. /\ premium = OverMonths(deal.insurance, months)
        /\ premium1 = OverMonths(deal.insurance, first)
        /\ covers = OverMonths(deal.insuranceCost, months)
    BY <2>1, AnnualIsOverMonths
  <2>3. /\ OverMonths(deal.insurance, months) \in Int
        /\ OverMonths(deal.insurance, first) \in Int
        /\ OverMonths(deal.insuranceCost, months) \in Int
    BY <2>1, MonthByMonth
  <2>4. /\ OverMonths(deal.insurance, first) <= OverMonths(deal.insurance, months)
        /\ OverMonths(deal.insurance, first) >= 0
    BY <1>2, <2>1, NeverLessForLonger
  <2>5. OverMonths(deal.insuranceCost, months) >= 0
    BY <1>2, <2>1, NeverLessForLonger
  <2>. HIDE DEF premium, premium1, covers, first
  <2>. QED BY <2>2, <2>3, <2>4, <2>5
<1>5. /\ rent \in Nat /\ rent1 \in Nat /\ rent1 <= rent /\ cars \in Nat /\ upkeep \in Nat
      /\ (deal.rental - deal.vehicleCost) * months = rent - cars
  <2>1. first \in Nat /\ first <= months
    BY <1>1
  <2>2. rent \in Nat /\ cars \in Nat /\ upkeep \in Nat
    BY <1>1, <1>2
  <2>3. (deal.rental - deal.vehicleCost) * months = rent - cars
    BY <1>1, <1>2, MultiplyOut
  <2>4. rent1 \in Nat /\ rent1 <= rent
    <3>. DEFINE r == deal.rental
                k == months
    <3>1. r \in Nat /\ k \in Nat /\ k - first \in Nat
      BY <1>1, <1>2, <2>1
    <3>. HIDE DEF r, k, first
    <3>2. r * first \in Nat /\ r * (k - first) \in Nat /\ r * k = r * first + r * (k - first)
      BY <2>1, <3>1
    <3>3. r * first <= r * k
      BY <3>2
    <3>. QED BY <3>2, <3>3 DEF r, k
  <2>. QED BY <2>2, <2>3, <2>4
<1>. HIDE DEF months, first, premium, premium1, covers, rent, rent1, cars, upkeep, sum
<1>6. rent1 + premium1 <= revenue
  BY <1>2, <1>4, <1>5
<1>7. profit = (rent - cars) + premium - covers + deal.downPayment + deal.buyout
                         - deal.oneOffCost - deal.otherCosts - upkeep
  BY <1>2, <1>4, <1>5
<1>8. revenue \in Nat /\ cost \in Nat /\ profit \in Int /\ (profit <= revenue)
  BY <1>2, <1>4, <1>5
<1>. HIDE DEF revenue, cost, profit
<1>9. revenue > 0 /\ profit >= 0 => sum.marginBasisPoints \in Margins
  <2>. SUFFICES ASSUME revenue > 0, profit >= 0
                PROVE  sum.marginBasisPoints \in Margins
    OBVIOUS
  <2>. DEFINE part == profit * 10000
  <2>1. part \in Int /\ part >= 0 /\ part <= 10000 * revenue
    BY <1>8
  <2>2. part \in Int /\ revenue \in Nat \ {0}
    BY <1>8, <2>1
  <2>3. sum.marginBasisPoints = DivideRound(part, revenue, "HALF_UP")
    BY <1>3
  <2>. HIDE DEF part
  <2>4. PartOf(part, revenue)
    BY <2>1 DEF PartOf
  <2>5. DivideRound(part, revenue, "HALF_UP") \in Margins
    BY <2>2, <2>4, BasisPoints, Zenon
  <2>. QED BY <2>3, <2>5
<1>10. /\ sum.firstYearRevenue <= sum.totalRevenue
       /\ sum.totalProfit = sum.grossProfitFromRental + premium - covers
            + deal.downPayment + deal.buyout - deal.oneOffCost - deal.otherCosts - upkeep
       /\ sum.totalRevenue > 0 /\ sum.totalProfit >= 0 => sum.marginBasisPoints \in Margins
  <2>1. sum.firstYearRevenue <= sum.totalRevenue
    BY <1>3, <1>6, Zenon
  <2>2. sum.totalProfit = sum.grossProfitFromRental + premium - covers
          + deal.downPayment + deal.buyout - deal.oneOffCost - deal.otherCosts - upkeep
    BY <1>3, <1>5, <1>7, Zenon
  <2>3. sum.totalRevenue > 0 /\ sum.totalProfit >= 0 => sum.marginBasisPoints \in Margins
    <3>1. sum.totalRevenue = revenue /\ sum.totalProfit = profit
      BY <1>3
    <3>. QED BY <1>9, <3>1
  <2>. QED BY SMTT(60), <2>1, <2>2, <2>3
<1>11. CalculateDeal(deal).firstYearRevenue <= CalculateDeal(deal).totalRevenue
  BY ZenonT(60), <1>10 DEF sum
<1>12. CalculateDeal(deal).totalProfit = CalculateDeal(deal).grossProfitFromRental
         + AnnualOverMonths(deal.insurance, deal.months)
         - AnnualOverMonths(deal.insuranceCost, deal.months)
         + deal.downPayment + deal.buyout
         - deal.oneOffCost - deal.otherCosts - deal.maintenance * deal.months
  BY ZenonT(60), <1>10 DEF sum, premium, covers, upkeep, months
<1>13. CalculateDeal(deal).totalRevenue > 0 /\ CalculateDeal(deal).totalProfit >= 0
         => CalculateDeal(deal).marginBasisPoints \in Margins
  BY ZenonT(60), <1>10 DEF sum
<1>. QED BY <1>11, <1>12, <1>13, SMTT(60) DEF DealAddsUp

(* Whatever is typed, a deal without an issue is never worth more in its   *)
(* first year than in all, its profit is the rental's with everything else *)
(* counted once, and its margin is between nothing and the whole of it     *)
(* (validateDealInput, calculateDeal).                                     *)
THEOREM DealSums ==
  ASSUME NEW deal \in Deals
  PROVE  DealAddsUp(deal)
<1>1. DealIssues(deal) # {} => DealAddsUp(deal)
  BY DEF DealAddsUp
<1>. QED BY SMTT(60), <1>1, DealWithoutIssues

-----------------------------------------------------------------------------
(* Statements of account. *)

IsInvoice(i) == i.id \in Int /\ i.due \in Date /\ i.waivedAt \in Date /\ i.gross \in Int
IsPayment(p) == p.id \in Int /\ p.receivedOn \in Date /\ p.amount \in Int
IsMovement(m) == m.date \in Date /\ m.kind \in Int /\ m.id \in Int /\ m.net \in Int

(* A customer's invoices and payments, on days since the year nought. *)
IsBook(book) ==
  /\ IsFiniteSet(book.invoices) /\ \A i \in book.invoices : IsInvoice(i)
  /\ IsFiniteSet(book.payments) /\ \A p \in book.payments : IsPayment(p)

LEMMA MovementsAre ==
  ASSUME NEW invoices, IsFiniteSet(invoices), \A i \in invoices : IsInvoice(i),
         NEW payments, IsFiniteSet(payments), \A p \in payments : IsPayment(p), NEW until
  PROVE  /\ IsFiniteSet(Movements(invoices, payments, until))
         /\ \A m \in Movements(invoices, payments, until) : IsMovement(m)
<1>. DEFINE billed == {i \in invoices : ~Earlier(until, i.due)}
            waived == {i \in invoices : ~Earlier(until, i.due) /\ i.waived}
            paid == {p \in payments : ~Earlier(until, p.receivedOn)}
            bill == [i \in billed |-> [date |-> i.due, kind |-> 0, id |-> i.id, net |-> i.gross]]
            credit == [i \in waived |->
                         [date |-> i.waivedAt, kind |-> 1, id |-> i.id, net |-> -i.gross]]
            receipt == [p \in paid |->
                          [date |-> p.receivedOn, kind |-> 2, id |-> p.id, net |-> -p.amount]]
<1>1. Movements(invoices, payments, until)
        = (Made(bill, billed) \cup Made(credit, waived)) \cup Made(receipt, paid)
  BY DEF Movements, Made
<1>2. IsFiniteSet(billed) /\ IsFiniteSet(waived) /\ IsFiniteSet(paid)
  <2>1. billed \in SUBSET invoices /\ waived \in SUBSET invoices /\ paid \in SUBSET payments
    OBVIOUS
  <2>. HIDE DEF billed, waived, paid
  <2>. QED BY <2>1, FS_Subset
<1>3. \A i \in billed : IsMovement(bill[i])
  BY DEF IsInvoice, IsMovement
<1>4. \A i \in waived : IsMovement(credit[i])
  BY DEF IsInvoice, IsMovement
<1>5. \A p \in paid : IsMovement(receipt[p])
  BY DEF IsPayment, IsMovement
<1>. HIDE DEF bill, credit, receipt, billed, waived, paid
<1>6. IsFiniteSet(Made(bill, billed)) /\ IsFiniteSet(Made(credit, waived)) /\ IsFiniteSet(Made(receipt, paid))
  BY <1>2, MadeIsFinite
<1>7. IsFiniteSet((Made(bill, billed) \cup Made(credit, waived)) \cup Made(receipt, paid))
  BY <1>6, FS_Union
<1>8. \A m \in (Made(bill, billed) \cup Made(credit, waived)) \cup Made(receipt, paid) : IsMovement(m)
  BY <1>3, <1>4, <1>5 DEF Made
<1>. QED BY <1>1, <1>7, <1>8

(* The order of a statement's lines. *)
UpTo(m, n) ==
  \/ Earlier(m.date, n.date)
  \/ m.date = n.date /\ (m.kind < n.kind \/ (m.kind = n.kind /\ m.id <= n.id))

LEMMA LinesInOrder ==
  ASSUME NEW a, IsMovement(a), NEW b, IsMovement(b), NEW c, IsMovement(c)
  PROVE  /\ UpTo(a, a) /\ (UpTo(a, b) \/ UpTo(b, a))
         /\ UpTo(a, b) /\ UpTo(b, c) => UpTo(a, c)
<1>1. /\ a.date \in Date /\ b.date \in Date /\ c.date \in Date
      /\ a.kind \in Int /\ b.kind \in Int /\ c.kind \in Int
      /\ a.id \in Int /\ b.id \in Int /\ c.id \in Int
  BY DEF IsMovement
<1>2. \A d \in Date, e \in Date :
        \/ Earlier(d, e) \/ Earlier(e, d) \/ d = e
  <2>. TAKE d \in Date, e \in Date
  <2>1. /\ d = <<d[1], d[2], d[3]>> /\ e = <<e[1], e[2], e[3]>>
        /\ d[1] \in Int /\ d[2] \in Int /\ d[3] \in Int /\ e[1] \in Int /\ e[2] \in Int /\ e[3] \in Int
    BY DEF Date
  <2>. QED BY <2>1 DEF Earlier
<1>3. \A d \in Date, e \in Date, f \in Date : Earlier(d, e) /\ Earlier(e, f) => Earlier(d, f)
  <2>. TAKE d \in Date, e \in Date, f \in Date
  <2>1. /\ d[1] \in Int /\ d[2] \in Int /\ d[3] \in Int /\ e[1] \in Int /\ e[2] \in Int /\ e[3] \in Int
        /\ f[1] \in Int /\ f[2] \in Int /\ f[3] \in Int
    BY DEF Date
  <2>. QED BY <2>1 DEF Earlier
<1>4. UpTo(a, a)
  BY <1>1 DEF UpTo
<1>5. UpTo(a, b) \/ UpTo(b, a)
  BY <1>1, <1>2 DEF UpTo
<1>6. UpTo(a, b) /\ UpTo(b, c) => UpTo(a, c)
  <2>. DEFINE Then(x, y) == x.kind < y.kind \/ (x.kind = y.kind /\ x.id <= y.id)
  <2>1. Then(a, b) /\ Then(b, c) => Then(a, c)
    BY <1>1
  <2>2. /\ UpTo(a, b) <=> Earlier(a.date, b.date) \/ (a.date = b.date /\ Then(a, b))
        /\ UpTo(b, c) <=> Earlier(b.date, c.date) \/ (b.date = c.date /\ Then(b, c))
        /\ UpTo(a, c) <=> Earlier(a.date, c.date) \/ (a.date = c.date /\ Then(a, c))
    BY DEF UpTo
  <2>. HIDE DEF Then
  <2>. QED BY <1>1, <1>3, <2>1, <2>2
<1>. QED BY <1>4, <1>5, <1>6

LEMMA LastLine ==
  ASSUME NEW S, IsFiniteSet(S), \A m \in S : IsMovement(m), S # {}
  PROVE  \E n \in S : \A m \in S : UpTo(m, n)
<1>. DEFINE Latest(U) == \E n \in U : \A m \in U : UpTo(m, n)
            Good == {U \in SUBSET S : U # {} => Latest(U)}
<1>1. {} \in Good
  OBVIOUS
<1>2. ASSUME NEW U \in SUBSET S, NEW x \in U, U \ {x} \in Good
      PROVE  U \in Good
  <2>1. \A a, b, c \in S : UpTo(a, a) /\ (UpTo(a, b) \/ UpTo(b, a)) /\ (UpTo(a, b) /\ UpTo(b, c) => UpTo(a, c))
    BY LinesInOrder
  <2>2. CASE U \ {x} = {}
    <3>1. \A m \in U : m = x
      BY <2>2
    <3>. QED BY <2>1, <3>1
  <2>3. CASE U \ {x} # {}
    <3>1. PICK n \in U \ {x} : \A m \in U \ {x} : UpTo(m, n)
      BY <1>2, <2>3
    <3>2. CASE UpTo(x, n)
      <4>1. \A m \in U : UpTo(m, n)
        BY <3>1, <3>2
      <4>. QED BY <3>1, <4>1
    <3>3. CASE UpTo(n, x)
      <4>1. \A m \in U : UpTo(m, x)
        <5>. TAKE m \in U
        <5>1. CASE m = x
          BY <2>1, <5>1
        <5>2. CASE m # x
          <6>1. UpTo(m, n)
            BY <3>1, <5>2
          <6>. QED BY <2>1, <3>1, <3>3, <6>1
        <5>. QED BY <5>1, <5>2
      <4>. QED BY <4>1
    <3>. QED BY <2>1, <3>1, <3>2, <3>3
  <2>. QED BY <2>2, <2>3
<1>3. S \in Good
  <2>. HIDE DEF Good
  <2>. QED BY <1>1, <1>2, Building
<1>. QED BY <1>3

(* A statement closes on all there was up to its last day, wherever it     *)
(* begins, and its last line says so.                                      *)
LEMMA ClosesOnAll ==
  ASSUME NEW from \in Date, NEW to \in Date, ~Earlier(to, from),
         NEW movements, IsFiniteSet(movements), \A m \in movements : IsMovement(m)
  PROVE  LET range == Statement(from, to, movements) IN
         /\ range.closing = NetOf({m \in movements : ~Earlier(to, m.date)})
         /\ range.lines # {} => \E l \in range.lines : l.balance = range.closing
<1>. DEFINE before == {m \in movements : Earlier(m.date, from)}
            within == {m \in movements : ~Earlier(m.date, from) /\ ~Earlier(to, m.date)}
            range == Statement(from, to, movements)
            Upto(n) == {w \in within : UpTo(w, n)}
            opening == NetOf(before)
<1>1. /\ range.closing = opening + NetOf(within)
      /\ range.lines = {[movement |-> n, balance |-> opening + NetOf(Upto(n))] : n \in within}
  BY DEF Statement, NetOf, SumFunction, UpTo
<1>2. \A m \in movements : Earlier(m.date, from) => ~Earlier(to, m.date)
  <2>. TAKE m \in movements
  <2>1. m.date \in Date
    BY DEF IsMovement
  <2>2. \A d \in Date : d[1] \in Int /\ d[2] \in Int /\ d[3] \in Int
    BY DEF Date
  <2>. QED BY <2>1, <2>2 DEF Earlier
<1>3. /\ before \cup within = {m \in movements : ~Earlier(to, m.date)} /\ before \cap within = {}
  BY <1>2
<1>4. /\ IsFiniteSet(before) /\ IsFiniteSet(within) /\ \A m \in before \cup within : m.net \in Int
      /\ \A m \in within : IsMovement(m)
  <2>1. before \in SUBSET movements /\ within \in SUBSET movements
    OBVIOUS
  <2>2. \A m \in movements : m.net \in Int
    BY DEF IsMovement
  <2>. HIDE DEF before, within
  <2>. QED BY <2>1, <2>2, FS_Subset
<1>. HIDE DEF before, within, range
<1>5. NetOf(before \cup within) = NetOf(before) + NetOf(within)
  BY <1>3, <1>4, NetTogether
<1>6. range.lines # {} => \E l \in range.lines : l.balance = range.closing
  <2>. SUFFICES ASSUME range.lines # {} PROVE \E l \in range.lines : l.balance = range.closing
    OBVIOUS
  <2>1. within # {}
    BY <1>1
  <2>2. PICK n \in within : \A m \in within : UpTo(m, n)
    BY <1>4, <2>1, LastLine
  <2>3. Upto(n) = within
    BY <2>2
  <2>. DEFINE last == [movement |-> n, balance |-> opening + NetOf(Upto(n))]
  <2>4. last \in range.lines /\ last.balance = opening + NetOf(within)
    BY <1>1, <2>2, <2>3
  <2>. HIDE DEF last, Upto, opening
  <2>. QED BY <1>1, <2>4
<1>. QED BY <1>1, <1>3, <1>5, <1>6 DEF range

(* Whatever is on a customer's account and whichever range of days is      *)
(* asked for, a statement closes on the same figure as one for all time,   *)
(* and on its last line (statements.build).                                *)
THEOREM StatementsClose ==
  ASSUME NEW book, IsBook(book), NEW from \in Date, NEW to \in Date, to[1] >= 0
  PROVE  StatementCloses(book, from, to)
<1>. SUFFICES ASSUME ~Earlier(to, from)
              PROVE  LET movements == Movements(book.invoices, book.payments, to)
                         range == Statement(from, to, movements)
                         all == Statement(<<0, 1, 1>>, to, movements)
                     IN /\ range.closing = all.closing
                        /\ range.lines # {} => \E l \in range.lines : l.balance = range.closing
  BY DEF StatementCloses
<1>. DEFINE movements == Movements(book.invoices, book.payments, to)
<1>1. IsFiniteSet(movements) /\ \A m \in movements : IsMovement(m)
  BY MovementsAre DEF IsBook
<1>2. <<0, 1, 1>> \in Date /\ ~Earlier(to, <<0, 1, 1>>)
  <2>1. to[1] \in Int /\ to[2] \in 1..12 /\ to[3] \in 1..31
    BY DEF Date
  <2>2. <<0, 1, 1>> \in Date
    BY DEF Date, DaysInMonth
  <2>. QED BY <2>1, <2>2 DEF Earlier
<1>. HIDE DEF movements
<1>3. Statement(<<0, 1, 1>>, to, movements).closing = NetOf({m \in movements : ~Earlier(to, m.date)})
  BY <1>1, <1>2, ClosesOnAll
<1>4. LET range == Statement(from, to, movements) IN
      /\ range.closing = NetOf({m \in movements : ~Earlier(to, m.date)})
      /\ range.lines # {} => \E l \in range.lines : l.balance = range.closing
  BY <1>1, ClosesOnAll
<1>. QED BY <1>3, <1>4 DEF movements

-----------------------------------------------------------------------------
(* Splitting by weights: the largest remainders first. *)

LEMMA Distributes ==
  ASSUME NEW c \in Int, NEW a \in Int, NEW b \in Int
  PROVE  c * (a + b) = c * a + c * b /\ c * a \in Int /\ c * b \in Int
OBVIOUS

LEMMA SumScaled ==
  ASSUME NEW f, NEW g, NEW c \in Int, NEW S, IsFiniteSet(S),
         \A x \in S : f[x] \in Int /\ g[x] = c * f[x]
  PROVE  SumFunctionOnSet(g, S) = c * SumFunctionOnSet(f, S)
<1>. DEFINE Good == {U \in SUBSET S : SumFunctionOnSet(g, U) = c * SumFunctionOnSet(f, U)}
<1>1. {} \in Good
  <2>1. c * 0 = 0
    OBVIOUS
  <2>. QED BY <2>1, SumOfNone
<1>2. ASSUME NEW U \in SUBSET S, NEW x \in U, U \ {x} \in Good
      PROVE  U \in Good
  <2>. DEFINE rest == SumFunctionOnSet(f, U \ {x})
  <2>1. IsFiniteSet(U) /\ IsFiniteSet(U \ {x}) /\ \A y \in S : g[y] \in Int
    BY FS_Subset
  <2>2. /\ SumFunctionOnSet(f, U) = f[x] + rest
        /\ SumFunctionOnSet(g, U) = g[x] + SumFunctionOnSet(g, U \ {x})
    BY <2>1, SumRemove
  <2>3. rest \in Int /\ f[x] \in Int /\ g[x] = c * f[x]
    BY <2>1, SumType
  <2>4. SumFunctionOnSet(g, U \ {x}) = c * rest
    BY <1>2
  <2>. HIDE DEF rest
  <2>5. c * (f[x] + rest) = c * f[x] + c * rest
    BY <2>3, Distributes
  <2>6. SumFunctionOnSet(g, U) = c * SumFunctionOnSet(f, U)
    BY <2>2, <2>3, <2>4, <2>5, Zenon
  <2>. QED BY <2>6
<1>. HIDE DEF Good
<1>3. S \in Good
  BY <1>1, <1>2, Building
<1>. QED BY <1>3 DEF Good

(* The same from each of some elements and nothing from the others.        *)
LEMMA SumOfSome ==
  ASSUME NEW S, IsFiniteSet(S), NEW some \in SUBSET S, NEW c \in Int, NEW f,
         \A x \in S : f[x] = IF x \in some THEN c ELSE 0
  PROVE  SumFunctionOnSet(f, S) = c * Cardinality(some)
<1>. DEFINE Sum(U) == SumFunctionOnSet(f, U)
            Good == {U \in SUBSET some : Sum(U) = c * Cardinality(U)}
<1>1. {} \in Good
  <2>1. c * 0 = 0 /\ Cardinality({}) = 0
    BY FS_EmptySet
  <2>. QED BY <2>1, SumOfNone
<1>2. ASSUME NEW U \in SUBSET some, NEW x \in U, U \ {x} \in Good
      PROVE  U \in Good
  <2>. DEFINE n == Cardinality(U \ {x})
  <2>1. IsFiniteSet(U) /\ IsFiniteSet(U \ {x}) /\ \A y \in U : f[y] \in Int
    BY FS_Subset
  <2>2. n \in Nat /\ Cardinality(U) = n + 1
    BY <2>1, FS_RemoveElement, FS_CardinalityType
  <2>3. Sum(U) = f[x] + Sum(U \ {x})
    BY <2>1, SumRemove
  <2>4. f[x] = c /\ Sum(U \ {x}) = c * n
    BY <1>2
  <2>. HIDE DEF n, Sum
  <2>5. c * (n + 1) = c + c * n
    BY <2>2
  <2>6. Sum(U) = c * Cardinality(U)
    BY <2>2, <2>3, <2>4, <2>5, Zenon
  <2>. QED BY <2>6
<1>3. some \in Good
  <2>1. IsFiniteSet(some)
    BY FS_Subset
  <2>. HIDE DEF Good
  <2>. QED BY <1>1, <1>2, <2>1, Building
<1>4. Sum(S) = Sum(some) + Sum(S \ some)
  <2>. DEFINE others == S \ some
  <2>1. /\ IsFiniteSet(some) /\ IsFiniteSet(others) /\ some \cap others = {}
        /\ some \cup others = S /\ \A x \in some \cup others : f[x] \in Int
    BY FS_Subset
  <2>. HIDE DEF others
  <2>2. SumFunctionOnSet(f, some \cup others)
          = SumFunctionOnSet(f, some) + SumFunctionOnSet(f, others)
    BY <2>1, SumUnion
  <2>. QED BY <2>1, <2>2 DEF others
<1>5. Sum(S \ some) = 0
  <2>. DEFINE others == S \ some
  <2>1. IsFiniteSet(others) /\ \A x \in others : f[x] = 0
    BY FS_Subset
  <2>. HIDE DEF others
  <2>2. SumFunctionOnSet(f, others) = 0
    BY <2>1, SumOfZeros
  <2>. QED BY <2>2 DEF others
<1>6. c * Cardinality(some) \in Int
  <2>1. Cardinality(some) \in Nat
    BY FS_Subset, FS_CardinalityType
  <2>. QED BY <2>1
<1>. HIDE DEF Sum
<1>7. Sum(some) = c * Cardinality(some)
  BY <1>3
<1>8. Sum(S) = c * Cardinality(some)
  <2>. DEFINE n == c * Cardinality(some)
  <2>1. n \in Int /\ Sum(S) = n + 0
    BY <1>4, <1>5, <1>6, <1>7
  <2>. HIDE DEF n
  <2>2. Sum(S) = n
    BY <2>1
  <2>. QED BY <2>2 DEF n
<1>. QED BY <1>8 DEF Sum

(* The order shares are topped up in, and a share's place in it.           *)
Ahead(over, i, j) == over[i] > over[j] \/ (over[i] = over[j] /\ i < j)
AheadOf(over, S, j) == {i \in S : Ahead(over, i, j)}
Rank(over, S, j) == Cardinality(AheadOf(over, S, j))

LEMMA LastInRank ==
  ASSUME NEW S \in SUBSET Int, IsFiniteSet(S), S # {}, NEW over, \A i \in S : over[i] \in Int
  PROVE  \E z \in S : \A i \in S : ~Ahead(over, z, i)
<1>. DEFINE Latest(U) == \E z \in U : \A i \in U : ~Ahead(over, z, i)
            Good == {U \in SUBSET S : U # {} => Latest(U)}
<1>1. {} \in Good
  OBVIOUS
<1>2. ASSUME NEW U \in SUBSET S, NEW x \in U, U \ {x} \in Good
      PROVE  U \in Good
  <2>1. \A a, b, c \in S :
          /\ ~Ahead(over, a, a) /\ (~Ahead(over, a, b) \/ ~Ahead(over, b, a))
          /\ ~Ahead(over, a, b) /\ ~Ahead(over, b, c) => ~Ahead(over, a, c)
    <3>. TAKE a, b, c \in S
    <3>1. /\ a \in Int /\ b \in Int /\ c \in Int
          /\ over[a] \in Int /\ over[b] \in Int /\ over[c] \in Int
      OBVIOUS
    <3>. QED BY <3>1 DEF Ahead
  <2>2. CASE U \ {x} = {}
    <3>1. \A m \in U : m = x
      BY <2>2
    <3>. QED BY <2>1, <3>1
  <2>3. CASE U \ {x} # {}
    <3>1. PICK n \in U \ {x} : \A m \in U \ {x} : ~Ahead(over, n, m)
      BY <1>2, <2>3
    <3>2. CASE ~Ahead(over, n, x)
      <4>1. \A m \in U : ~Ahead(over, n, m)
        BY <3>1, <3>2
      <4>. QED BY <3>1, <4>1
    <3>3. CASE ~Ahead(over, x, n)
      <4>1. \A m \in U : ~Ahead(over, x, m)
        <5>. TAKE m \in U
        <5>1. CASE m = x
          BY <2>1, <5>1
        <5>2. CASE m # x
          <6>1. ~Ahead(over, n, m)
            BY <3>1, <5>2
          <6>. QED BY <2>1, <3>1, <3>3, <6>1
        <5>. QED BY <5>1, <5>2
      <4>. QED BY <4>1
    <3>. QED BY <2>1, <3>1, <3>2, <3>3
  <2>. QED BY <2>2, <2>3
<1>3. S \in Good
  <2>. HIDE DEF Good
  <2>. QED BY <1>1, <1>2, Building
<1>. QED BY <1>3

(* Of those that stand in line, as many as there are up to k are among the *)
(* first k.                                                                *)
FirstOnes(over, S, k) == SumFunctionOnSet([i \in S |-> IF Rank(over, S, i) < k THEN 1 ELSE 0], S)

LEMMA RanksCount ==
  ASSUME NEW S \in SUBSET Int, IsFiniteSet(S), NEW over, \A i \in S : over[i] \in Int, NEW k \in Nat
  PROVE  FirstOnes(over, S, k) = IF k > Cardinality(S) THEN Cardinality(S) ELSE k
<1>. DEFINE Right(U) == FirstOnes(over, U, k) = IF k > Cardinality(U) THEN Cardinality(U) ELSE k
            Good == {U \in SUBSET S : Right(U)}
<1>1. \A U \in SUBSET S : (\A x \in U : U \ {x} \in Good) => U \in Good
  <2>0. SUFFICES ASSUME NEW U \in SUBSET S, \A x \in U : U \ {x} \in Good
                PROVE  U \in Good
    OBVIOUS
  <2>1. CASE U = {}
    <3>1. Cardinality(U) = 0 /\ FirstOnes(over, U, k) = 0
      BY <2>1, FS_EmptySet, SumOfNone DEF FirstOnes
    <3>2. Right(U)
      BY <3>1
    <3>. QED BY <3>2
  <2>2. CASE U # {}
    <3>0. IsFiniteSet(U) /\ U \in SUBSET Int /\ \A i \in U : over[i] \in Int
      BY FS_Subset
    <3>1. PICK z \in U : \A i \in U : ~Ahead(over, z, i)
      BY <2>2, <3>0, LastInRank
    <3>. DEFINE V == U \ {z}
                n == Cardinality(V)
                f == [i \in U |-> IF Rank(over, U, i) < k THEN 1 ELSE 0]
                g == [i \in V |-> IF Rank(over, V, i) < k THEN 1 ELSE 0]
    <3>2. IsFiniteSet(V) /\ n \in Nat /\ Cardinality(U) = n + 1
      BY <3>0, FS_RemoveElement, FS_Subset, FS_CardinalityType
    <3>3. AheadOf(over, U, z) = V
      <4>1. \A i \in V : Ahead(over, i, z)
        <5>. TAKE i \in V
        <5>1. i \in Int /\ z \in Int /\ i # z /\ over[i] \in Int /\ over[z] \in Int /\ ~Ahead(over, z, i)
          BY <3>0, <3>1
        <5>. QED BY <5>1 DEF Ahead
      <4>2. ~Ahead(over, z, z)
        BY <3>1
      <4>. QED BY <4>1, <4>2 DEF AheadOf
    <3>4. \A i \in V : AheadOf(over, U, i) = AheadOf(over, V, i)
      BY <3>1 DEF AheadOf
    <3>5. f[z] = IF n < k THEN 1 ELSE 0
      BY <3>3 DEF Rank
    <3>6. \A i \in V : f[i] = g[i] /\ f[i] \in Int
      BY <3>4 DEF Rank
    <3>7. IsFiniteSet(U) /\ \A i \in U : f[i] \in Int
      BY <3>0
    <3>8. SumFunctionOnSet(f, U) = FirstOnes(over, U, k) /\ SumFunctionOnSet(g, V) = FirstOnes(over, V, k)
      BY DEF FirstOnes
    <3>9. V \in Good
      BY <2>0
    <3>10. FirstOnes(over, V, k) = IF k > n THEN n ELSE k
      BY <3>9
    <3>. HIDE DEF f, g, n, V, Good
    <3>11. SumFunctionOnSet(f, U) = f[z] + SumFunctionOnSet(f, V)
      <4>1. \A x \in U : SumFunctionOnSet(f, U) = f[x] + SumFunctionOnSet(f, U \ {x})
        BY <3>7, SumRemove
      <4>. QED BY <3>1, <4>1 DEF V
    <3>12. SumFunctionOnSet(f, V) = SumFunctionOnSet(g, V)
      BY <3>2, <3>6, SumSame
    <3>13. FirstOnes(over, U, k) = f[z] + FirstOnes(over, V, k)
      BY <3>8, <3>11, <3>12, Zenon
    <3>14. Right(U)
      BY <3>2, <3>5, <3>10, <3>13
    <3>. QED BY <3>14 DEF Good
  <2>. QED BY <2>1, <2>2
<1>2. \A U \in SUBSET S : U \in Good
  <2>. HIDE DEF Good
  <2>. QED BY <1>1, Dismantling
<1>3. S \in Good
  BY <1>2
<1>. QED BY <1>3

(* A weighting: some shares, in order, of weights that are not all nothing.*)
IsWeighting(ratios) ==
  /\ \E N \in Nat : DOMAIN ratios = 1..N
  /\ \A i \in DOMAIN ratios : ratios[i] \in Nat
  /\ \E i \in DOMAIN ratios : ratios[i] > 0

LEMMA SumOfWeights ==
  ASSUME NEW S, IsFiniteSet(S), NEW f, \A i \in S : f[i] \in Nat, NEW z \in S, f[z] > 0
  PROVE  SumFunctionOnSet(f, S) \in Nat \ {0}
<1>. DEFINE zeros == [i \in S \ {z} |-> 0]
            rest == S \ {z}
<1>1. IsFiniteSet(rest) /\ \A i \in S : f[i] \in Int
  BY FS_Subset
<1>2. SumFunctionOnSet(f, S) = f[z] + SumFunctionOnSet(f, rest)
  BY <1>1, SumRemove
<1>3. \A i \in rest : zeros[i] \in Int /\ f[i] \in Int /\ zeros[i] <= f[i] /\ zeros[i] = 0
  OBVIOUS
<1>4. f[z] \in Nat /\ f[z] > 0
  OBVIOUS
<1>. HIDE DEF zeros, rest
<1>5. SumFunctionOnSet(zeros, rest) <= SumFunctionOnSet(f, rest)
  BY <1>1, <1>3, SumLeq
<1>6. SumFunctionOnSet(zeros, rest) = 0
  BY <1>1, <1>3, SumOfZeros
<1>7. SumFunctionOnSet(f, rest) \in Int
  BY <1>1, <1>3, SumType
<1>. QED BY <1>2, <1>4, <1>5, <1>6, <1>7

(* The shares that were cut short. *)
CutShort(S, over) == {i \in S : over[i] > 0}

(* What is left over once every share is truncated: with the sign of what  *)
(* is split, and less than one for each share that was cut short.          *)
LEMMA LeftOver ==
  ASSUME NEW S, IsFiniteSet(S), NEW total \in Int, NEW w \in Nat \ {0}, NEW ratios,
         \A i \in S : ratios[i] \in Nat, SumFunctionOnSet(ratios, S) = w,
         NEW share, \A i \in S : share[i] = Quotient(total * ratios[i], w),
         NEW over, \A i \in S : over[i] = Magnitude(Remainder(total * ratios[i], w)),
         NEW left, left = total - SumFunctionOnSet(share, S)
  PROVE  /\ SumFunctionOnSet(share, S) \in Int /\ left \in Int
         /\ left < 0 => total < 0
         /\ left > 0 => total > 0
         /\ Magnitude(left) <= Cardinality(CutShort(S, over))
<1>. DEFINE part(i) == total * ratios[i]
            rem(i) == Remainder(part(i), w)
            some == CutShort(S, over)
            parts == [i \in S |-> part(i)]
            rems == [i \in S |-> rem(i)]
            scaled == [i \in S |-> w * share[i]]
            signed == [i \in S |-> over[i] * (IF total < 0 THEN -1 ELSE 1)]
            full == [i \in S |-> IF i \in some THEN w ELSE 0]
            shared == SumFunctionOnSet(share, S)
<1>1. \A i \in S : part(i) \in Int /\ (total >= 0 => part(i) >= 0) /\ (total <= 0 => part(i) <= 0)
  BY SMTT(30)
<1>2. \A i \in S :
        /\ share[i] \in Int /\ rem(i) \in Int /\ part(i) = w * share[i] + rem(i)
        /\ rem(i) \in (1 - w)..(w - 1)
        /\ total >= 0 => rem(i) >= 0
        /\ total <= 0 => rem(i) <= 0
  <2>. TAKE i \in S
  <2>. DEFINE p == part(i)
  <2>1. p \in Int /\ (total >= 0 => p >= 0) /\ (total <= 0 => p <= 0) /\ share[i] = Quotient(p, w)
    BY <1>1
  <2>. HIDE DEF p
  <2>2. /\ Quotient(p, w) \in Int /\ Remainder(p, w) \in Int
        /\ p = w * Quotient(p, w) + Remainder(p, w)
        /\ Remainder(p, w) \in (1 - w)..(w - 1)
        /\ p >= 0 => Quotient(p, w) >= 0 /\ Remainder(p, w) >= 0
        /\ p <= 0 => Remainder(p, w) <= 0
    BY <2>1, Truncated
  <2>3. /\ share[i] \in Int /\ Remainder(p, w) \in Int /\ p = w * share[i] + Remainder(p, w)
        /\ Remainder(p, w) \in (1 - w)..(w - 1)
        /\ total >= 0 => Remainder(p, w) >= 0
        /\ total <= 0 => Remainder(p, w) <= 0
    BY <2>1, <2>2
  <2>. QED BY <2>3 DEF p
<1>3. \A i \in S : over[i] = Magnitude(rem(i))
  OBVIOUS
<1>. HIDE DEF part, rem, some
<1>4. \A i \in S :
        /\ over[i] \in 0..(w - 1)
        /\ rem(i) = IF total < 0 THEN -over[i] ELSE over[i]
  BY <1>2, <1>3 DEF Magnitude
<1>5. SumFunctionOnSet(parts, S) = total * w
  <2>1. \A i \in S : ratios[i] \in Int /\ parts[i] = total * ratios[i]
    BY DEF part
  <2>. HIDE DEF parts
  <2>2. SumFunctionOnSet(parts, S) = total * SumFunctionOnSet(ratios, S)
    BY <2>1, SumScaled
  <2>. QED BY <2>2
<1>6. /\ SumFunctionOnSet(scaled, S) = w * shared
      /\ shared \in Int
  <2>1. \A i \in S : share[i] \in Int /\ scaled[i] = w * share[i]
    BY <1>2
  <2>2. w \in Int
    OBVIOUS
  <2>. HIDE DEF scaled
  <2>. QED BY <2>1, <2>2, SumScaled, SumType
<1>7. /\ SumFunctionOnSet(parts, S) = SumFunctionOnSet(scaled, S) + SumFunctionOnSet(rems, S)
      /\ SumFunctionOnSet(rems, S) \in Int
  <2>1. \A i \in S : scaled[i] \in Int /\ rems[i] \in Int /\ parts[i] = scaled[i] + rems[i]
    <3>1. \A i \in S : w * share[i] \in Int
      BY <1>2
    <3>. QED BY <1>2, <3>1
  <2>2. \A i \in S : rems[i] \in Int
    BY <2>1
  <2>. HIDE DEF scaled, rems, parts
  <2>. QED BY <2>1, <2>2, SumPlus, SumType
<1>8. SumFunctionOnSet(rems, S)
        = IF total < 0 THEN -SumFunctionOnSet(over, S) ELSE SumFunctionOnSet(over, S)
  <2>1. \A i \in S : over[i] \in Int
    BY <1>4
  <2>2. CASE total < 0
    <3>1. \A i \in S : over[i] \in Int /\ rems[i] = (-1) * over[i]
      BY <1>4, <2>2
    <3>2. -1 \in Int /\ SumFunctionOnSet(over, S) \in Int
      BY <2>1, SumType
    <3>. HIDE DEF rems
    <3>3. SumFunctionOnSet(rems, S) = (-1) * SumFunctionOnSet(over, S)
      BY <3>1, <3>2, SumScaled
    <3>. QED BY <2>2, <3>2, <3>3
  <2>3. CASE ~(total < 0)
    <3>1. \A i \in S : over[i] = rems[i] /\ over[i] \in Int
      BY <1>4, <2>3
    <3>. HIDE DEF rems
    <3>. QED BY <2>3, <3>1, SumSame
  <2>. QED BY <2>2, <2>3
<1>9. /\ SumFunctionOnSet(over, S) <= w * Cardinality(some)
      /\ SumFunctionOnSet(over, S) \in Int /\ SumFunctionOnSet(over, S) >= 0
      /\ Cardinality(some) \in Nat /\ w * Cardinality(some) \in Int
  <2>. DEFINE zeros == [i \in S |-> 0]
  <2>1. \A i \in S : over[i] \in Int /\ full[i] \in Int /\ over[i] <= full[i]
    BY <1>4 DEF some, CutShort
  <2>2. \A i \in S : zeros[i] \in Int /\ over[i] \in Int /\ zeros[i] <= over[i] /\ zeros[i] = 0
    BY <1>4
  <2>3. \A i \in S : full[i] = IF i \in some THEN w ELSE 0
    OBVIOUS
  <2>4. some \in SUBSET S /\ w \in Int
    BY DEF some, CutShort
  <2>. HIDE DEF full, zeros
  <2>5. SumFunctionOnSet(over, S) <= SumFunctionOnSet(full, S)
    BY <2>1, SumLeq
  <2>6. SumFunctionOnSet(full, S) = w * Cardinality(some)
    BY <2>3, <2>4, SumOfSome
  <2>7. SumFunctionOnSet(zeros, S) <= SumFunctionOnSet(over, S)
    BY <2>2, SumLeq
  <2>8. SumFunctionOnSet(zeros, S) = 0
    BY <2>2, SumOfZeros
  <2>9. SumFunctionOnSet(over, S) \in Int
    BY <2>2, SumType
  <2>10. Cardinality(some) \in Nat
    BY <2>4, FS_Subset, FS_CardinalityType
  <2>11. w * Cardinality(some) \in Int
    BY <2>10
  <2>. QED BY <2>5, <2>6, <2>7, <2>8, <2>9, <2>10, <2>11
<1>. DEFINE n == Cardinality(some)
            sum == SumFunctionOnSet(over, S)
            cut == SumFunctionOnSet(rems, S)
<1>10. w * left = cut
  <2>1. total * w = w * shared + cut
    BY <1>5, <1>6, <1>7
  <2>2. w * left = w * total - w * shared /\ w * total = total * w /\ w * shared \in Int /\ total * w \in Int
    BY <1>6
  <2>. HIDE DEF shared, cut
  <2>. QED BY <1>7, <2>1, <2>2 DEF cut
<1>11. left \in Int /\ n \in Nat /\ sum \in Int /\ sum >= 0 /\ sum <= w * n /\ cut = IF total < 0 THEN -sum ELSE sum
  BY <1>6, <1>8, <1>9
<1>. HIDE DEF n, sum, cut, shared
<1>12. left < 0 => total < 0
  <2>1. left < 0 => w * left < 0
    BY <1>11
  <2>. QED BY <1>10, <1>11, <2>1
<1>13. left > 0 => total >= 0 /\ sum > 0
  <2>1. left > 0 => w * left > 0
    BY <1>11
  <2>. QED BY <1>10, <1>11, <2>1
<1>14. total = 0 => sum = 0
  <2>1. total = 0 => cut = 0
    <3>. SUFFICES ASSUME total = 0 PROVE cut = 0
      OBVIOUS
    <3>1. \A i \in S : rems[i] = 0
      BY <1>2
    <3>. HIDE DEF rems
    <3>. QED BY <3>1, SumOfZeros DEF cut
  <2>. QED BY <1>11, <2>1
<1>15. Magnitude(left) <= n
  <2>1. Magnitude(left) \in Nat /\ Magnitude(left) = IF left < 0 THEN -left ELSE left
    BY <1>11 DEF Magnitude
  <2>2. w * Magnitude(left) <= w * n
    <3>1. w * (-left) = -(w * left) /\ w * left \in Int
      BY <1>11
    <3>2. w * Magnitude(left) = IF left < 0 THEN -cut ELSE cut
      BY <1>10, <2>1, <3>1
    <3>3. (IF left < 0 THEN -cut ELSE cut) <= w * n
      BY <1>11, <1>12
    <3>. QED BY <3>2, <3>3
  <2>3. Magnitude(left) > n => w * Magnitude(left) > w * n
    <3>. DEFINE m == Magnitude(left)
    <3>1. m \in Nat /\ n \in Nat
      BY <1>11, <2>1
    <3>. HIDE DEF m
    <3>2. m > n => w * m > w * n
      <4>. SUFFICES ASSUME m > n PROVE w * m > w * n
        OBVIOUS
      <4>1. m - n \in Nat \ {0} /\ w * (m - n) = w * m - w * n /\ w * m \in Int /\ w * n \in Int
        BY <3>1
      <4>2. w * (m - n) > 0
        BY <4>1
      <4>. QED BY <4>1, <4>2
    <3>. QED BY <3>2 DEF m
  <2>4. w * Magnitude(left) \in Int /\ w * n \in Int
    BY <1>11, <2>1
  <2>. QED BY <1>11, <2>1, <2>2, <2>3, <2>4
<1>. QED BY <1>6, <1>11, <1>12, <1>13, <1>14, <1>15 DEF n, some, shared

(* One share of a weighted split, topped up or not. *)
LEMMA ShareIsFair ==
  ASSUME NEW part \in Int, NEW w \in Nat \ {0}, NEW adj \in {-1, 0, 1},
         adj = 1 => Remainder(part, w) > 0, adj = -1 => Remainder(part, w) < 0
  PROVE  Magnitude((Quotient(part, w) + adj) * w - part) < w
<1>. DEFINE q == Quotient(part, w)
            r == Remainder(part, w)
<1>1. q \in Int /\ r \in Int /\ part = w * q + r /\ r \in (1 - w)..(w - 1)
  BY Truncated
<1>2. (adj = 1 => r > 0) /\ (adj = -1 => r < 0)
  OBVIOUS
<1>. HIDE DEF q, r
<1>3. (q + adj) * w = w * q + adj * w /\ w * q \in Int
  BY <1>1
<1>4. adj * w = IF adj = 0 THEN 0 ELSE IF adj = 1 THEN w ELSE -w
  OBVIOUS
<1>5. (q + adj) * w - part = (IF adj = 0 THEN 0 ELSE IF adj = 1 THEN w ELSE -w) - r
  <2>. DEFINE x == w * q
  <2>1. x \in Int /\ (q + adj) * w = x + (IF adj = 0 THEN 0 ELSE IF adj = 1 THEN w ELSE -w) /\ part = x + r
    BY <1>1, <1>3, <1>4
  <2>. HIDE DEF x
  <2>2. (q + adj) * w = x + (IF adj = 0 THEN 0 ELSE IF adj = 1 THEN w ELSE -w)
    BY <2>1
  <2>. QED BY <1>1, <2>1, <2>2
<1>6. Magnitude((IF adj = 0 THEN 0 ELSE IF adj = 1 THEN w ELSE -w) - r) < w
  BY <1>1, <1>2 DEF Magnitude
<1>. QED BY <1>5, <1>6, Zenon DEF q

(* Whatever is split by whatever weights: the shares sum back to it to the *)
(* fil, each is within a fil of its weight, and a weight of nothing gets   *)
(* nothing (allocateByRatios).                                             *)
THEOREM WeightsExact ==
  ASSUME NEW total \in Int, NEW ratios, IsWeighting(ratios)
  PROVE  WeightsAreExact(total, ratios)
<1>. DEFINE S == DOMAIN ratios
            w == SumFunction(ratios)
            share == [i \in S |-> Quotient(total * ratios[i], w)]
            over == [i \in S |-> Magnitude(Remainder(total * ratios[i], w))]
            left == total - SumFunction(share)
            k == Magnitude(left)
            sign == IF left < 0 THEN -1 ELSE 1
            adj(i) == IF Rank(over, S, i) >= k THEN 0 ELSE sign
            shares == AllocateByRatios(total, ratios)
            some == CutShort(S, over)
<1>1. \A i \in S : ratios[i] \in Nat
  BY DEF IsWeighting
<1>2. IsFiniteSet(S) /\ S \in SUBSET Int
  <2>1. PICK N \in Nat : S = 1..N
    BY DEF IsWeighting
  <2>2. 1..N \in SUBSET Int /\ IsFiniteSet(1..N)
    BY FS_Interval
  <2>. QED BY <2>1, <2>2
<1>3. w \in Nat \ {0} /\ SumFunctionOnSet(ratios, S) = w
  <2>1. PICK z \in S : ratios[z] > 0
    BY DEF IsWeighting
  <2>2. SumFunctionOnSet(ratios, S) \in Nat \ {0}
    BY <1>1, <1>2, <2>1, SumOfWeights
  <2>. QED BY <2>2 DEF SumFunction
<1>4. shares = [i \in S |-> share[i] + adj(i)]
  BY DEF AllocateByRatios, Rank, AheadOf, Ahead
<1>5. /\ \A i \in S : share[i] = Quotient(total * ratios[i], w)
      /\ \A i \in S : over[i] = Magnitude(Remainder(total * ratios[i], w))
      /\ left = total - SumFunctionOnSet(share, S)
  BY DEF SumFunction
<1>. HIDE DEF w, share, over, left
<1>6. /\ SumFunctionOnSet(share, S) \in Int /\ left \in Int
      /\ left < 0 => total < 0
      /\ left > 0 => total > 0
      /\ Magnitude(left) <= Cardinality(some)
  <2>1. IsFiniteSet(S)
    BY <1>2
  <2>. HIDE DEF S
  <2>. QED BY <1>1, <1>3, <1>5, <2>1, LeftOver
<1>7. \A i \in S :
        LET part == total * ratios[i]
            r == Remainder(part, w)
        IN /\ part \in Int /\ share[i] \in Int /\ r \in Int /\ over[i] \in Nat
           /\ over[i] = IF r < 0 THEN -r ELSE r
           /\ total >= 0 => r >= 0
           /\ total <= 0 => r <= 0
           /\ ratios[i] = 0 => part = 0 /\ share[i] = 0 /\ over[i] = 0
  <2>. TAKE i \in S
  <2>. DEFINE part == total * ratios[i]
              r == Remainder(part, w)
  <2>1. /\ part \in Int /\ (total >= 0 => part >= 0) /\ (total <= 0 => part <= 0)
        /\ (ratios[i] = 0 => part = 0)
    <3>. DEFINE a == ratios[i]
    <3>1. a \in Nat
      BY <1>1
    <3>. HIDE DEF a
    <3>2. /\ total * a \in Int /\ (total >= 0 => total * a >= 0) /\ (total <= 0 => total * a <= 0)
          /\ (a = 0 => total * a = 0)
      BY <3>1, SMTT(30)
    <3>. QED BY <3>2 DEF a
  <2>2. share[i] = Quotient(part, w) /\ over[i] = Magnitude(r)
    BY <1>5
  <2>. HIDE DEF part
  <2>3. /\ Quotient(part, w) \in Int /\ Remainder(part, w) \in Int
        /\ part >= 0 => Quotient(part, w) >= 0 /\ Remainder(part, w) >= 0
        /\ part <= 0 => Remainder(part, w) <= 0
    BY <1>3, <2>1, Truncated
  <2>4. part = 0 => Quotient(part, w) = 0 /\ Remainder(part, w) = 0
    <3>. SUFFICES ASSUME part = 0 PROVE Quotient(part, w) = 0 /\ Remainder(part, w) = 0
      OBVIOUS
    <3>1. Remainder(0, w) = 0 /\ Quotient(0, w) = 0
      <4>1. Magnitude(0) = 0 /\ Magnitude(w) = w /\ 0 \div w = 0 /\ w * 0 = 0
        BY <1>3 DEF Magnitude
      <4>2. Quotient(0, w) = 0
        BY <1>3, <4>1 DEF Quotient
      <4>. QED BY <1>3, <4>1, <4>2 DEF Remainder
    <3>. QED BY <3>1
  <2>5. /\ share[i] \in Int /\ r \in Int /\ over[i] \in Nat
        /\ over[i] = (IF r < 0 THEN -r ELSE r)
        /\ total >= 0 => r >= 0
        /\ total <= 0 => r <= 0
        /\ ratios[i] = 0 => part = 0 /\ share[i] = 0 /\ over[i] = 0
    <3>. HIDE DEF r
    <3>1. r = Remainder(part, w)
      BY DEF r
    <3>2. over[i] = (IF r < 0 THEN -r ELSE r)
      BY <2>2 DEF Magnitude
    <3>. QED BY <2>1, <2>2, <2>3, <2>4, <3>1, <3>2
  <2>. QED BY <2>1, <2>5 DEF part
<1>8. \A i \in S : over[i] \in Int /\ Rank(over, S, i) \in Nat
  <2>. TAKE i \in S
  <2>1. AheadOf(over, S, i) \in SUBSET S
    BY DEF AheadOf
  <2>2. Rank(over, S, i) \in Nat
    BY <1>2, <2>1, FS_Subset, FS_CardinalityType DEF Rank
  <2>3. over[i] \in Nat
    BY <1>7
  <2>. QED BY <2>2, <2>3
<1>9. /\ k \in Nat /\ k = (IF left < 0 THEN -left ELSE left)
      /\ k <= Cardinality(some) /\ Cardinality(some) \in Nat
      /\ Cardinality(S) \in Nat /\ Cardinality(some) <= Cardinality(S)
      /\ IsFiniteSet(some)
  <2>1. some \in SUBSET S
    BY DEF CutShort
  <2>. HIDE DEF some, S
  <2>2. /\ IsFiniteSet(some) /\ Cardinality(some) <= Cardinality(S)
        /\ Cardinality(S) \in Nat /\ Cardinality(some) \in Nat
    BY <1>2, <2>1, FS_Subset, FS_CardinalityType
  <2>3. k \in Nat /\ k = (IF left < 0 THEN -left ELSE left) /\ k = Magnitude(left)
    BY <1>6 DEF Magnitude
  <2>. QED BY <1>6, <2>2, <2>3
<1>10. \A i \in S : Rank(over, S, i) < k => over[i] > 0
  <2>. SUFFICES ASSUME NEW i \in S, ~(over[i] > 0)
                PROVE  Rank(over, S, i) >= k
    BY <1>8, <1>9
  <2>1. over[i] = 0
    BY <1>7
  <2>2. some \in SUBSET AheadOf(over, S, i)
    BY <1>8, <2>1 DEF AheadOf, Ahead, CutShort
  <2>3. IsFiniteSet(AheadOf(over, S, i))
    <3>1. AheadOf(over, S, i) \in SUBSET S
      BY DEF AheadOf
    <3>. QED BY <1>2, <3>1, FS_Subset
  <2>4. Cardinality(some) <= Rank(over, S, i)
    <3>. HIDE DEF some
    <3>. QED BY <2>2, <2>3, FS_Subset DEF Rank
  <2>. QED BY <1>8, <1>9, <2>4
<1>11. \A i \in S : adj(i) \in {-1, 0, 1}
  OBVIOUS
<1>12. SumFunction(shares) = total
  <2>. DEFINE one == [i \in S |-> IF Rank(over, S, i) < k THEN 1 ELSE 0]
              top == [i \in S |-> adj(i)]
              all == [i \in S |-> share[i] + adj(i)]
  <2>1. \A i \in S : one[i] \in Int /\ top[i] = sign * one[i]
    BY <1>8, <1>9
  <2>2. \A i \in S : share[i] \in Int /\ top[i] \in Int /\ all[i] = share[i] + top[i]
    BY <1>7, <1>11
  <2>3. SumFunctionOnSet(one, S) = k
    <3>1. FirstOnes(over, S, k) = IF k > Cardinality(S) THEN Cardinality(S) ELSE k
      <4>1. \A i \in S : over[i] \in Int
        BY <1>8
      <4>2. k \in Nat
        BY <1>9
      <4>. HIDE DEF S, k
      <4>. QED BY <1>2, <4>1, <4>2, RanksCount
    <3>. QED BY <1>9, <3>1 DEF FirstOnes
  <2>4. sign \in Int /\ sign * k = left
    BY <1>6, <1>9
  <2>4a. IsFiniteSet(S) /\ sign \in Int
    BY <1>2, <2>4
  <2>. HIDE DEF one, top, all, sign, S, k
  <2>5. SumFunctionOnSet(top, S) = sign * SumFunctionOnSet(one, S)
    BY <2>1, <2>4a, SumScaled
  <2>6. SumFunctionOnSet(all, S) = SumFunctionOnSet(share, S) + SumFunctionOnSet(top, S)
    BY <2>2, <2>4a, SumPlus
  <2>7. SumFunctionOnSet(all, S) = SumFunctionOnSet(share, S) + left
    BY <2>3, <2>4, <2>5, <2>6, Zenon
  <2>8. SumFunctionOnSet(all, S) = total
    BY <1>5, <1>6, <2>7
  <2>9. SumFunction(shares) = SumFunctionOnSet(all, S)
    BY <1>4 DEF SumFunction, all
  <2>. QED BY <2>8, <2>9
<1>13. ASSUME NEW i \in S
       PROVE  /\ Magnitude(shares[i] * w - total * ratios[i]) < w
              /\ ratios[i] = 0 => shares[i] = 0
  <2>. DEFINE part == total * ratios[i]
              r == Remainder(part, w)
  <2>1. shares[i] = share[i] + adj(i) /\ share[i] = Quotient(part, w)
    BY <1>4, <1>5
  <2>2. /\ part \in Int /\ r \in Int /\ over[i] = (IF r < 0 THEN -r ELSE r)
        /\ total >= 0 => r >= 0
        /\ total <= 0 => r <= 0
        /\ ratios[i] = 0 => share[i] = 0 /\ over[i] = 0
    BY <1>7
  <2>3. adj(i) # 0 => over[i] > 0 /\ Rank(over, S, i) < k
    BY <1>8, <1>9, <1>10
  <2>4. (adj(i) = 1 => r > 0) /\ (adj(i) = -1 => r < 0)
    <3>1. adj(i) = 1 => ~(left < 0) /\ left # 0
      BY <1>6, <1>8, <1>9, <2>3
    <3>2. adj(i) = -1 => left < 0
      OBVIOUS
    <3>3. adj(i) = 1 => total > 0 /\ over[i] > 0
      BY <1>6, <2>3, <3>1
    <3>4. adj(i) = -1 => total < 0 /\ over[i] > 0
      BY <1>6, <2>3, <3>2
    <3>. HIDE DEF adj, r
    <3>. QED BY <2>2, <3>3, <3>4
  <2>5. adj(i) \in {-1, 0, 1}
    BY <1>11
  <2>. DEFINE a == adj(i)
  <2>6. ratios[i] = 0 => a = 0
    BY <2>2, <2>3
  <2>. HIDE DEF a, part, adj
  <2>7. a \in {-1, 0, 1} /\ (a = 1 => Remainder(part, w) > 0) /\ (a = -1 => Remainder(part, w) < 0)
    BY <2>4, <2>5 DEF a
  <2>8. Magnitude((Quotient(part, w) + a) * w - part) < w
    BY <1>3, <2>2, <2>7, ShareIsFair
  <2>9. shares[i] = Quotient(part, w) + a
    BY <2>1 DEF a
  <2>10. ratios[i] = 0 => shares[i] = 0
    <3>1. shares[i] = share[i] + a
      BY <2>1 DEF a
    <3>. QED BY <2>2, <2>6, <3>1
  <2>. QED BY <2>8, <2>9, <2>10 DEF part
<1>. QED BY <1>12, <1>13 DEF WeightsAreExact, w

-----------------------------------------------------------------------------
(* Identifiers. *)

(* A sum in which one term is another. *)
LEMMA SumChanged ==
  ASSUME NEW S, IsFiniteSet(S), NEW f, NEW g, \A x \in S : f[x] \in Int /\ g[x] \in Int
  PROVE  \A z \in S : (\A x \in S \ {z} : f[x] = g[x]) =>
           SumFunctionOnSet(g, S) = SumFunctionOnSet(f, S) + (g[z] - f[z])
<1>. TAKE z \in S
<1>. HAVE \A x \in S \ {z} : f[x] = g[x]
<1>. DEFINE rest == S \ {z}
<1>1. IsFiniteSet(rest) /\ \A x \in rest : f[x] = g[x] /\ f[x] \in Int
  BY FS_Subset
<1>2. \A x \in S : SumFunctionOnSet(f, S) = f[x] + SumFunctionOnSet(f, S \ {x})
  BY SumRemove
<1>3. \A x \in S : SumFunctionOnSet(g, S) = g[x] + SumFunctionOnSet(g, S \ {x})
  BY SumRemove
<1>. HIDE DEF rest
<1>4. SumFunctionOnSet(f, rest) = SumFunctionOnSet(g, rest) /\ SumFunctionOnSet(f, rest) \in Int
  BY <1>1, SumSame, SumType
<1>5. /\ SumFunctionOnSet(f, S) = f[z] + SumFunctionOnSet(f, rest)
      /\ SumFunctionOnSet(g, S) = g[z] + SumFunctionOnSet(g, rest)
  BY <1>2, <1>3 DEF rest
<1>6. f[z] \in Int /\ g[z] \in Int
  OBVIOUS
<1>. QED BY <1>4, <1>5, <1>6

(* Sequences of so many things, one of them another, two of them swapped. *)
LEMMA RetypedIs ==
  ASSUME NEW C, NEW n \in Nat, NEW s \in [1..n -> C], NEW i \in 1..n, NEW c \in C
  PROVE  /\ Retyped(s, i, c) \in [1..n -> C]
         /\ Retyped(s, i, c)[i] = c
         /\ \A j \in 1..n : j # i => Retyped(s, i, c)[j] = s[j]
BY DEF Retyped

LEMMA SwappedIs ==
  ASSUME NEW C, NEW n \in Nat, NEW s \in [1..n -> C], NEW i \in 1..n, i + 1 \in 1..n
  PROVE  LET t == Retyped(s, i, s[i + 1]) IN
         /\ t \in [1..n -> C] /\ s[i] \in C /\ s[i + 1] \in C /\ t[i + 1] = s[i + 1]
         /\ Swapped(s, i) = Retyped(t, i + 1, s[i])
<1>. DEFINE t == Retyped(s, i, s[i + 1])
<1>1. s[i] \in C /\ s[i + 1] \in C /\ i + 1 # i
  OBVIOUS
<1>2. t \in [1..n -> C] /\ t[i + 1] = s[i + 1]
  BY <1>1 DEF Retyped
<1>3. Swapped(s, i) = Retyped(t, i + 1, s[i])
  BY DEF Swapped, Retyped
<1>. QED BY <1>1, <1>2, <1>3

LEMMA Sequenced ==
  ASSUME NEW C, NEW n \in Nat
  PROVE  /\ \A s \in [1..n -> C] : s \in Seq(C) /\ Len(s) = n
         /\ \A s \in Seq(C) : Len(s) = n => s \in [1..n -> C]
<1>1. \A s \in [1..n -> C] : s \in Seq(C) /\ Len(s) = n
  BY SeqDef
<1>2. \A s \in Seq(C) : Len(s) = n => s \in [1..n -> C]
  BY LenProperties
<1>. QED BY <1>1, <1>2

-----------------------------------------------------------------------------
(* Emirates IDs. *)

Fifteen == [1..15 -> Digit]
LuhnTerm(i, d) == IF i % 2 = 0 THEN Doubled(d) ELSE d
LuhnTerms(id) == [i \in 1..15 |-> LuhnTerm(i, id[i])]
LuhnSum(id) == SumFunctionOnSet(LuhnTerms(id), 1..15)

LEMMA LuhnTermsAre ==
  ASSUME NEW i \in Int, NEW d \in Digit
  PROVE  LuhnTerm(i, d) \in Digit
BY DEF LuhnTerm, Doubled, Digit

(* The check digit is right if all fifteen, the others doubled, are a      *)
(* whole number of tens.                                                   *)
LEMMA LuhnHolds ==
  ASSUME NEW id \in Fifteen
  PROVE  /\ LuhnSum(id) \in Int
         /\ LuhnCheckDigit(SubSeq(id, 1, 14)) \in Digit
         /\ LuhnCheckDigit(SubSeq(id, 1, 14)) = id[15] <=> LuhnSum(id) % 10 = 0
<1>. DEFINE body == SubSeq(id, 1, 14)
            f == LuhnTerms(id)
            g == [i \in 1..14 |-> IF (14 - i) % 2 = 0 THEN Doubled(body[i]) ELSE body[i]]
            sum == SumFunctionOnSet(g, 1..14)
<1>1. \A i \in 1..15 : id[i] \in Digit
  BY DEF Fifteen
<1>2. Len(body) = 14 /\ DOMAIN body = 1..14 /\ \A i \in 1..14 : body[i] = id[i]
  <2>1. 1 \in Int /\ 14 \in Int /\ \A i \in 1..14 : id[i] \in Digit
    BY <1>1
  <2>2. body \in Seq(Digit) /\ Len(body) = 14 /\ \A i \in 1..14 : body[i] = id[1 + i - 1]
    BY <2>1, SubSeqProperties
  <2>3. \A i \in 1..14 : 1 + i - 1 = i
    OBVIOUS
  <2>. HIDE DEF body
  <2>. QED BY <2>2, <2>3, LenProperties
<1>3. LuhnCheckDigit(body) = (10 - (sum % 10)) % 10
  <2>1. LuhnCheckDigit(body) = (10 - (SumFunction(g) % 10)) % 10
    <3>. HIDE DEF body
    <3>. QED BY <1>2 DEF LuhnCheckDigit
  <2>. QED BY <2>1 DEF SumFunction
<1>4. \A i \in 1..14 : g[i] = f[i] /\ g[i] \in Int /\ f[i] \in Int
  <2>. TAKE i \in 1..14
  <2>1. (14 - i) % 2 = 0 <=> i % 2 = 0
    OBVIOUS
  <2>2. g[i] = f[i]
    <3>. HIDE DEF body
    <3>. QED BY <1>2, <2>1 DEF LuhnTerms, LuhnTerm
  <2>3. f[i] = LuhnTerm(i, id[i])
    BY DEF LuhnTerms
  <2>4. LuhnTerm(i, id[i]) \in Digit
    BY <1>1, LuhnTermsAre
  <2>5. \A d \in Digit : d \in Int
    BY DEF Digit
  <2>. QED BY <2>2, <2>3, <2>4, <2>5, Zenon
<1>5. f[15] = id[15] /\ id[15] \in Digit
  BY <1>1 DEF LuhnTerms, LuhnTerm
<1>6. (1..14) \cup {15} = 1..15 /\ 15 \notin 1..14 /\ IsFiniteSet(1..14)
  <2>1. 1 \in Int /\ 14 \in Int
    OBVIOUS
  <2>2. IsFiniteSet(1..14)
    BY <2>1, FS_Interval, Zenon
  <2>. QED BY <2>2
<1>. HIDE DEF f, g, body
<1>7. \A i \in (1..14) \cup {15} : f[i] \in Int
  BY <1>4, <1>5 DEF Digit
<1>8. SumFunctionOnSet(f, (1..14) \cup {15}) = f[15] + SumFunctionOnSet(f, 1..14)
  BY <1>6, <1>7, SumAdd
<1>9. SumFunctionOnSet(f, 1..14) = sum /\ sum \in Int
  <2>. DEFINE I == 1..14
  <2>1. IsFiniteSet(I) /\ \A i \in I : g[i] = f[i] /\ g[i] \in Int
    BY <1>4, <1>6
  <2>. HIDE DEF I
  <2>2. SumFunctionOnSet(g, I) = SumFunctionOnSet(f, I) /\ SumFunctionOnSet(g, I) \in Int
    BY <2>1, SumSame, SumType
  <2>. QED BY <2>2 DEF I
<1>. HIDE DEF sum
<1>10. LuhnSum(id) = id[15] + sum
  BY <1>5, <1>6, <1>8, <1>9 DEF LuhnSum, f
<1>. DEFINE last == id[15]
            check == LuhnCheckDigit(body)
<1>11. last \in 0..9 /\ sum \in Int /\ check = (10 - (sum % 10)) % 10 /\ LuhnSum(id) = last + sum
  BY <1>3, <1>5, <1>9, <1>10 DEF Digit
<1>. HIDE DEF last, check
<1>12. check \in 0..9 /\ (check = last <=> (last + sum) % 10 = 0) /\ last + sum \in Int
  BY <1>11
<1>. QED BY <1>11, <1>12 DEF body, last, check, Digit

LEMMA LuhnRetyped ==
  ASSUME NEW id \in Fifteen, NEW i \in 1..15, NEW d \in Digit
  PROVE  /\ Retyped(id, i, d) \in Fifteen
         /\ LuhnSum(Retyped(id, i, d)) = LuhnSum(id) + (LuhnTerm(i, d) - LuhnTerm(i, id[i]))
<1>. DEFINE new == Retyped(id, i, d)
            f == LuhnTerms(id)
            g == LuhnTerms(new)
<1>1. new \in Fifteen /\ new[i] = d /\ \A j \in 1..15 : j # i => new[j] = id[j]
  BY DEF Retyped, Fifteen
<1>2. \A s \in Fifteen : \A j \in 1..15 : LuhnTerms(s)[j] = LuhnTerm(j, s[j]) /\ LuhnTerm(j, s[j]) \in Int
  <2>. TAKE s \in Fifteen, j \in 1..15
  <2>1. s[j] \in Digit
    BY DEF Fifteen
  <2>2. LuhnTerm(j, s[j]) \in Digit
    BY <2>1, LuhnTermsAre
  <2>. QED BY <2>2 DEF LuhnTerms, Digit
<1>. HIDE DEF new
<1>3. /\ \A j \in 1..15 : f[j] \in Int /\ g[j] \in Int
      /\ \A j \in 1..15 : j # i => f[j] = g[j]
      /\ f[i] = LuhnTerm(i, id[i]) /\ g[i] = LuhnTerm(i, d)
  BY <1>1, <1>2
<1>4. IsFiniteSet(1..15)
  <2>1. 1 \in Int /\ 15 \in Int
    OBVIOUS
  <2>. QED BY <2>1, FS_Interval, Zenon
<1>. HIDE DEF f, g
<1>5. SumFunctionOnSet(g, 1..15) = SumFunctionOnSet(f, 1..15) + (g[i] - f[i])
  <2>. DEFINE I == 1..15
  <2>1. IsFiniteSet(I)
    BY <1>4
  <2>0. i \in I
    OBVIOUS
  <2>2. \A x \in I : f[x] \in Int /\ g[x] \in Int
    BY <1>3
  <2>3. \A x \in I \ {i} : f[x] = g[x]
    BY <1>3
  <2>. HIDE DEF I
  <2>4. \A z \in I : (\A x \in I \ {z} : f[x] = g[x]) =>
           SumFunctionOnSet(g, I) = SumFunctionOnSet(f, I) + (g[z] - f[z])
    BY ONLY <2>1, <2>2, SumChanged
  <2>5. SumFunctionOnSet(g, I) = SumFunctionOnSet(f, I) + (g[i] - f[i])
    BY <2>0, <2>3, <2>4
  <2>. QED BY <2>5 DEF I
<1>. QED BY <1>1, <1>3, <1>5 DEF LuhnSum, f, g, new

(* One digit for another moves the sum, and by less than ten.              *)
LEMMA LuhnApart ==
  ASSUME NEW i \in Int, NEW a \in Digit, NEW b \in Digit, a # b
  PROVE  LuhnTerm(i, b) - LuhnTerm(i, a) \in (-9..9) \ {0}
BY DEF LuhnTerm, Doubled, Digit

(* Two neighbours swapped move it too, but for a 0 and a 9.                *)
LEMMA LuhnNeighbours ==
  ASSUME NEW i \in Int, NEW a \in Digit, NEW b \in Digit, a # b, {a, b} # {0, 9}
  PROVE  (LuhnTerm(i, b) - LuhnTerm(i, a)) + (LuhnTerm(i + 1, a) - LuhnTerm(i + 1, b))
           \in (-9..9) \ {0}
<1>. DEFINE Fold(d) == Doubled(d) - d
<1>1. \A d \in Digit : Fold(d) \in -4..4
  BY DEF Doubled, Digit
<1>2. Fold(a) # Fold(b)
  BY DEF Doubled, Digit
<1>3. CASE i % 2 = 0
  <2>1. (i + 1) % 2 # 0
    BY <1>3
  <2>2. (LuhnTerm(i, b) - LuhnTerm(i, a)) + (LuhnTerm(i + 1, a) - LuhnTerm(i + 1, b)) = Fold(b) - Fold(a)
    BY <1>3, <2>1 DEF LuhnTerm, Doubled, Digit
  <2>. HIDE DEF Fold
  <2>. QED BY <1>1, <1>2, <2>2
<1>4. CASE i % 2 # 0
  <2>1. (i + 1) % 2 = 0
    BY <1>4
  <2>2. (LuhnTerm(i, b) - LuhnTerm(i, a)) + (LuhnTerm(i + 1, a) - LuhnTerm(i + 1, b)) = Fold(a) - Fold(b)
    BY <1>4, <2>1 DEF LuhnTerm, Doubled, Digit
  <2>. HIDE DEF Fold
  <2>. QED BY <1>1, <1>2, <2>2
<1>. QED BY <1>3, <1>4

LEMMA NotATen ==
  ASSUME NEW x \in Int, NEW d \in (-9..9) \ {0}, x % 10 = 0
  PROVE  (x + d) % 10 # 0
OBVIOUS

LEMMA ValidIsTens ==
  ASSUME NEW id \in Fifteen, IsValidEmiratesId(id)
  PROVE  LuhnSum(id) \in Int /\ LuhnSum(id) % 10 = 0
BY LuhnHolds DEF IsValidEmiratesId

LEMMA EmiratesIdSlips ==
  ASSUME NEW id \in Fifteen, IsValidEmiratesId(id)
  PROVE  /\ \A i \in 1..15, d \in Digit : d # id[i] => ~IsValidEmiratesId(Retyped(id, i, d))
         /\ \A i \in 1..14 :
              id[i] # id[i + 1] /\ {id[i], id[i + 1]} # {0, 9} => ~IsValidEmiratesId(Swapped(id, i))
<1>1. LuhnSum(id) \in Int /\ LuhnSum(id) % 10 = 0
  BY ValidIsTens
<1>2. ASSUME NEW i \in 1..15, NEW d \in Digit, d # id[i]
      PROVE  ~IsValidEmiratesId(Retyped(id, i, d))
  <2>. DEFINE new == Retyped(id, i, d)
              delta == LuhnTerm(i, d) - LuhnTerm(i, id[i])
  <2>1. new \in Fifteen /\ LuhnSum(new) = LuhnSum(id) + delta
    BY LuhnRetyped
  <2>2. delta \in (-9..9) \ {0}
    <3>1. id[i] \in Digit /\ i \in Int
      BY DEF Fifteen
    <3>. QED BY <1>2, <3>1, LuhnApart
  <2>. HIDE DEF new, delta
  <2>3. LuhnSum(new) % 10 # 0
    BY <1>1, <2>1, <2>2, NotATen
  <2>4. ~IsValidEmiratesId(new)
    BY <2>1, <2>3, ValidIsTens
  <2>. QED BY <2>4 DEF new
<1>3. ASSUME NEW i \in 1..14, id[i] # id[i + 1], {id[i], id[i + 1]} # {0, 9}
      PROVE  ~IsValidEmiratesId(Swapped(id, i))
  <2>. DEFINE a == id[i]
              b == id[i + 1]
              half == Retyped(id, i, b)
              new == Retyped(half, i + 1, a)
              delta == LuhnTerm(i, b) - LuhnTerm(i, a)
              back == LuhnTerm(i + 1, a) - LuhnTerm(i + 1, b)
  <2>1. a \in Digit /\ b \in Digit /\ i \in 1..15 /\ i + 1 \in 1..15 /\ i \in Int /\ i + 1 # i
    BY DEF Fifteen
  <2>2. half \in Fifteen /\ LuhnSum(half) = LuhnSum(id) + delta
    <3>. HIDE DEF b
    <3>. QED BY <2>1, LuhnRetyped
  <2>3. half[i + 1] = b /\ Swapped(id, i) = new
    BY <2>1 DEF Fifteen, Retyped, Swapped
  <2>4. new \in Fifteen /\ LuhnSum(new) = LuhnSum(half) + back
    <3>. HIDE DEF half, a
    <3>1. new \in Fifteen /\ LuhnSum(new) = LuhnSum(half) + (LuhnTerm(i + 1, a) - LuhnTerm(i + 1, half[i + 1]))
      BY <2>1, <2>2, LuhnRetyped
    <3>. QED BY <2>3, <3>1
  <2>5. delta + back \in (-9..9) \ {0}
    <3>1. a # b /\ {a, b} # {0, 9}
      BY <1>3
    <3>. HIDE DEF a, b
    <3>. QED BY <2>1, <3>1, LuhnNeighbours
  <2>6. delta \in Int /\ back \in Int
    <3>1. \A j \in Int, d \in Digit : LuhnTerm(j, d) \in Int
      BY LuhnTermsAre DEF Digit
    <3>. HIDE DEF a, b
    <3>. QED BY <2>1, <3>1
  <2>. HIDE DEF new, half, delta, back
  <2>7. LuhnSum(new) % 10 # 0
    <3>1. LuhnSum(new) = LuhnSum(id) + (delta + back)
      BY <1>1, <2>2, <2>4, <2>6
    <3>. QED BY <1>1, <2>5, <3>1, NotATen
  <2>8. ~IsValidEmiratesId(new)
    BY <2>4, <2>7, ValidIsTens
  <2>. QED BY <2>3, <2>8
<1>. QED BY <1>2, <1>3

(* So many digits, and so many more after them. *)
Digits(n) == [1..n -> Digit]

LEMMA DigitsAre ==
  ASSUME NEW n \in Nat, NEW s
  PROVE  s \in Digits(n) <=> s \in Seq(Digit) /\ Len(s) = n
<1>1. \A t \in [1..n -> Digit] : t \in Seq(Digit) /\ Len(t) = n
  BY Sequenced
<1>2. \A t \in Seq(Digit) : Len(t) = n => t \in [1..n -> Digit]
  BY Sequenced
<1>. QED BY <1>1, <1>2 DEF Digits

LEMMA Joined ==
  ASSUME NEW m \in Nat, NEW n \in Nat, NEW s \in Digits(m), NEW t \in Digits(n)
  PROVE  /\ s \o t \in Digits(m + n)
         /\ \A i \in 1..m : (s \o t)[i] = s[i]
         /\ \A i \in 1..n : (s \o t)[m + i] = t[i]
<1>1. s \in Seq(Digit) /\ t \in Seq(Digit) /\ Len(s) = m /\ Len(t) = n
  BY DigitsAre
<1>2. /\ s \o t \in Seq(Digit)
      /\ Len(s \o t) = m + n
      /\ \A i \in 1..(m + n) : (s \o t)[i] = IF i <= m THEN s[i] ELSE t[i - m]
  BY <1>1, ConcatProperties
<1>3. \A i \in 1..m : (s \o t)[i] = s[i]
  BY <1>2
<1>4. \A i \in 1..n : (s \o t)[m + i] = t[i]
  <2>. TAKE i \in 1..n
  <2>1. m + i \in 1..(m + n) /\ ~(m + i <= m) /\ (m + i) - m = i
    OBVIOUS
  <2>. QED BY <1>2, <2>1
<1>5. m + n \in Nat
  OBVIOUS
<1>6. s \o t \in Digits(m + n)
  BY <1>2, <1>5, DigitsAre
<1>. QED BY <1>3, <1>4, <1>6

LEMMA Appended ==
  ASSUME NEW n \in Nat, NEW s \in Digits(n), NEW d \in Digit
  PROVE  /\ Append(s, d) \in Digits(n + 1)
         /\ \A i \in 1..n : Append(s, d)[i] = s[i]
         /\ Append(s, d)[n + 1] = d
<1>1. s \in Seq(Digit) /\ Len(s) = n
  BY DigitsAre
<1>2. /\ Append(s, d) \in Seq(Digit)
      /\ Len(Append(s, d)) = n + 1
      /\ \A i \in 1..n : Append(s, d)[i] = s[i]
      /\ Append(s, d)[n + 1] = d
  BY <1>1, AppendProperties
<1>3. n + 1 \in Nat
  OBVIOUS
<1>. QED BY <1>2, <1>3, DigitsAre

LEMMA Cut ==
  ASSUME NEW n \in Nat, NEW s \in Digits(n), NEW a \in 1..n, NEW b \in a..n
  PROVE  /\ SubSeq(s, a, b) \in Digits((b - a) + 1)
         /\ \A i \in 1..((b - a) + 1) : SubSeq(s, a, b)[i] = s[(a + i) - 1]
<1>1. a \in Int /\ b \in Int /\ \A i \in a..b : s[i] \in Digit
  BY DEF Digits
<1>2. /\ SubSeq(s, a, b) \in Seq(Digit)
      /\ Len(SubSeq(s, a, b)) = (b - a) + 1
      /\ \A i \in 1..((b - a) + 1) : SubSeq(s, a, b)[i] = s[(a + i) - 1]
  BY <1>1, SubSeqProperties
<1>3. (b - a) + 1 \in Nat
  OBVIOUS
<1>. QED BY <1>2, <1>3, DigitsAre

LEMMA SevenAre ==
  ASSUME NEW n \in Nat
  PROVE  SevenDigits(n) \in Digits(7)
<1>1. /\ DigitAt(n, 1000000) \in Digit /\ DigitAt(n, 100000) \in Digit /\ DigitAt(n, 10000) \in Digit
      /\ DigitAt(n, 1000) \in Digit /\ DigitAt(n, 100) \in Digit /\ DigitAt(n, 10) \in Digit
      /\ DigitAt(n, 1) \in Digit
  BY DEF DigitAt, Digit
<1>2. SevenDigits(n) \in Seq(Digit) /\ Len(SevenDigits(n)) = 7
  BY <1>1 DEF SevenDigits
<1>3. 7 \in Nat
  OBVIOUS
<1>. QED BY <1>2, <1>3, DigitsAre

(* What the dataset mints. *)
LEMMA EmiratesIdMinted ==
  ASSUME NEW index \in Nat, NEW year \in Nat
  PROVE  EmiratesId(index, year) \in Fifteen /\ IsValidEmiratesId(EmiratesId(index, year))
<1>. DEFINE front == <<7, 8, 4>>
            born == <<1, 9, DigitAt(year, 10), DigitAt(year, 1)>>
            serial == SevenDigits(1000000 + ((index * 7919) % 8999999))
            body == front \o born \o serial
            id == EmiratesId(index, year)
<1>1. front \in Digits(3) /\ front[1] = 7 /\ front[2] = 8 /\ front[3] = 4
  BY DEF Digits, Digit
<1>2. born \in Digits(4)
  <2>1. DigitAt(year, 10) \in Digit /\ DigitAt(year, 1) \in Digit /\ 1 \in Digit /\ 9 \in Digit
    BY DEF DigitAt, Digit
  <2>. QED BY <2>1 DEF Digits
<1>3. serial \in Digits(7)
  <2>1. 1000000 + ((index * 7919) % 8999999) \in Nat
    OBVIOUS
  <2>. QED BY <2>1, SevenAre
<1>. HIDE DEF front, born, serial
<1>. DEFINE half == front \o born
<1>4. half \in Digits(7) /\ \A i \in 1..3 : half[i] = front[i]
  <2>1. 3 \in Nat /\ 4 \in Nat /\ 3 + 4 = 7
    OBVIOUS
  <2>2. half \in Digits(3 + 4) /\ \A i \in 1..3 : half[i] = front[i]
    BY <1>1, <1>2, <2>1, Joined
  <2>. QED BY <2>1, <2>2
<1>5. body \in Digits(14) /\ \A i \in 1..7 : body[i] = half[i]
  <2>1. 7 \in Nat /\ 7 + 7 = 14 /\ body = half \o serial
    OBVIOUS
  <2>. HIDE DEF half
  <2>2. half \o serial \in Digits(7 + 7) /\ \A i \in 1..7 : (half \o serial)[i] = half[i]
    BY ZenonT(60), <1>3, <1>4, <2>1, Joined
  <2>. QED BY <2>1, <2>2
<1>. HIDE DEF half
<1>. HIDE DEF body
<1>6. body[1] = 7 /\ body[2] = 8 /\ body[3] = 4
  BY <1>1, <1>4, <1>5
<1>. DEFINE check == LuhnCheckDigit(body)
<1>7. id = Append(body, check)
  BY DEF EmiratesId, front, born, serial, half, body
<1>8. check \in Digit
  <2>. DEFINE padded == [i \in 1..15 |-> IF i = 15 THEN 0 ELSE body[i]]
  <2>1. padded \in Fifteen
    BY <1>5 DEF Fifteen, Digits, Digit
  <2>2. SubSeq(padded, 1, 14) = body
    BY <1>5 DEF Digits
  <2>. HIDE DEF padded
  <2>. QED BY <2>1, <2>2, LuhnHolds
<1>. HIDE DEF check, id
<1>9. id \in Digits(15) /\ id[15] = check /\ \A i \in 1..14 : id[i] = body[i]
  <2>1. 14 \in Nat /\ 14 + 1 = 15
    OBVIOUS
  <2>. body \in Digits(14)
    BY <1>5
  <2>2. Append(body, check) \in Digits(14 + 1)
    BY <1>8, <2>1, Appended
  <2>3. Append(body, check)[14 + 1] = check
    BY ZenonT(60), <1>8, <2>1, Appended
  <2>4. \A i \in 1..14 : Append(body, check)[i] = body[i]
    BY ZenonT(60), <1>8, <2>1, Appended
  <2>. QED BY <1>7, <2>1, <2>2, <2>3, <2>4
<1>10. id \in Fifteen /\ Len(id) = 15 /\ \A i \in 1..15 : id[i] \in Digit
  <2>1. 15 \in Nat
    OBVIOUS
  <2>2. id \in Seq(Digit) /\ Len(id) = 15
    BY <1>9, <2>1, DigitsAre
  <2>. QED BY <1>9, <2>2 DEF Digits, Fifteen
<1>11. SubSeq(id, 1, 14) = body
  BY <1>5, <1>9, <1>10 DEF Digits
<1>12. SubSeq(id, 1, 3) = <<7, 8, 4>>
  <2>1. id[1] = 7 /\ id[2] = 8 /\ id[3] = 4
    BY <1>6, <1>9
  <2>2. SubSeq(id, 1, 3) = [i \in 1..3 |-> id[i]]
    BY <1>9
  <2>3. [i \in 1..3 |-> id[i]] = <<id[1], id[2], id[3]>>
    OBVIOUS
  <2>. QED BY <2>1, <2>2, <2>3
<1>. QED BY <1>9, <1>10, <1>11, <1>12 DEF IsValidEmiratesId, id, check

(* An Emirates ID is refused once a digit is wrong or two neighbours are   *)
(* swapped (a 0 and a 9 excepted), and accepted as it was minted.          *)
THEOREM EmiratesIdCatches ==
  ASSUME NEW index \in Nat, NEW year \in Nat
  PROVE  EmiratesIdCatchesSlips(index, year)
BY EmiratesIdMinted, EmiratesIdSlips DEF EmiratesIdCatchesSlips

-----------------------------------------------------------------------------
(* VINs. *)

VinCharacters == Digit \cup VinLetters
Seventeen == [1..17 -> VinCharacters]
VinTerm(i, c) == VinValue(c) * VinWeights[i]
VinTerms(vin) == [i \in 1..17 |-> VinTerm(i, vin[i])]
VinSum(vin) == SumFunctionOnSet(VinTerms(vin), 1..17)
CheckOf(left) == IF left = 10 THEN 33 ELSE left

LEMMA VinValuesAre ==
  ASSUME NEW c \in VinCharacters
  PROVE  VinValue(c) \in 0..9
BY DEF VinCharacters, VinLetters, VinValue, Digit

LEMMA VinWeightsAre ==
  /\ \A i \in 1..17 : VinWeights[i] \in 0..10
  /\ \A i \in (1..17) \ {9} : VinWeights[i] \in 2..10
  /\ VinWeights[9] = 0
  /\ \A i \in (1..16) \ {8, 9} : VinWeights[i] - VinWeights[i + 1] \in {1, -8}
<1>1. \A i \in 1..17 : i = 1 \/ i = 2 \/ i = 3 \/ i = 4 \/ i = 5 \/ i = 6 \/ i = 7 \/ i = 8 \/ i = 9
        \/ i = 10 \/ i = 11 \/ i = 12 \/ i = 13 \/ i = 14 \/ i = 15 \/ i = 16 \/ i = 17
  OBVIOUS
<1>2. /\ VinWeights[1] = 8 /\ VinWeights[2] = 7 /\ VinWeights[3] = 6 /\ VinWeights[4] = 5
      /\ VinWeights[5] = 4 /\ VinWeights[6] = 3 /\ VinWeights[7] = 2 /\ VinWeights[8] = 10
      /\ VinWeights[9] = 0 /\ VinWeights[10] = 9 /\ VinWeights[11] = 8 /\ VinWeights[12] = 7
      /\ VinWeights[13] = 6 /\ VinWeights[14] = 5 /\ VinWeights[15] = 4 /\ VinWeights[16] = 3
      /\ VinWeights[17] = 2
  BY DEF VinWeights
<1>3. \A i \in 1..17 : VinWeights[i] \in 0..10
  BY <1>1, <1>2
<1>4. \A i \in (1..17) \ {9} : VinWeights[i] \in 2..10
  BY <1>1, <1>2
<1>5. \A i \in (1..16) \ {8, 9} : VinWeights[i] - VinWeights[i + 1] \in {1, -8}
  BY <1>1, <1>2
<1>. QED BY <1>2, <1>3, <1>4, <1>5

(* Eleven is prime: a value of less than ten, weighted, is never lost.     *)
LEMMA NotAnEleven ==
  ASSUME NEW x \in Int, NEW d \in (-9..9) \ {0}, NEW w \in (2..10) \cup {1, -8}
  PROVE  d * w \in Int /\ (x + d * w) % 11 # x % 11
<1>1. \/ w = 1 \/ w = 2 \/ w = 3 \/ w = 4 \/ w = 5 \/ w = 6 \/ w = 7 \/ w = 8 \/ w = 9 \/ w = 10 \/ w = -8
  OBVIOUS
<1>2. CASE w = 1
  BY <1>2
<1>3. CASE w = 2
  BY <1>3
<1>4. CASE w = 3
  BY <1>4
<1>5. CASE w = 4
  BY <1>5
<1>6. CASE w = 5
  BY <1>6
<1>7. CASE w = 6
  BY <1>7
<1>8. CASE w = 7
  BY <1>8
<1>9. CASE w = 8
  BY <1>9
<1>10. CASE w = 9
  BY <1>10
<1>11. CASE w = 10
  BY <1>11
<1>12. CASE w = -8
  BY <1>12
<1>. QED BY <1>1, <1>2, <1>3, <1>4, <1>5, <1>6, <1>7, <1>8, <1>9, <1>10, <1>11, <1>12

LEMMA VinTermIs ==
  ASSUME NEW i \in 1..17, NEW c \in VinCharacters
  PROVE  VinTerm(i, c) \in Int
<1>1. VinValue(c) \in Int
  BY VinValuesAre
<1>2. VinWeights[i] \in Int
  BY VinWeightsAre
<1>. QED BY <1>1, <1>2 DEF VinTerm

LEMMA VinTermsAre ==
  ASSUME NEW vin \in Seventeen
  PROVE  \A i \in 1..17 : VinTerms(vin)[i] = VinTerm(i, vin[i]) /\ VinTerms(vin)[i] \in Int
<1>. TAKE i \in 1..17
<1>1. VinTerms(vin)[i] = VinTerm(i, vin[i])
  BY DEF VinTerms
<1>2. vin[i] \in VinCharacters
  BY DEF Seventeen
<1>. QED BY <1>1, <1>2, VinTermIs

LEMMA VinSumIs ==
  ASSUME NEW vin \in Seventeen
  PROVE  VinSum(vin) \in Int /\ VinCheckCharacter(vin) = CheckOf(VinSum(vin) % 11)
<1>. DEFINE f == VinTerms(vin)
            I == 1..17
<1>1. IsFiniteSet(I)
  <2>1. 1 \in Int /\ 17 \in Int
    OBVIOUS
  <2>. QED BY <2>1, FS_Interval, Zenon
<1>2. \A i \in I : f[i] \in Int
  BY VinTermsAre
<1>3. VinSum(vin) \in Int
  <2>. HIDE DEF f, I
  <2>1. SumFunctionOnSet(f, I) \in Int
    BY <1>1, <1>2, SumType
  <2>. QED BY <2>1 DEF VinSum, f, I
<1>4. SumFunction(f) = VinSum(vin)
  BY DEF SumFunction, VinSum, VinTerms
<1>5. VinCheckCharacter(vin) = CheckOf(VinSum(vin) % 11)
  BY <1>4 DEF VinCheckCharacter, CheckOf, VinTerms, VinTerm
<1>. QED BY <1>3, <1>5

LEMMA VinRetyped ==
  ASSUME NEW vin \in Seventeen, NEW i \in 1..17, NEW c \in VinCharacters
  PROVE  /\ Retyped(vin, i, c) \in Seventeen
         /\ Retyped(vin, i, c)[i] = c
         /\ \A j \in 1..17 : j # i => Retyped(vin, i, c)[j] = vin[j]
BY DEF Retyped, Seventeen

LEMMA VinRetypedSum ==
  ASSUME NEW vin \in Seventeen, NEW i \in 1..17, NEW c \in VinCharacters
  PROVE  VinSum(Retyped(vin, i, c)) = VinSum(vin) + (VinTerm(i, c) - VinTerm(i, vin[i]))
<1>. DEFINE new == Retyped(vin, i, c)
            f == VinTerms(vin)
            g == VinTerms(new)
            I == 1..17
<1>1. new \in Seventeen /\ new[i] = c /\ \A j \in 1..17 : j # i => new[j] = vin[j]
  BY ZenonT(60), VinRetyped
<1>. HIDE DEF new
<1>2. /\ \A j \in I : f[j] = VinTerm(j, vin[j]) /\ f[j] \in Int
      /\ \A j \in I : g[j] = VinTerm(j, new[j]) /\ g[j] \in Int
  BY <1>1, VinTermsAre
<1>3. IsFiniteSet(I)
  <2>1. 1 \in Int /\ 17 \in Int
    OBVIOUS
  <2>. QED BY <2>1, FS_Interval, Zenon
<1>. HIDE DEF f, g
<1>4. i \in I /\ (\A x \in I \ {i} : f[x] = g[x]) /\ (\A x \in I : f[x] \in Int /\ g[x] \in Int)
  BY <1>1, <1>2
<1>5. f[i] = VinTerm(i, vin[i]) /\ g[i] = VinTerm(i, c)
  BY <1>1, <1>2
<1>. HIDE DEF I
<1>6. \A x \in I : f[x] \in Int /\ g[x] \in Int
  BY <1>4
<1>7. \A z \in I : (\A x \in I \ {z} : f[x] = g[x]) =>
        SumFunctionOnSet(g, I) = SumFunctionOnSet(f, I) + (g[z] - f[z])
  BY ONLY <1>3, <1>6, SumChanged
<1>8. SumFunctionOnSet(g, I) = SumFunctionOnSet(f, I) + (g[i] - f[i])
  BY <1>4, <1>7
<1>. QED BY <1>1, <1>5, <1>8 DEF VinSum, f, g, I, new

LEMMA VinIsValid ==
  ASSUME NEW vin \in Seventeen
  PROVE  IsValidVin(vin) <=> vin[9] = CheckOf(VinSum(vin) % 11)
<1>1. Len(vin) = 17 /\ \A i \in 1..17 : vin[i] \in Digit \cup VinLetters
  <2>1. 17 \in Nat
    OBVIOUS
  <2>2. \A s \in [1..17 -> VinCharacters] : s \in Seq(VinCharacters) /\ Len(s) = 17
    BY <2>1, Sequenced
  <2>3. Len(vin) = 17
    BY <2>2 DEF Seventeen
  <2>. QED BY <2>3 DEF Seventeen, VinCharacters
<1>. QED BY <1>1, VinSumIs DEF IsValidVin

LEMMA RemaindersDiffer ==
  ASSUME NEW x \in Int, NEW y \in Int, x % 11 # y % 11
  PROVE  CheckOf(x % 11) # CheckOf(y % 11)
BY DEF CheckOf

LEMMA WeighedDifference ==
  ASSUME NEW a \in Int, NEW b \in Int, NEW w \in Int
  PROVE  a * w \in Int /\ b * w \in Int /\ b * w - a * w = (b - a) * w
OBVIOUS

LEMMA CrossedDifference ==
  ASSUME NEW a \in Int, NEW b \in Int, NEW w \in Int, NEW v \in Int
  PROVE  /\ a * w \in Int /\ b * w \in Int /\ a * v \in Int /\ b * v \in Int
         /\ (b * w - a * w) + (a * v - b * v) = (b - a) * (w - v)
OBVIOUS

LEMMA VinSlips ==
  ASSUME NEW vin \in Seventeen, IsValidVin(vin)
  PROVE  /\ \A i \in (1..17) \ {9}, c \in Digit \cup VinLetters :
              VinValue(c) # VinValue(vin[i]) => ~IsValidVin(Retyped(vin, i, c))
         /\ \A i \in (1..16) \ {8, 9} :
              VinValue(vin[i]) # VinValue(vin[i + 1]) => ~IsValidVin(Swapped(vin, i))
<1>1. vin[9] = CheckOf(VinSum(vin) % 11) /\ VinSum(vin) \in Int
  BY VinIsValid, VinSumIs
<1>2. \A i \in 1..17 : vin[i] \in VinCharacters /\ VinValue(vin[i]) \in 0..9
  BY VinValuesAre DEF Seventeen
<1>3. ASSUME NEW new \in Seventeen, new[9] = vin[9], VinSum(new) % 11 # VinSum(vin) % 11
      PROVE  ~IsValidVin(new)
  <2>1. VinSum(new) \in Int
    BY VinSumIs
  <2>2. CheckOf(VinSum(new) % 11) # CheckOf(VinSum(vin) % 11)
    BY <1>1, <1>3, <2>1, RemaindersDiffer
  <2>. QED BY <1>1, <1>3, <2>2, VinIsValid
<1>4. ASSUME NEW i \in (1..17) \ {9}, NEW c \in VinCharacters, VinValue(c) # VinValue(vin[i])
      PROVE  ~IsValidVin(Retyped(vin, i, c))
  <2>. DEFINE new == Retyped(vin, i, c)
              a == VinValue(vin[i])
              b == VinValue(c)
              w == VinWeights[i]
  <2>1. i \in 1..17 /\ 9 \in 1..17 /\ 9 # i
    OBVIOUS
  <2>2. new \in Seventeen /\ new[9] = vin[9]
    BY <2>1 DEF Retyped, Seventeen
  <2>3. VinSum(new) = VinSum(vin) + (VinTerm(i, c) - VinTerm(i, vin[i]))
    BY <2>1, VinRetypedSum
  <2>4. a \in 0..9 /\ b \in 0..9 /\ a # b /\ w \in 2..10
    BY <1>2, <1>4, VinValuesAre, VinWeightsAre
  <2>5. VinTerm(i, c) - VinTerm(i, vin[i]) = (b - a) * w
    <3>1. VinTerm(i, c) = b * w /\ VinTerm(i, vin[i]) = a * w
      BY DEF VinTerm
    <3>2. a \in Int /\ b \in Int /\ w \in Int
      BY <2>4
    <3>. HIDE DEF a, b, w
    <3>. QED BY <3>1, <3>2, WeighedDifference
  <2>. HIDE DEF new, a, b, w
  <2>6. b - a \in (-9..9) \ {0} /\ w \in (2..10) \cup {1, -8}
    BY <2>4
  <2>7. (VinSum(vin) + (b - a) * w) % 11 # VinSum(vin) % 11
    BY <1>1, <2>6, NotAnEleven
  <2>8. ~IsValidVin(new)
    BY <1>3, <2>2, <2>3, <2>5, <2>7
  <2>. QED BY <2>8 DEF new
<1>5. ASSUME NEW i \in (1..16) \ {8, 9}, VinValue(vin[i]) # VinValue(vin[i + 1])
      PROVE  ~IsValidVin(Swapped(vin, i))
  <2>. DEFINE p == vin[i]
              q == vin[i + 1]
              next == i + 1
              half == Retyped(vin, i, q)
              new == Retyped(half, next, p)
              a == VinValue(p)
              b == VinValue(q)
              w == VinWeights[i]
              v == VinWeights[next]
  <2>1. /\ i \in 1..17 /\ next \in 1..17 /\ next # i /\ 9 \in 1..17 /\ 9 # i /\ 9 # next
        /\ p \in VinCharacters /\ q \in VinCharacters /\ vin[next] = q
    BY <1>2
  <2>2. Swapped(vin, i) = new
    BY <2>1 DEF Seventeen, Retyped, Swapped
  <2>3. a \in 0..9 /\ b \in 0..9 /\ a # b /\ w \in Int /\ v \in Int /\ w - v \in {1, -8}
    <3>1. w \in Int /\ v \in Int
      BY <2>1, VinWeightsAre
    <3>2. w - v \in {1, -8}
      BY VinWeightsAre
    <3>. QED BY <1>2, <1>5, <2>1, <3>1, <3>2
  <2>. HIDE DEF p, q, next
  <2>4. half \in Seventeen /\ half[9] = vin[9] /\ half[next] = q
    BY <2>1 DEF Retyped, Seventeen
  <2>5. VinSum(half) = VinSum(vin) + (VinTerm(i, q) - VinTerm(i, p))
    <3>1. VinSum(half) = VinSum(vin) + (VinTerm(i, q) - VinTerm(i, vin[i]))
      BY <2>1, VinRetypedSum
    <3>. QED BY <3>1 DEF p
  <2>. HIDE DEF half
  <2>6. new \in Seventeen /\ new[9] = vin[9]
    BY <2>1, <2>4 DEF Retyped, Seventeen
  <2>7. VinSum(new) = VinSum(half) + (VinTerm(next, p) - VinTerm(next, q))
    <3>1. VinSum(new) = VinSum(half) + (VinTerm(next, p) - VinTerm(next, half[next]))
      BY <2>1, <2>4, VinRetypedSum
    <3>. QED BY <2>4, <3>1
  <2>8. /\ VinTerm(i, q) = b * w /\ VinTerm(i, p) = a * w
        /\ VinTerm(next, p) = a * v /\ VinTerm(next, q) = b * v
    BY DEF VinTerm
  <2>. HIDE DEF new, a, b, w, v
  <2>. DEFINE there == VinTerm(i, q) - VinTerm(i, p)
              back == VinTerm(next, p) - VinTerm(next, q)
              d == b - a
              u == w - v
  <2>9. there \in Int /\ back \in Int /\ there + back = d * u
    <3>1. a \in Int /\ b \in Int
      BY <2>3
    <3>2. /\ a * w \in Int /\ b * w \in Int /\ a * v \in Int /\ b * v \in Int
          /\ (b * w - a * w) + (a * v - b * v) = (b - a) * (w - v)
      BY <2>3, <3>1, CrossedDifference
    <3>. QED BY <2>8, <3>2
  <2>10. d \in (-9..9) \ {0} /\ u \in (2..10) \cup {1, -8}
    BY <2>3
  <2>11. VinSum(half) = VinSum(vin) + there /\ VinSum(new) = VinSum(half) + back
    BY <2>5, <2>7
  <2>. HIDE DEF there, back, d, u
  <2>12. (VinSum(vin) + d * u) % 11 # VinSum(vin) % 11 /\ d * u \in Int
    BY <1>1, <2>10, NotAnEleven
  <2>. DEFINE moved == d * u
  <2>13. VinSum(new) = VinSum(vin) + moved
    <3>1. moved \in Int /\ there + back = moved
      BY <2>9, <2>12
    <3>. HIDE DEF moved
    <3>. QED BY <1>1, <2>9, <2>11, <3>1
  <2>14. ~IsValidVin(new)
    BY <1>3, <2>6, <2>12, <2>13
  <2>. QED BY <2>2, <2>14 DEF new
<1>. QED BY <1>4, <1>5 DEF VinCharacters

LEMMA VinMinted ==
  ASSUME NEW body \in Seventeen
  PROVE  Vin(body) \in Seventeen /\ IsValidVin(Vin(body))
<1>. DEFINE blank == Retyped(body, 9, 0)
            check == VinCheckCharacter(blank)
            vin == Vin(body)
<1>1. 9 \in 1..17 /\ 0 \in VinCharacters
  BY DEF VinCharacters, Digit
<1>2. blank \in Seventeen
  BY <1>1, VinRetyped
<1>3. VinSum(blank) \in Int /\ check = CheckOf(VinSum(blank) % 11)
  BY <1>2, VinSumIs
<1>4. check \in VinCharacters
  BY <1>3 DEF CheckOf, VinCharacters, VinLetters, Digit
<1>. HIDE DEF check
<1>5. vin = Retyped(blank, 9, check)
  BY DEF Vin, Retyped, Seventeen, check
<1>. HIDE DEF blank, vin
<1>6. vin \in Seventeen /\ vin[9] = check
  BY <1>1, <1>2, <1>4, <1>5, VinRetyped
<1>7. VinSum(vin) = VinSum(blank) + (VinTerm(9, check) - VinTerm(9, blank[9]))
  BY <1>1, <1>2, <1>4, <1>5, VinRetypedSum
<1>8. VinTerm(9, check) = 0 /\ VinTerm(9, blank[9]) = 0
  <2>1. blank[9] \in VinCharacters
    BY <1>1, <1>2 DEF Seventeen
  <2>2. VinValue(check) \in Int /\ VinValue(blank[9]) \in Int
    BY <1>4, <2>1, VinValuesAre
  <2>. QED BY <2>2, VinWeightsAre DEF VinTerm
<1>9. VinSum(vin) = VinSum(blank)
  BY <1>3, <1>7, <1>8
<1>. QED BY <1>3, <1>6, <1>9, VinIsValid DEF vin

(* A VIN is refused once a character is read as another value, or two      *)
(* neighbours are swapped, away from the check, and accepted as minted.    *)
THEOREM VinCatches ==
  ASSUME NEW body \in [1..17 -> Digit \cup VinLetters]
  PROVE  VinCatchesSlips(body)
<1>1. body \in Seventeen
  BY DEF Seventeen, VinCharacters
<1>. QED BY <1>1, VinMinted, VinSlips DEF VinCatchesSlips

-----------------------------------------------------------------------------
(* IBANs. *)

Ninety7 == 0..96
Shifted(d, g, s) == IF s = {} THEN 0 ELSE (g[s \ {Max(s)}] * 10 + d[Max(s)]) % 97

LEMMA Mod97Is ==
  ASSUME NEW d, NEW n \in Nat, DOMAIN d = 1..n
  PROVE  Mod97(d) = (CHOOSE g : g = [s \in SUBSET (1..n) |-> Shifted(d, g, s)])[1..n]
BY DEF Mod97, FoldLeft, MapThenFoldSet, Shifted

LEMMA MaxIs ==
  ASSUME NEW S \in SUBSET Int, NEW x \in S, \A y \in S : y <= x
  PROVE  Max(S) = x
<1>1. Max(S) \in S /\ \A y \in S : Max(S) >= y
  BY DEF Max
<1>2. Max(S) >= x /\ Max(S) <= x /\ x \in Int /\ Max(S) \in Int
  BY <1>1
<1>. QED BY <1>2

LEMMA Mod97Exists ==
  ASSUME NEW d, NEW n \in Nat
  PROVE  \E g : g = [s \in SUBSET (1..n) |-> Shifted(d, g, s)]
<1>. DEFINE Good == {k \in Nat : \E g : g = [s \in SUBSET (1..k) |-> Shifted(d, g, s)]}
<1>1. 0 \in Good
  <2>. DEFINE g == [s \in SUBSET (1..0) |-> 0]
  <2>1. g = [s \in SUBSET (1..0) |-> Shifted(d, g, s)]
    BY DEF Shifted
  <2>. QED BY <2>1
<1>2. ASSUME NEW k \in Nat, k \in Good
      PROVE  k + 1 \in Good
  <2>1. PICK g : g = [s \in SUBSET (1..k) |-> Shifted(d, g, s)]
    BY <1>2
  <2>. DEFINE h == [s \in SUBSET (1..(k + 1)) |-> Shifted(d, g, s)]
              Low == SUBSET (1..k)
              High == SUBSET (1..(k + 1))
  <2>2. \A s \in Low : s \in High /\ h[s] = g[s]
    BY <2>1
  <2>3. ASSUME NEW s \in High, s # {}
        PROVE  s \ {Max(s)} \in Low
    <3>1. CASE k + 1 \in s
      <4>1. Max(s) = k + 1
        BY <3>1, MaxIs
      <4>. QED BY <4>1
    <3>2. CASE k + 1 \notin s
      <4>1. \A y \in s : y \in 1..k
        BY <3>2
      <4>. QED BY <4>1
    <3>. QED BY <3>1, <3>2
  <2>. HIDE DEF Low
  <2>4. \A s \in High : Shifted(d, g, s) = Shifted(d, h, s)
    BY <2>2, <2>3 DEF Shifted
  <2>5. h = [s \in High |-> Shifted(d, h, s)]
    BY <2>4
  <2>. HIDE DEF h
  <2>6. \E j : j = [s \in High |-> Shifted(d, j, s)]
    BY <2>5
  <2>. QED BY <2>6
<1>3. n \in Good
  <2>. HIDE DEF Good
  <2>. QED BY <1>1, <1>2, CountingUp
<1>. QED BY <1>3

(* What is left as the digits are read, one at a time. *)
LEMMA Mod97Runs ==
  ASSUME NEW n \in Nat, NEW d \in Digits(n)
  PROVE  \E left \in [0..n -> Ninety7] :
           /\ left[0] = 0
           /\ \A k \in 1..n : left[k] = (left[k - 1] * 10 + d[k]) % 97
           /\ left[n] = Mod97(d)
<1>. DEFINE g == CHOOSE h : h = [s \in SUBSET (1..n) |-> Shifted(d, h, s)]
            left == [k \in 0..n |-> g[1..k]]
<1>1. g = [s \in SUBSET (1..n) |-> Shifted(d, g, s)]
  BY Mod97Exists
<1>2. DOMAIN d = 1..n /\ \A k \in 1..n : d[k] \in Int
  BY DEF Digits, Digit
<1>3. Mod97(d) = g[1..n]
  BY <1>2, Mod97Is
<1>. HIDE DEF g
<1>4. g[{}] = 0
  BY <1>1 DEF Shifted
<1>5. left[0] = 0
  BY <1>4
<1>6. \A k \in 1..n : left[k] = (left[k - 1] * 10 + d[k]) % 97
  <2>. TAKE k \in 1..n
  <2>. DEFINE s == 1..k
              below == 1..(k - 1)
  <2>1. s \in SUBSET (1..n) /\ s # {} /\ k \in s /\ s \in SUBSET Int /\ (\A y \in s : y <= k) /\ s \ {k} = below
    OBVIOUS
  <2>2. g[s] = Shifted(d, g, s)
    BY <1>1, <2>1
  <2>3. Max(s) = k
    <3>. HIDE DEF s
    <3>. QED BY <2>1, MaxIs
  <2>4. left[k] = g[s] /\ left[k - 1] = g[below]
    OBVIOUS
  <2>. HIDE DEF s, below, left
  <2>. QED BY <2>1, <2>2, <2>3, <2>4 DEF Shifted
<1>7. left[n] = Mod97(d)
  BY <1>3
<1>. HIDE DEF left
<1>8. \A k \in 0..n : left[k] \in Ninety7
  <2>. DEFINE Good == {k \in Nat : k <= n => left[k] \in Ninety7}
  <2>1. 0 \in Good
    BY <1>5 DEF Ninety7
  <2>2. ASSUME NEW k \in Nat, k \in Good
        PROVE  k + 1 \in Good
    <3>. SUFFICES ASSUME k + 1 <= n PROVE left[k + 1] \in Ninety7
      OBVIOUS
    <3>1. left[k] \in 0..96 /\ k + 1 \in 1..n /\ (k + 1) - 1 = k
      BY <2>2 DEF Ninety7
    <3>2. left[k + 1] = (left[k] * 10 + d[k + 1]) % 97 /\ d[k + 1] \in Int
      BY <1>2, <1>6, <3>1
    <3>. DEFINE a == left[k]
                b == d[k + 1]
    <3>3. a \in Int /\ b \in Int /\ left[k + 1] = (a * 10 + b) % 97
      BY <3>1, <3>2
    <3>. HIDE DEF a, b
    <3>4. (a * 10 + b) % 97 \in 0..96
      BY <3>3
    <3>. QED BY <3>3, <3>4 DEF Ninety7
  <2>. HIDE DEF Good
  <2>3. \A k \in Nat : k \in Good
    BY <2>1, <2>2, CountingUp
  <2>. QED BY <2>3 DEF Good
<1>9. left \in [0..n -> Ninety7]
  BY <1>8 DEF left
<1>. QED BY <1>5, <1>6, <1>7, <1>9

(* Two readings side by side: how far apart they are. *)
Apart(n, s, t, e) ==
  /\ e \in [0..n -> Ninety7]
  /\ e[0] = 0
  /\ \A k \in 1..n : e[k] = (e[k - 1] * 10 + (t[k] - s[k])) % 97
  /\ e[n] = (Mod97(t) - Mod97(s)) % 97

LEMMA Drifts ==
  ASSUME NEW n \in Nat, NEW s \in Digits(n), NEW t \in Digits(n)
  PROVE  \E e : Apart(n, s, t, e)
<1>1. PICK a \in [0..n -> Ninety7] :
           /\ a[0] = 0
           /\ \A k \in 1..n : a[k] = (a[k - 1] * 10 + s[k]) % 97
           /\ a[n] = Mod97(s)
  BY Mod97Runs
<1>2. PICK b \in [0..n -> Ninety7] :
           /\ b[0] = 0
           /\ \A k \in 1..n : b[k] = (b[k - 1] * 10 + t[k]) % 97
           /\ b[n] = Mod97(t)
  BY Mod97Runs
<1>. DEFINE e == [k \in 0..n |-> (b[k] - a[k]) % 97]
<1>3. \A k \in 0..n : a[k] \in Int /\ b[k] \in Int
  <2>1. \A z \in Ninety7 : z \in Int
    BY DEF Ninety7
  <2>. QED BY <2>1
<1>4. \A x \in Int, y \in Int : (x - y) % 97 \in Ninety7
  BY DEF Ninety7
<1>5. e \in [0..n -> Ninety7]
  BY <1>3, <1>4
<1>6. \A k \in 1..n : e[k] = (e[k - 1] * 10 + (t[k] - s[k])) % 97
  <2>. TAKE k \in 1..n
  <2>. DEFINE x == a[k - 1]
              y == b[k - 1]
              u == s[k]
              v == t[k]
  <2>1. k - 1 \in 0..n /\ k \in 0..n
    OBVIOUS
  <2>2. x \in Int /\ y \in Int
    BY <1>3, <2>1
  <2>3. u \in Int /\ v \in Int
    BY SMTT(60) DEF Digits, Digit
  <2>4. a[k] = (x * 10 + u) % 97 /\ b[k] = (y * 10 + v) % 97
    BY <1>1, <1>2
  <2>5. e[k] = (b[k] - a[k]) % 97 /\ e[k - 1] = (y - x) % 97
    BY <2>1
  <2>. HIDE DEF x, y, u, v, e
  <2>6. (((y * 10 + v) % 97) - ((x * 10 + u) % 97)) % 97 = (((y - x) % 97) * 10 + (v - u)) % 97
    BY <2>2, <2>3
  <2>7. e[k] = (e[k - 1] * 10 + (v - u)) % 97
    BY <2>4, <2>5, <2>6
  <2>. QED BY <2>7 DEF u, v
<1>7. e[0] = 0
  BY <1>1, <1>2
<1>8. e[n] = (Mod97(t) - Mod97(s)) % 97
  BY <1>1, <1>2
<1>. HIDE DEF e
<1>. QED BY <1>5, <1>6, <1>7, <1>8 DEF Apart

(* As long as they agree they are together; once apart, agreeing keeps     *)
(* them apart.                                                             *)
LEMMA StaysTogether ==
  ASSUME NEW n \in Nat, NEW s \in Digits(n), NEW t \in Digits(n), NEW e, Apart(n, s, t, e),
         NEW m \in 0..n, \A k \in 1..m : t[k] = s[k]
  PROVE  e[m] = 0
<1>. DEFINE Good == {k \in Nat : k <= m => e[k] = 0}
<1>1. 0 \in Good
  BY DEF Apart
<1>2. ASSUME NEW k \in Nat, k \in Good
      PROVE  k + 1 \in Good
  <2>. SUFFICES ASSUME k + 1 <= m PROVE e[k + 1] = 0
    OBVIOUS
  <2>1. e[k] = 0 /\ k + 1 \in 1..n /\ k + 1 \in 1..m /\ (k + 1) - 1 = k
    BY <1>2
  <2>2. e[k + 1] = (e[k] * 10 + (t[k + 1] - s[k + 1])) % 97
    BY <2>1 DEF Apart
  <2>3. t[k + 1] = s[k + 1] /\ s[k + 1] \in Int
    BY <2>1 DEF Digits, Digit
  <2>4. e[k] * 10 + (t[k + 1] - s[k + 1]) = 0
    BY <2>1, <2>3
  <2>. QED BY <2>2, <2>4
<1>. HIDE DEF Good
<1>3. \A k \in Nat : k \in Good
  BY <1>1, <1>2, CountingUp
<1>4. m \in Good
  BY <1>3
<1>. QED BY <1>4 DEF Good

LEMMA StaysApart ==
  ASSUME NEW n \in Nat, NEW s \in Digits(n), NEW t \in Digits(n), NEW e, Apart(n, s, t, e),
         NEW m \in 0..n, e[m] # 0, \A k \in (m + 1)..n : t[k] = s[k]
  PROVE  e[n] # 0
<1>. DEFINE Good == {k \in Nat : m + k <= n => e[m + k] # 0}
<1>1. 0 \in Good
  OBVIOUS
<1>2. ASSUME NEW k \in Nat, k \in Good
      PROVE  k + 1 \in Good
  <2>. DEFINE j == m + k
  <2>. SUFFICES ASSUME j + 1 <= n PROVE e[j + 1] # 0
    OBVIOUS
  <2>1. e[j] # 0 /\ j \in 0..n /\ j + 1 \in 1..n /\ j + 1 \in (m + 1)..n /\ (j + 1) - 1 = j
    BY <1>2
  <2>. HIDE DEF j
  <2>2. e[j + 1] = (e[j] * 10 + (t[j + 1] - s[j + 1])) % 97 /\ e[j] \in Ninety7
    BY <2>1 DEF Apart
  <2>3. t[j + 1] = s[j + 1] /\ s[j + 1] \in Int
    BY <2>1 DEF Digits, Digit
  <2>. DEFINE x == e[j]
  <2>4. x \in 1..96 /\ e[j + 1] = (x * 10) % 97
    BY <2>1, <2>2, <2>3 DEF Ninety7
  <2>. HIDE DEF x
  <2>5. (x * 10) % 97 # 0
    BY <2>4
  <2>. QED BY <2>4, <2>5
<1>. HIDE DEF Good
<1>3. \A k \in Nat : k \in Good
  BY <1>1, <1>2, CountingUp
<1>4. n - m \in Good /\ m + (n - m) = n
  BY <1>3
<1>. QED BY <1>4 DEF Good

(* What is read of an IBAN: its country and check come last. *)
Rotated(iban) == SubSeq(iban, 3, 21) \o Country \o SubSeq(iban, 1, 2)

LEMMA RotatedIs ==
  ASSUME NEW iban \in Digits(21)
  PROVE  /\ Rotated(iban) \in Digits(25)
         /\ \A i \in 1..19 : Rotated(iban)[i] = iban[i + 2]
         /\ \A i \in 20..23 : Rotated(iban)[i] = Country[i - 19]
         /\ Rotated(iban)[24] = iban[1] /\ Rotated(iban)[25] = iban[2]
<1>. DEFINE body == SubSeq(iban, 3, 21)
            check == SubSeq(iban, 1, 2)
            half == body \o Country
            all == half \o check
<1>1. body \in Digits(19) /\ \A i \in 1..19 : body[i] = iban[i + 2]
  <2>1. body = [i \in 1..19 |-> iban[i + 2]]
    BY DEF Digits
  <2>2. \A i \in 1..19 : iban[i + 2] \in Digit
    BY DEF Digits
  <2>. HIDE DEF body
  <2>. QED BY <2>1, <2>2 DEF Digits
<1>2. check \in Digits(2) /\ check[1] = iban[1] /\ check[2] = iban[2]
  <2>1. check = [i \in 1..2 |-> iban[i]]
    BY DEF Digits
  <2>2. \A i \in 1..2 : iban[i] \in Digit
    BY DEF Digits
  <2>. HIDE DEF check
  <2>. QED BY <2>1, <2>2 DEF Digits
<1>3. Country \in Digits(4)
  BY DEF Country, Digits, Digit
<1>. HIDE DEF body, check
<1>4. half \in Digits(23) /\ (\A i \in 1..19 : half[i] = body[i]) /\ \A i \in 1..4 : half[19 + i] = Country[i]
  <2>1. 19 \in Nat /\ 4 \in Nat /\ 19 + 4 = 23
    OBVIOUS
  <2>2. half \in Digits(19 + 4)
    BY <1>1, <1>3, <2>1, Joined
  <2>3. \A i \in 1..19 : half[i] = body[i]
    BY <1>1, <1>3, <2>1, Joined
  <2>4. \A i \in 1..4 : half[19 + i] = Country[i]
    BY ZenonT(60), <1>1, <1>3, <2>1, Joined
  <2>. QED BY <2>1, <2>2, <2>3, <2>4
<1>. HIDE DEF half
<1>5. all \in Digits(25) /\ (\A i \in 1..23 : all[i] = half[i]) /\ \A i \in 1..2 : all[23 + i] = check[i]
  <2>1. 23 \in Nat /\ 2 \in Nat /\ 23 + 2 = 25
    OBVIOUS
  <2>2. all \in Digits(23 + 2)
    BY <1>2, <1>4, <2>1, Joined
  <2>3. \A i \in 1..23 : all[i] = half[i]
    BY ZenonT(60), <1>2, <1>4, <2>1, Joined
  <2>4. \A i \in 1..2 : all[23 + i] = check[i]
    BY ZenonT(60), <1>2, <1>4, <2>1, Joined
  <2>. QED BY <2>1, <2>2, <2>3, <2>4
<1>6. Rotated(iban) = all
  BY DEF Rotated, all, half, body, check
<1>. HIDE DEF all
<1>7. \A i \in 1..19 : all[i] = iban[i + 2]
  BY <1>1, <1>4, <1>5
<1>8. \A i \in 20..23 : all[i] = Country[i - 19]
  <2>. TAKE i \in 20..23
  <2>1. i - 19 \in 1..4 /\ 19 + (i - 19) = i /\ i \in 1..23
    OBVIOUS
  <2>. QED BY <1>4, <1>5, <2>1
<1>9. all[24] = iban[1] /\ all[25] = iban[2]
  <2>1. 1 \in 1..2 /\ 2 \in 1..2 /\ 23 + 1 = 24 /\ 23 + 2 = 25
    OBVIOUS
  <2>. QED BY <1>2, <1>5, <2>1
<1>. QED BY <1>5, <1>6, <1>7, <1>8, <1>9

LEMMA IbanIsValid ==
  ASSUME NEW iban \in Digits(21)
  PROVE  IsValidIban(iban) <=> Mod97(Rotated(iban)) = 1
<1>1. Len(iban) = 21 /\ \A i \in 1..21 : iban[i] \in Digit
  <2>1. 21 \in Nat
    OBVIOUS
  <2>. QED BY <2>1, DigitsAre DEF Digits
<1>. QED BY <1>1 DEF IsValidIban, Rotated

LEMMA Mod97Type ==
  ASSUME NEW n \in Nat, NEW d \in Digits(n)
  PROVE  Mod97(d) \in Ninety7
BY Mod97Runs

(* A reading that ends apart from a right one is not right. *)
LEMMA ApartIsWrong ==
  ASSUME NEW s \in Digits(21), NEW t \in Digits(21), IsValidIban(s),
         NEW e, Apart(25, Rotated(s), Rotated(t), e), e[25] # 0
  PROVE  ~IsValidIban(t)
<1>1. e[25] = (Mod97(Rotated(t)) - Mod97(Rotated(s))) % 97
  BY DEF Apart
<1>2. Mod97(Rotated(s)) = 1
  BY IbanIsValid
<1>3. Mod97(Rotated(t)) # 1
  BY <1>1, <1>2
<1>. QED BY <1>3, IbanIsValid

LEMMA DigitsApart ==
  ASSUME NEW a \in Digit, NEW b \in Digit, a # b
  PROVE  b - a \in (-9..9) \ {0}
BY DEF Digit

LEMMA ChangedOnce ==
  ASSUME NEW n \in Nat, NEW s \in Digits(n), NEW t \in Digits(n), NEW e, Apart(n, s, t, e),
         NEW p \in 1..n, t[p] # s[p], \A k \in (1..n) \ {p} : t[k] = s[k]
  PROVE  e[n] # 0
<1>1. e[p - 1] = 0
  <2>1. p - 1 \in 0..n /\ \A k \in 1..(p - 1) : t[k] = s[k]
    OBVIOUS
  <2>. QED BY <2>1, StaysTogether
<1>2. e[p] # 0
  <2>1. t[p] - s[p] \in (-9..9) \ {0}
    BY DigitsApart DEF Digits
  <2>2. e[p] = (e[p - 1] * 10 + (t[p] - s[p])) % 97
    BY DEF Apart
  <2>. DEFINE d == t[p] - s[p]
  <2>. HIDE DEF d
  <2>3. d \in (-9..9) \ {0} /\ e[p] = (0 * 10 + d) % 97
    BY <1>1, <2>1, <2>2 DEF d
  <2>4. (0 * 10 + d) % 97 # 0
    BY <2>3
  <2>. QED BY <2>3, <2>4
<1>3. p \in 0..n /\ \A k \in (p + 1)..n : t[k] = s[k]
  OBVIOUS
<1>. QED BY <1>2, <1>3, StaysApart

LEMMA SwappedOnce ==
  ASSUME NEW n \in Nat, NEW s \in Digits(n), NEW t \in Digits(n), NEW e, Apart(n, s, t, e),
         NEW p \in 1..n, p + 1 \in 1..n, s[p] # s[p + 1], t[p] = s[p + 1], t[p + 1] = s[p],
         \A k \in (1..n) \ {p, p + 1} : t[k] = s[k]
  PROVE  e[n] # 0
<1>1. e[p - 1] = 0
  <2>1. p - 1 \in 0..n /\ \A k \in 1..(p - 1) : t[k] = s[k]
    OBVIOUS
  <2>. QED BY <2>1, StaysTogether
<1>2. e[p + 1] # 0
  <2>. DEFINE d == s[p + 1] - s[p]
  <2>1. d \in (-9..9) \ {0}
    BY DigitsApart DEF Digits
  <2>2. s[p] \in Int /\ s[p + 1] \in Int
    BY DEF Digits, Digit
  <2>3. t[p] - s[p] = d /\ t[p + 1] - s[p + 1] = -d
    BY <2>2
  <2>4. e[p] = (e[p - 1] * 10 + (t[p] - s[p])) % 97
    BY DEF Apart
  <2>5. e[p + 1] = (e[p] * 10 + (t[p + 1] - s[p + 1])) % 97
    <3>1. (p + 1) - 1 = p
      OBVIOUS
    <3>. QED BY <3>1 DEF Apart
  <2>. HIDE DEF d
  <2>6. e[p + 1] = (((0 * 10 + d) % 97) * 10 + (-d)) % 97
    BY <1>1, <2>3, <2>4, <2>5
  <2>7. (((0 * 10 + d) % 97) * 10 + (-d)) % 97 # 0
    BY <2>1
  <2>. QED BY <2>6, <2>7
<1>3. p + 1 \in 0..n /\ \A k \in ((p + 1) + 1)..n : t[k] = s[k]
  OBVIOUS
<1>. QED BY <1>2, <1>3, StaysApart

(* The first of all swapped with the last of all: ten to the twenty-fourth *)
(* is not one, modulo 97.                                                  *)
LEMMA FourOn ==
  ASSUME NEW n \in Nat, NEW s \in Digits(n), NEW t \in Digits(n), NEW e, Apart(n, s, t, e),
         NEW m \in 0..n, m + 4 <= n, \A k \in (m + 1)..(m + 4) : t[k] = s[k]
  PROVE  e[m + 4] = (e[m] * 9) % 97
<1>1. \A k \in (m + 1)..(m + 4) : e[k] = (e[k - 1] * 10) % 97
  <2>. TAKE k \in (m + 1)..(m + 4)
  <2>1. k \in 1..n
    OBVIOUS
  <2>2. e[k] = (e[k - 1] * 10 + (t[k] - s[k])) % 97
    BY <2>1 DEF Apart
  <2>3. t[k] - s[k] = 0
    BY <2>1 DEF Digits, Digit
  <2>4. k - 1 \in 0..n
    BY <2>1
  <2>5. e[k - 1] \in Ninety7
    BY <2>4 DEF Apart
  <2>6. e[k - 1] * 10 + (t[k] - s[k]) = e[k - 1] * 10
    BY <2>3, <2>5 DEF Ninety7
  <2>. QED BY <2>2, <2>6
<1>. DEFINE x == e[m]
<1>2. x \in Int
  <2>1. x \in Ninety7
    BY DEF Apart
  <2>. QED BY <2>1 DEF Ninety7
<1>3. /\ e[m + 1] = (x * 10) % 97 /\ e[m + 2] = (e[m + 1] * 10) % 97
      /\ e[m + 3] = (e[m + 2] * 10) % 97 /\ e[m + 4] = (e[m + 3] * 10) % 97
  <2>1. /\ m + 1 \in (m + 1)..(m + 4) /\ (m + 1) - 1 = m
        /\ m + 2 \in (m + 1)..(m + 4) /\ (m + 2) - 1 = m + 1
        /\ m + 3 \in (m + 1)..(m + 4) /\ (m + 3) - 1 = m + 2
        /\ m + 4 \in (m + 1)..(m + 4) /\ (m + 4) - 1 = m + 3
    OBVIOUS
  <2>. QED BY <1>1, <2>1
<1>. HIDE DEF x
<1>4. e[m + 2] = (x * 3) % 97
  <2>1. (((x * 10) % 97) * 10) % 97 = (x * 3) % 97
    BY <1>2
  <2>. QED BY <1>3, <2>1
<1>5. e[m + 3] = (x * 30) % 97
  <2>1. (((x * 3) % 97) * 10) % 97 = (x * 30) % 97
    BY <1>2
  <2>. QED BY <1>3, <1>4, <2>1
<1>6. e[m + 4] = (x * 9) % 97
  <2>1. (((x * 30) % 97) * 10) % 97 = (x * 9) % 97
    BY <1>2
  <2>. QED BY <1>3, <1>5, <2>1
<1>. QED BY <1>6 DEF x

LEMMA EndsSwapped ==
  ASSUME NEW s \in Digits(25), NEW t \in Digits(25), NEW e, Apart(25, s, t, e),
         s[1] # s[25], t[1] = s[25], t[25] = s[1], \A k \in 2..24 : t[k] = s[k]
  PROVE  e[25] # 0
<1>. DEFINE d == s[25] - s[1]
<1>0. 25 \in Nat
  OBVIOUS
<1>1. d \in (-9..9) \ {0} /\ s[1] \in Int /\ s[25] \in Int
  BY DigitsApart DEF Digits, Digit
<1>2. e[1] = (0 * 10 + d) % 97
  <2>1. e[1] = (e[0] * 10 + (t[1] - s[1])) % 97 /\ e[0] = 0
    BY DEF Apart
  <2>. QED BY <2>1
<1>3. e[25] = (e[24] * 10 + (-d)) % 97
  <2>1. e[25] = (e[24] * 10 + (t[25] - s[25])) % 97
    BY DEF Apart
  <2>2. t[25] - s[25] = -d
    BY <1>1
  <2>. QED BY <2>1, <2>2
<1>4. \A m \in 1..20 : e[m + 4] = (e[m] * 9) % 97
  <2>. TAKE m \in 1..20
  <2>1. m \in 0..25 /\ m + 4 <= 25 /\ \A k \in (m + 1)..(m + 4) : t[k] = s[k]
    OBVIOUS
  <2>. QED BY <1>0, <2>1, FourOn
<1>5. /\ e[5] = (e[1] * 9) % 97 /\ e[9] = (e[5] * 9) % 97 /\ e[13] = (e[9] * 9) % 97
      /\ e[17] = (e[13] * 9) % 97 /\ e[21] = (e[17] * 9) % 97
  <2>1. /\ 1 \in 1..20 /\ 5 \in 1..20 /\ 9 \in 1..20 /\ 13 \in 1..20 /\ 17 \in 1..20
        /\ 1 + 4 = 5 /\ 5 + 4 = 9 /\ 9 + 4 = 13 /\ 13 + 4 = 17 /\ 17 + 4 = 21
    OBVIOUS
  <2>. QED BY <1>4, <2>1
<1>6. e[22] = (e[21] * 10) % 97 /\ e[23] = (e[22] * 10) % 97 /\ e[24] = (e[23] * 10) % 97
  <2>1. \A k \in 22..24 : e[k] = (e[k - 1] * 10) % 97
    <3>. TAKE k \in 22..24
    <3>1. e[k] = (e[k - 1] * 10 + (t[k] - s[k])) % 97 /\ e[k - 1] \in Ninety7
      BY DEF Apart
    <3>2. t[k] - s[k] = 0
      BY DEF Digits, Digit
    <3>3. e[k - 1] * 10 + (t[k] - s[k]) = e[k - 1] * 10
      BY <3>1, <3>2 DEF Ninety7
    <3>. QED BY <3>1, <3>3
  <2>2. /\ 22 \in 22..24 /\ 23 \in 22..24 /\ 24 \in 22..24
        /\ 22 - 1 = 21 /\ 23 - 1 = 22 /\ 24 - 1 = 23
    OBVIOUS
  <2>. QED BY <2>1, <2>2
<1>. HIDE DEF d
<1>7. d \in Int
  BY SMTT(60), <1>1
<1>8. e[5] = (d * 9) % 97
  <2>1. (((0 * 10 + d) % 97) * 9) % 97 = (d * 9) % 97
    BY <1>7
  <2>. QED BY <1>2, <1>5, <2>1
<1>9. e[9] = (d * 81) % 97
  <2>1. (((d * 9) % 97) * 9) % 97 = (d * 81) % 97
    BY <1>7
  <2>. QED BY <1>5, <1>8, <2>1
<1>10. e[13] = (d * 50) % 97
  <2>1. (((d * 81) % 97) * 9) % 97 = (d * 50) % 97
    BY <1>7
  <2>. QED BY <1>5, <1>9, <2>1
<1>11. e[17] = (d * 62) % 97
  <2>1. (((d * 50) % 97) * 9) % 97 = (d * 62) % 97
    BY <1>7
  <2>. QED BY <1>5, <1>10, <2>1
<1>12. e[21] = (d * 73) % 97
  <2>1. (((d * 62) % 97) * 9) % 97 = (d * 73) % 97
    BY <1>7
  <2>. QED BY <1>5, <1>11, <2>1
<1>13. e[22] = (d * 51) % 97
  <2>1. (((d * 73) % 97) * 10) % 97 = (d * 51) % 97
    BY <1>7
  <2>. QED BY <1>6, <1>12, <2>1
<1>14. e[23] = (d * 25) % 97
  <2>1. (((d * 51) % 97) * 10) % 97 = (d * 25) % 97
    BY <1>7
  <2>. QED BY <1>6, <1>13, <2>1
<1>15. e[24] = (d * 56) % 97
  <2>1. (((d * 25) % 97) * 10) % 97 = (d * 56) % 97
    BY <1>7
  <2>. QED BY <1>6, <1>14, <2>1
<1>16. (((d * 56) % 97) * 10 + (-d)) % 97 # 0
  BY <1>1
<1>. QED BY <1>3, <1>15, <1>16

LEMMA RotatedAt ==
  ASSUME NEW iban \in Digits(21), NEW k \in 1..25
  PROVE  Rotated(iban)[k] =
           IF k <= 19 THEN iban[k + 2] ELSE IF k <= 23 THEN Country[k - 19] ELSE iban[k - 23]
<1>1. CASE k <= 19
  BY <1>1, RotatedIs
<1>2. CASE k > 19 /\ k <= 23
  <2>1. k \in 20..23
    BY <1>2
  <2>. QED BY <1>2, <2>1, RotatedIs
<1>3. CASE k > 23
  <2>1. k = 24 \/ k = 25
    BY <1>3
  <2>. QED BY <2>1, RotatedIs
<1>. QED BY <1>1, <1>2, <1>3

LEMMA IbanSlips ==
  ASSUME NEW iban \in Digits(21), IsValidIban(iban)
  PROVE  /\ \A i \in 1..21, d \in Digit : d # iban[i] => ~IsValidIban(Retyped(iban, i, d))
         /\ \A i \in 1..20 : iban[i] # iban[i + 1] => ~IsValidIban(Swapped(iban, i))
<1>0. 25 \in Nat /\ Rotated(iban) \in Digits(25)
  BY RotatedIs
<1>. DEFINE s == Rotated(iban)
<1>1. ASSUME NEW i \in 1..21, NEW d \in Digit, d # iban[i]
      PROVE  ~IsValidIban(Retyped(iban, i, d))
  <2>. DEFINE new == Retyped(iban, i, d)
              t == Rotated(new)
              p == IF i > 2 THEN i - 2 ELSE i + 23
  <2>1. new \in Digits(21) /\ new[i] = d /\ \A j \in 1..21 : j # i => new[j] = iban[j]
    BY DEF Digits, Retyped
  <2>. HIDE DEF new
  <2>2. t \in Digits(25)
    BY <2>1, RotatedIs
  <2>3. p \in 1..25
    OBVIOUS
  <2>4. \A k \in 1..25 : /\ s[k] = IF k <= 19 THEN iban[k + 2] ELSE IF k <= 23 THEN Country[k - 19] ELSE iban[k - 23]
                         /\ t[k] = IF k <= 19 THEN new[k + 2] ELSE IF k <= 23 THEN Country[k - 19] ELSE new[k - 23]
    BY <2>1, RotatedAt
  <2>. HIDE DEF s, t
  <2>5. t[p] # s[p]
    <3>1. CASE i > 2
      <4>1. p <= 19 /\ p + 2 = i
        BY <3>1
      <4>. QED BY <1>1, <2>1, <2>3, <2>4, <4>1
    <3>2. CASE i <= 2
      <4>1. ~(p <= 19) /\ ~(p <= 23) /\ p - 23 = i
        BY <3>2
      <4>. QED BY <1>1, <2>1, <2>3, <2>4, <4>1
    <3>. QED BY <3>1, <3>2
  <2>6. ASSUME NEW k \in (1..25) \ {p} PROVE t[k] = s[k]
    <3>1. CASE k <= 19
      <4>1. k + 2 \in 1..21 /\ k + 2 # i
        BY <3>1
      <4>. QED BY <2>1, <2>4, <3>1, <4>1
    <3>2. CASE ~(k <= 19) /\ k <= 23
      BY <2>4, <3>2
    <3>3. CASE ~(k <= 23)
      <4>1. k - 23 \in 1..21 /\ k - 23 # i /\ ~(k <= 19)
        BY <3>3
      <4>. QED BY <2>1, <2>4, <3>3, <4>1
    <3>. QED BY <3>1, <3>2, <3>3
  <2>. HIDE DEF p
  <2>7. PICK e : Apart(25, s, t, e)
    BY <1>0, <2>2, Drifts DEF s
  <2>8. e[25] # 0
    <3>1. s \in Digits(25)
      BY <1>0 DEF s
    <3>. QED BY <1>0, <2>2, <2>3, <2>5, <2>6, <2>7, <3>1, ChangedOnce
  <2>9. ~IsValidIban(new)
    BY <2>1, <2>7, <2>8, ApartIsWrong DEF s, t
  <2>. QED BY <2>9 DEF new
<1>2. ASSUME NEW i \in 1..20, iban[i] # iban[i + 1]
      PROVE  ~IsValidIban(Swapped(iban, i))
  <2>. DEFINE new == Swapped(iban, i)
              t == Rotated(new)
  <2>1. /\ new \in Digits(21) /\ new[i] = iban[i + 1] /\ new[i + 1] = iban[i]
        /\ \A j \in 1..21 : j # i /\ j # i + 1 => new[j] = iban[j]
    BY DEF Digits, Swapped
  <2>. HIDE DEF new
  <2>2. t \in Digits(25) /\ s \in Digits(25)
    BY <1>0, <2>1, RotatedIs
  <2>3. \A k \in 1..25 : /\ s[k] = IF k <= 19 THEN iban[k + 2] ELSE IF k <= 23 THEN Country[k - 19] ELSE iban[k - 23]
                         /\ t[k] = IF k <= 19 THEN new[k + 2] ELSE IF k <= 23 THEN Country[k - 19] ELSE new[k - 23]
    BY <2>1, RotatedAt
  <2>. HIDE DEF s, t
  <2>4. PICK e : Apart(25, s, t, e)
    BY <1>0, <2>2, Drifts
  <2>5. CASE i = 2
    <3>1. s[1] = iban[3] /\ s[25] = iban[2] /\ t[1] = new[3] /\ t[25] = new[2]
      BY <2>3
    <3>2. new[2] = iban[3] /\ new[3] = iban[2] /\ iban[2] # iban[3]
      BY <1>2, <2>1, <2>5
    <3>3. ASSUME NEW k \in 2..24 PROVE t[k] = s[k]
      <4>1. CASE k <= 19
        <5>1. k + 2 \in 1..21 /\ k + 2 # i /\ k + 2 # i + 1
          BY <2>5, <4>1
        <5>. QED BY <2>1, <2>3, <4>1, <5>1
      <4>2. CASE ~(k <= 19) /\ k <= 23
        BY <2>3, <4>2
      <4>3. CASE ~(k <= 23)
        <5>1. k - 23 \in 1..21 /\ k - 23 # i /\ k - 23 # i + 1 /\ ~(k <= 19)
          BY <2>5, <4>3
        <5>. QED BY <2>1, <2>3, <4>3, <5>1
      <4>. QED BY <4>1, <4>2, <4>3
    <3>4. e[25] # 0
      BY <2>2, <2>4, <3>1, <3>2, <3>3, EndsSwapped
    <3>5. ~IsValidIban(new)
      BY <2>1, <2>4, <3>4, ApartIsWrong DEF s, t
    <3>. QED BY <3>5 DEF new
  <2>6. CASE i # 2
    <3>. DEFINE p == IF i > 2 THEN i - 2 ELSE i + 23
    <3>1. p \in 1..25 /\ p + 1 \in 1..25
      BY <2>6
    <3>2. s[p] = iban[i] /\ s[p + 1] = iban[i + 1] /\ t[p] = new[i] /\ t[p + 1] = new[i + 1]
      <4>1. CASE i > 2
        <5>1. p <= 19 /\ p + 2 = i /\ p + 1 <= 19 /\ (p + 1) + 2 = i + 1
          BY <4>1
        <5>. QED BY <2>3, <3>1, <5>1
      <4>2. CASE ~(i > 2)
        <5>1. /\ ~(p <= 19) /\ ~(p <= 23) /\ p - 23 = i
              /\ ~(p + 1 <= 19) /\ ~(p + 1 <= 23) /\ (p + 1) - 23 = i + 1
          BY <2>6, <4>2
        <5>. QED BY <2>3, <3>1, <5>1
      <4>. QED BY <4>1, <4>2
    <3>3. ASSUME NEW k \in (1..25) \ {p, p + 1} PROVE t[k] = s[k]
      <4>1. CASE k <= 19
        <5>1. k + 2 \in 1..21 /\ k + 2 # i /\ k + 2 # i + 1
          BY <2>6, <4>1
        <5>. QED BY <2>1, <2>3, <4>1, <5>1
      <4>2. CASE ~(k <= 19) /\ k <= 23
        BY <2>3, <4>2
      <4>3. CASE ~(k <= 23)
        <5>1. k - 23 \in 1..21 /\ k - 23 # i /\ k - 23 # i + 1 /\ ~(k <= 19)
          BY <2>6, <4>3
        <5>. QED BY <2>1, <2>3, <4>3, <5>1
      <4>. QED BY <4>1, <4>2, <4>3
    <3>. HIDE DEF p
    <3>4. e[25] # 0
      BY <1>0, <1>2, <2>1, <2>2, <2>4, <3>1, <3>2, <3>3, SwappedOnce
    <3>5. ~IsValidIban(new)
      BY <2>1, <2>4, <3>4, ApartIsWrong DEF s, t
    <3>. QED BY <3>5 DEF new
  <2>. QED BY <2>5, <2>6
<1>. QED BY <1>1, <1>2

(* What the dataset mints. *)
LEMMA BbanMinted ==
  ASSUME NEW index \in Nat
  PROVE  LET bank == 33 + (index % 60) IN
         <<0, bank \div 10, bank % 10, 1>> \o Zeros(8) \o SevenDigits(index * 7919) \in Digits(19)
<1>. DEFINE bank == 33 + (index % 60)
            front == <<0, bank \div 10, bank % 10, 1>>
            middle == Zeros(8)
            serial == SevenDigits(index * 7919)
            half == front \o middle
<1>1. front \in Digits(4)
  <2>1. bank \in 33..92
    OBVIOUS
  <2>. HIDE DEF bank
  <2>2. bank \div 10 \in Digit /\ bank % 10 \in Digit /\ 0 \in Digit /\ 1 \in Digit
    BY <2>1 DEF Digit
  <2>. QED BY <2>2 DEF Digits
<1>2. middle \in Digits(8)
  BY DEF Zeros, Digits, Digit
<1>3. serial \in Digits(7)
  <2>1. index * 7919 \in Nat
    OBVIOUS
  <2>. QED BY <2>1, SevenAre
<1>. HIDE DEF front, middle, serial
<1>4. half \in Digits(12)
  <2>1. 4 \in Nat /\ 8 \in Nat /\ 4 + 8 = 12
    OBVIOUS
  <2>2. half \in Digits(4 + 8)
    BY <1>1, <1>2, <2>1, Joined
  <2>. QED BY <2>1, <2>2
<1>. HIDE DEF half
<1>5. half \o serial \in Digits(19)
  <2>1. 12 \in Nat /\ 7 \in Nat /\ 12 + 7 = 19
    OBVIOUS
  <2>2. half \o serial \in Digits(12 + 7)
    BY <1>3, <1>4, <2>1, Joined
  <2>. QED BY <2>1, <2>2
<1>. QED BY <1>5 DEF half, front, middle, serial

LEMMA CheckDigitsHold ==
  ASSUME NEW bban \in Digits(19)
  PROVE  /\ IbanCheckDigits(bban) \o bban \in Digits(21)
         /\ IsValidIban(IbanCheckDigits(bban) \o bban)
<1>. DEFINE zeros == <<0, 0>>
            blank == zeros \o bban
            s == Rotated(blank)
            left == Mod97(s)
            code == 98 - left
            check == IbanCheckDigits(bban)
            iban == check \o bban
            t == Rotated(iban)
<1>0. 2 \in Nat /\ 19 \in Nat /\ 2 + 19 = 21 /\ 25 \in Nat
  OBVIOUS
<1>1. zeros \in Digits(2) /\ zeros[1] = 0 /\ zeros[2] = 0
  BY DEF Digits, Digit
<1>. HIDE DEF zeros
<1>2. /\ blank \in Digits(21)
      /\ \A i \in 1..2 : blank[i] = zeros[i]
      /\ \A i \in 1..19 : blank[2 + i] = bban[i]
  <2>1. blank \in Digits(2 + 19)
    BY <1>0, <1>1, Joined
  <2>2. \A i \in 1..2 : blank[i] = zeros[i]
    BY <1>0, <1>1, Joined
  <2>3. \A i \in 1..19 : blank[2 + i] = bban[i]
    BY <1>0, <1>1, Joined
  <2>. QED BY <1>0, <2>1, <2>2, <2>3
<1>3. s = bban \o Country \o <<0, 0>>
  <2>1. SubSeq(blank, 3, 21) = [i \in 1..19 |-> blank[i + 2]]
    <3>. HIDE DEF blank
    <3>. QED BY <1>2 DEF Digits
  <2>2. \A i \in 1..19 : blank[i + 2] = bban[i]
    <3>1. \A i \in 1..19 : i + 2 = 2 + i
      OBVIOUS
    <3>. QED BY <1>2, <3>1
  <2>3. [i \in 1..19 |-> blank[i + 2]] = bban
    <3>. HIDE DEF blank
    <3>. QED BY <2>2 DEF Digits
  <2>4. SubSeq(blank, 1, 2) = zeros
    <3>1. SubSeq(blank, 1, 2) = [i \in 1..2 |-> blank[i]]
      <4>. HIDE DEF blank
      <4>. QED BY <1>2 DEF Digits
    <3>2. [i \in 1..2 |-> blank[i]] = zeros
      <4>. HIDE DEF blank
      <4>. QED BY <1>1, <1>2 DEF Digits
    <3>. QED BY <3>1, <3>2
  <2>. HIDE DEF blank
  <2>. QED BY <2>1, <2>3, <2>4 DEF Rotated, zeros
<1>. HIDE DEF blank
<1>4. s \in Digits(25) /\ left \in 0..96
  <2>1. s \in Digits(25)
    BY <1>2, RotatedIs
  <2>. HIDE DEF s
  <2>2. left \in Ninety7
    BY <1>0, <2>1, Mod97Type
  <2>. QED BY <2>1, <2>2 DEF Ninety7
<1>5. check = <<code \div 10, code % 10>>
  BY <1>3 DEF IbanCheckDigits
<1>. HIDE DEF s, left
<1>6. check \in Digits(2) /\ check[1] = code \div 10 /\ check[2] = code % 10
  <2>1. code \in 2..98
    BY <1>4
  <2>. HIDE DEF code
  <2>2. code \div 10 \in Digit /\ code % 10 \in Digit
    BY <2>1 DEF Digit
  <2>. QED BY <1>5, <2>2 DEF Digits
<1>. HIDE DEF check
<1>7. /\ iban \in Digits(21)
      /\ \A i \in 1..2 : iban[i] = check[i]
      /\ \A i \in 1..19 : iban[2 + i] = bban[i]
  <2>0. check \in Digits(2)
    BY <1>6
  <2>1. iban \in Digits(2 + 19)
    BY <1>0, <2>0, Joined
  <2>2. \A i \in 1..2 : iban[i] = check[i]
    <3>1. \A m \in Nat, n \in Nat : \A p \in Digits(m), q \in Digits(n) :
            \A i \in 1..m : (p \o q)[i] = p[i]
      BY ONLY Joined
    <3>. QED BY ZenonT(60), <1>0, <2>0, <3>1
  <2>3. \A i \in 1..19 : iban[2 + i] = bban[i]
    BY ZenonT(60), <1>0, <2>0, Joined
  <2>. QED BY <1>0, <2>1, <2>2, <2>3
<1>. HIDE DEF iban
<1>8. t \in Digits(25)
  BY <1>7, RotatedIs
<1>9. \A k \in 1..25 :
        /\ s[k] = IF k <= 19 THEN blank[k + 2] ELSE IF k <= 23 THEN Country[k - 19] ELSE blank[k - 23]
        /\ t[k] = IF k <= 19 THEN iban[k + 2] ELSE IF k <= 23 THEN Country[k - 19] ELSE iban[k - 23]
  BY <1>2, <1>7, RotatedAt DEF s
<1>. HIDE DEF t
<1>10. \A k \in 1..23 : t[k] = s[k]
  <2>. TAKE k \in 1..23
  <2>1. CASE k <= 19
    <3>1. k \in 1..19 /\ k \in 1..25 /\ k + 2 = 2 + k
      BY <2>1
    <3>. QED BY <1>2, <1>7, <1>9, <2>1, <3>1
  <2>2. CASE ~(k <= 19)
    <3>1. k \in 1..25 /\ k <= 23
      OBVIOUS
    <3>. QED BY <1>9, <2>2, <3>1
  <2>. QED BY <2>1, <2>2
<1>11. s[24] = 0 /\ s[25] = 0 /\ t[24] = code \div 10 /\ t[25] = code % 10
  <2>1. /\ 24 \in 1..25 /\ 25 \in 1..25 /\ ~(24 <= 19) /\ ~(24 <= 23) /\ ~(25 <= 19) /\ ~(25 <= 23)
        /\ 24 - 23 = 1 /\ 25 - 23 = 2 /\ 1 \in 1..2 /\ 2 \in 1..2
    OBVIOUS
  <2>2. s[24] = blank[1] /\ s[25] = blank[2] /\ t[24] = iban[1] /\ t[25] = iban[2]
    BY <1>9, <2>1
  <2>. QED BY <1>1, <1>2, <1>6, <1>7, <2>1, <2>2
<1>12. PICK e : Apart(25, s, t, e)
  BY <1>0, <1>4, <1>8, Drifts
<1>13. e[23] = 0
  <2>1. 23 \in 0..25
    OBVIOUS
  <2>. QED BY <1>0, <1>4, <1>8, <1>10, <1>12, <2>1, StaysTogether
<1>14. e[24] = (e[23] * 10 + (t[24] - s[24])) % 97 /\ e[25] = (e[24] * 10 + (t[25] - s[25])) % 97
  BY <1>12 DEF Apart
<1>15. e[25] = (((0 * 10 + ((code \div 10) - 0)) % 97) * 10 + ((code % 10) - 0)) % 97
  BY <1>11, <1>13, <1>14
<1>16. e[25] = (Mod97(t) - left) % 97 /\ Mod97(t) \in 0..96
  BY <1>0, <1>8, <1>12, Mod97Type DEF Apart, Ninety7, left
<1>17. Mod97(t) = 1
  <2>. DEFINE m == Mod97(t)
  <2>1. code \in 2..98 /\ code = 98 - left /\ left \in 0..96 /\ m \in 0..96
    BY <1>4, <1>16
  <2>2. (m - left) % 97 = (((0 * 10 + ((code \div 10) - 0)) % 97) * 10 + ((code % 10) - 0)) % 97
    BY <1>15, <1>16
  <2>. HIDE DEF m, code
  <2>3. (((0 * 10 + ((code \div 10) - 0)) % 97) * 10 + ((code % 10) - 0)) % 97 = code % 97
    BY <2>1
  <2>4. (m - left) % 97 = (98 - left) % 97
    BY <2>1, <2>2, <2>3
  <2>5. m = 1
    BY <2>1, <2>4
  <2>. QED BY <2>5 DEF m
<1>. QED BY <1>7, <1>17, IbanIsValid DEF iban, check, t

(* An IBAN is refused once a digit is wrong or two neighbours are swapped, *)
(* and accepted as it was minted.                                          *)
THEOREM IbanCatches ==
  ASSUME NEW index \in Nat
  PROVE  IbanCatchesSlips(index)
<1>. DEFINE bank == 33 + (index % 60)
            bban == <<0, bank \div 10, bank % 10, 1>> \o Zeros(8) \o SevenDigits(index * 7919)
            iban == Iban(index)
<1>1. bban \in Digits(19)
  BY BbanMinted
<1>2. iban = IbanCheckDigits(bban) \o bban
  BY DEF Iban
<1>. HIDE DEF bban, iban
<1>3. iban \in Digits(21) /\ IsValidIban(iban)
  BY <1>1, <1>2, CheckDigitsHold
<1>4. /\ \A i \in 1..21, d \in Digit : d # iban[i] => ~IsValidIban(Retyped(iban, i, d))
      /\ \A i \in 1..20 : iban[i] # iban[i + 1] => ~IsValidIban(Swapped(iban, i))
  BY <1>3, IbanSlips
<1>. QED BY <1>3, <1>4 DEF IbanCatchesSlips, iban

-----------------------------------------------------------------------------
(* Mobile numbers. *)

LEMMA Starts ==
  ASSUME NEW n \in Nat, NEW s \in Digits(n), NEW m \in 1..n, NEW p \in Digits(m)
  PROVE  IsPrefix(p, s) <=> \A i \in 1..m : p[i] = s[i]
<1>1. Len(s) = n /\ Len(p) = m /\ m \in Nat /\ m <= n
  BY DigitsAre
<1>2. SubSeq(s, 1, m) = [i \in 1..m |-> s[i]]
  BY <1>1 DEF Digits
<1>3. SubSeq(p, 1, m) = [i \in 1..m |-> p[i]]
  BY <1>1 DEF Digits
<1>4. IsPrefix(p, s) <=> SubSeq(p, 1, m) = SubSeq(s, 1, m)
  BY <1>1 DEF IsPrefix
<1>. QED BY <1>2, <1>3, <1>4

LEMMA SameDigits ==
  ASSUME NEW n \in Nat, NEW s \in Digits(n), NEW t \in Digits(n), \A i \in 1..n : s[i] = t[i]
  PROVE  s = t
BY DEF Digits

(* Whichever way a number is typed, it is stored as one. *)
THEOREM MobileStored ==
  ASSUME NEW index \in Nat
  PROVE  MobileIsOne(index)
<1>. DEFINE digit == <<0, 2, 4, 5, 6, 8>>[(index % 6) + 1]
            head == <<9, 7, 1, 5, digit>>
            serial == SevenDigits(1000000 + ((index * 6131) % 8999999))
            stored == MobileNumber(index)
            national == SubSeq(stored, 4, 12)
            local == <<0>> \o national
            country == <<9, 7, 1>>
            zero == <<0>>
<1>1. digit \in {0, 2, 4, 5, 6, 8}
  <2>1. index % 6 \in 0..5
    OBVIOUS
  <2>2. index % 6 = 0 \/ index % 6 = 1 \/ index % 6 = 2 \/ index % 6 = 3 \/ index % 6 = 4 \/ index % 6 = 5
    BY <2>1
  <2>. QED BY <2>2
<1>2. serial \in Digits(7)
  <2>1. 1000000 + ((index * 6131) % 8999999) \in Nat
    OBVIOUS
  <2>. QED BY <2>1, SevenAre
<1>3. stored = head \o serial
  BY DEF MobileNumber
<1>. HIDE DEF digit, serial, stored
<1>4. head \in Digits(5)
  <2>1. 9 \in Digit /\ 7 \in Digit /\ 1 \in Digit /\ 5 \in Digit /\ digit \in Digit
    BY <1>1 DEF Digit
  <2>. QED BY <2>1 DEF Digits
<1>5. head[1] = 9 /\ head[2] = 7 /\ head[3] = 1 /\ head[4] = 5 /\ head[5] = digit
  OBVIOUS
<1>. HIDE DEF head
<1>6. stored \in Digits(12) /\ \A i \in 1..5 : stored[i] = head[i]
  <2>1. 5 \in Nat /\ 7 \in Nat /\ 5 + 7 = 12
    OBVIOUS
  <2>2. head \o serial \in Digits(5 + 7)
    BY <1>2, <1>4, <2>1, Joined
  <2>3. \A i \in 1..5 : (head \o serial)[i] = head[i]
    BY ZenonT(60), <1>2, <1>4, <2>1, Joined
  <2>. QED BY <1>3, <2>1, <2>2, <2>3
<1>7. stored[1] = 9 /\ stored[2] = 7 /\ stored[3] = 1 /\ stored[4] = 5 /\ stored[5] = digit
  BY <1>5, <1>6
<1>8. /\ national \in Digits(9) /\ \A i \in 1..9 : national[i] = stored[i + 3]
  <2>1. national = [i \in 1..9 |-> stored[i + 3]]
    BY <1>6 DEF Digits
  <2>2. \A i \in 1..9 : stored[i + 3] \in Digit
    BY <1>6 DEF Digits
  <2>. HIDE DEF national
  <2>. QED BY <2>1, <2>2 DEF Digits
<1>9. national[1] = 5 /\ national[2] = digit
  <2>1. 1 \in 1..9 /\ 2 \in 1..9 /\ 1 + 3 = 4 /\ 2 + 3 = 5
    OBVIOUS
  <2>. HIDE DEF national
  <2>. QED BY <1>7, <1>8, <2>1
<1>. HIDE DEF national
<1>10. /\ country \in Digits(3) /\ country[1] = 9 /\ country[2] = 7 /\ country[3] = 1
       /\ zero \in Digits(1) /\ zero[1] = 0
  BY DEF Digits, Digit
<1>. HIDE DEF country, zero
<1>11. Len(stored) = 12 /\ Len(national) = 9
  <2>1. 12 \in Nat /\ 9 \in Nat
    OBVIOUS
  <2>. QED BY ZenonT(60), <1>6, <1>8, <2>1, DigitsAre
<1>12. country \o national = stored
  <2>1. 3 \in Nat /\ 9 \in Nat /\ 12 \in Nat /\ 3 + 9 = 12
    OBVIOUS
  <2>2. country \in Digits(3) /\ national \in Digits(9)
    BY <1>8, <1>10
  <2>3. country \o national \in Digits(3 + 9)
    BY <2>1, <2>2, Joined
  <2>4. \A i \in 1..3 : (country \o national)[i] = country[i]
    BY ZenonT(60), <2>1, <2>2, Joined
  <2>5. \A i \in 1..9 : (country \o national)[3 + i] = national[i]
    BY <2>1, <2>2, Joined
  <2>. DEFINE all == country \o national
  <2>. HIDE DEF all
  <2>6. \A i \in 1..12 : all[i] = stored[i]
    <3>. TAKE i \in 1..12
    <3>1. CASE i <= 3
      <4>1. i = 1 \/ i = 2 \/ i = 3
        BY <3>1
      <4>2. \A j \in 1..3 : all[j] = country[j]
        BY <2>4 DEF all
      <4>. QED BY <1>7, <1>10, <4>1, <4>2
    <3>2. CASE ~(i <= 3)
      <4>1. i - 3 \in 1..9 /\ 3 + (i - 3) = i /\ (i - 3) + 3 = i
        BY <3>2
      <4>2. \A j \in 1..9 : all[3 + j] = national[j]
        BY <2>5 DEF all
      <4>. QED BY <1>8, <4>1, <4>2
    <3>. QED BY <3>1, <3>2
  <2>7. all \in Digits(12)
    BY <2>1, <2>3 DEF all
  <2>8. all = stored
    BY <1>6, <2>1, <2>6, <2>7, SameDigits
  <2>. QED BY <2>8 DEF all
<1>13. SubSeq(national, 1, 2) = <<5, digit>>
  <2>1. SubSeq(national, 1, 2) = [i \in 1..2 |-> national[i]]
    BY <1>8 DEF Digits
  <2>2. [i \in 1..2 |-> national[i]] = <<national[1], national[2]>>
    OBVIOUS
  <2>. QED BY <1>9, <2>1, <2>2
<1>14. <<5, digit>> \in MobilePrefixes
  BY <1>1 DEF MobilePrefixes
<1>15. Len(national) = 9 /\ SubSeq(national, 1, 2) \in MobilePrefixes
  BY <1>11, <1>13, <1>14
<1>16. /\ 12 \in Nat /\ 10 \in Nat /\ 9 \in Nat /\ 3 \in 1..12 /\ 3 \in 1..10 /\ 3 \in 1..9
       /\ 1 \in 1..12 /\ 1 \in 1..10 /\ 1 \in 1..9 /\ 1 \in 1..1 /\ 1 \in 1..3
  OBVIOUS
<1>17. NormaliseUaeMobile(stored) = stored
  <2>1. IsPrefix(country, stored)
    <3>1. \A i \in 1..3 : country[i] = stored[i]
      <4>1. \A i \in 1..3 : i = 1 \/ i = 2 \/ i = 3
        OBVIOUS
      <4>. QED BY <1>7, <1>10, <4>1
    <3>2. country \in Digits(3)
      BY <1>10
    <3>. QED BY <1>6, <1>16, <3>1, <3>2, Starts
  <2>2. ~IsPrefix(zero, stored)
    <3>1. IsPrefix(zero, stored) <=> \A i \in 1..1 : zero[i] = stored[i]
      <4>1. zero \in Digits(1)
        BY <1>10
      <4>. QED BY <1>6, <1>16, <4>1, Starts
    <3>. QED BY <1>7, <1>10, <1>16, <3>1
  <2>3. SubSeq(stored, 4, Len(stored)) = national
    BY <1>11 DEF national
  <2>. QED BY <1>12, <1>15, <2>1, <2>2, <2>3 DEF NormaliseUaeMobile, country, zero
<1>18. NormaliseUaeMobile(national) = stored
  <2>0. national \in Digits(9)
    BY <1>8
  <2>1. ~IsPrefix(country, national)
    <3>1. IsPrefix(country, national) <=> \A i \in 1..3 : country[i] = national[i]
      <4>1. country \in Digits(3)
        BY <1>10
      <4>. QED BY <2>0, <1>16, <4>1, Starts
    <3>. QED BY <1>9, <1>10, <1>16, <3>1
  <2>2. ~IsPrefix(zero, national)
    <3>1. IsPrefix(zero, national) <=> \A i \in 1..1 : zero[i] = national[i]
      <4>1. zero \in Digits(1)
        BY <1>10
      <4>. QED BY <2>0, <1>16, <4>1, Starts
    <3>. QED BY <1>9, <1>10, <1>16, <3>1
  <2>. QED BY <1>12, <1>15, <2>1, <2>2 DEF NormaliseUaeMobile, country, zero
<1>19. NormaliseUaeMobile(local) = stored
  <2>1. local \in Digits(10) /\ local[1] = 0 /\ \A i \in 1..9 : local[1 + i] = national[i]
    <3>1. 1 \in Nat /\ 9 \in Nat /\ 1 + 9 = 10 /\ 1 \in 1..1
      OBVIOUS
    <3>2. zero \in Digits(1) /\ national \in Digits(9)
      BY <1>8, <1>10
    <3>3. zero \o national \in Digits(1 + 9)
      BY <3>1, <3>2, Joined
    <3>4. \A i \in 1..1 : (zero \o national)[i] = zero[i]
      BY ZenonT(60), <3>1, <3>2, Joined
    <3>5. \A i \in 1..9 : (zero \o national)[1 + i] = national[i]
      BY <3>1, <3>2, Joined
    <3>6. local = zero \o national
      BY DEF zero
    <3>. HIDE DEF local
    <3>. QED BY <1>10, <3>1, <3>3, <3>4, <3>5, <3>6
  <2>2. NormaliseUaeMobile(local) =
          LET rest == CASE IsPrefix(country, local) -> SubSeq(local, 4, Len(local))
                        [] IsPrefix(zero, local) -> Tail(local)
                        [] OTHER -> local
          IN IF Len(rest) = 9 /\ SubSeq(rest, 1, 2) \in MobilePrefixes THEN country \o rest ELSE NotAMobile
    BY DEF NormaliseUaeMobile, country, zero
  <2>. HIDE DEF local
  <2>3. local \in Digits(10)
    BY <2>1
  <2>4. ~IsPrefix(country, local)
    <3>1. IsPrefix(country, local) <=> \A i \in 1..3 : country[i] = local[i]
      <4>1. country \in Digits(3)
        BY <1>10
      <4>. QED BY <2>3, <1>16, <4>1, Starts
    <3>. QED BY <2>1, <1>10, <1>16, <3>1
  <2>5. IsPrefix(zero, local)
    <3>1. IsPrefix(zero, local) <=> \A i \in 1..1 : zero[i] = local[i]
      <4>1. zero \in Digits(1)
        BY <1>10
      <4>. QED BY <2>3, <1>16, <4>1, Starts
    <3>2. \A i \in 1..1 : i = 1
      OBVIOUS
    <3>. QED BY <2>1, <1>10, <3>1, <3>2
  <2>6. Len(local) = 10 /\ local \in Seq(Digit)
    BY <1>16, <2>3, DigitsAre
  <2>7. local # <<>>
    <3>1. Len(<<>>) = 0
      OBVIOUS
    <3>2. Len(local) # Len(<<>>)
      BY <2>6, <3>1
    <3>. QED BY <3>2
  <2>8. Tail(local) \in Seq(Digit) /\ Len(Tail(local)) = 9 /\ \A i \in 1..9 : Tail(local)[i] = local[i + 1]
    <3>1. /\ Tail(local) \in Seq(Digit) /\ Len(Tail(local)) = Len(local) - 1
          /\ \A i \in 1..Len(Tail(local)) : Tail(local)[i] = local[i + 1]
      BY <2>6, <2>7, HeadTailProperties
    <3>. QED BY SMTT(60), <2>6, <3>1
  <2>9. Tail(local) = national
    <3>1. \A i \in 1..9 : Tail(local)[i] = national[i]
      <4>1. \A i \in 1..9 : i + 1 = 1 + i
        OBVIOUS
      <4>. QED BY <2>1, <2>8, <4>1
    <3>2. Tail(local) \in Digits(9) /\ national \in Digits(9)
      BY <1>8, <1>16, <2>8, DigitsAre
    <3>. QED BY <1>16, <3>1, <3>2, SameDigits
  <2>. QED BY <1>12, <1>15, <2>2, <2>4, <2>5, <2>9
<1>20. MobileIsOne(index) <=>
         \A typed \in {stored, national, local} : NormaliseUaeMobile(typed) = stored
  BY DEF MobileIsOne, local, national, stored
<1>. QED BY <1>17, <1>18, <1>19, <1>20
=============================================================================
