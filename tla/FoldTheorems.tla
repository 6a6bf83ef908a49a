---------------------------- MODULE FoldTheorems ----------------------------
(***************************************************************************)
(* Facts about the folds of the community modules over finite sets, for    *)
(* the proofs about the models that sum a function or collect a sequence.  *)
(*                                                                         *)
(* A fold is a function on the subsets of a set, defined by taking one     *)
(* element away at a time. Instead of an induction over a predicate, each  *)
(* proof takes a smallest subset for which the claim fails.                *)
(***************************************************************************)
EXTENDS FiniteSetTheorems, Functions, TLAPS

(* Of the subsets of a finite set that fail, one has no other inside it.   *)
LEMMA MinimalSubset ==
  ASSUME NEW S, IsFiniteSet(S), NEW T, T \subseteq SUBSET S, T # {}
  PROVE  \E m \in T : \A t \in T : t \subseteq m => t = m
<1>1. IsWellFoundedOn(StrictSubsetOrdering(S), SUBSET S)
  BY FS_StrictSubsetOrderingWellFounded, FS_FiniteSubsetsOfFinite
<1>2. PICK m \in T : \A t \in T : ~ (<<t, m>> \in StrictSubsetOrdering(S))
  BY <1>1, WFMin
<1>3. \A t \in T : t \subseteq m => t = m
  BY <1>2 DEF StrictSubsetOrdering
<1> QED
  BY <1>3

-----------------------------------------------------------------------------
(* Recursion over the subsets of a finite set                              *)

NonEmpty(S) == (SUBSET S) \ {{}}
(* pick says which element is taken away. *)
Picks(pick, S) == \A s \in NonEmpty(S) : pick[s] \in s

Value(it, s, base, pick, step) == IF s = {} THEN base ELSE step[s][it[s \ {pick[s]}]]

(* `it' is defined on the subsets of t as the recursion says.              *)
Recurses(it, t, base, pick, step) == \A s \in SUBSET t : it[s] = Value(it, s, base, pick, step)

(* Two functions that are so defined agree where both are.                 *)
LEMMA RecursionUnique ==
  ASSUME NEW S, NEW base, NEW pick, NEW step, NEW t, NEW u, NEW it, NEW other,
         IsFiniteSet(S), Picks(pick, S), t \subseteq S, u \subseteq S,
         Recurses(it, t, base, pick, step), Recurses(other, u, base, pick, step)
  PROVE  \A s \in SUBSET S : s \subseteq t /\ s \subseteq u => it[s] = other[s]
<1> DEFINE Differ == {s \in SUBSET S : s \subseteq t /\ s \subseteq u /\ it[s] # other[s]}
<1>1. SUFFICES ASSUME Differ # {} PROVE FALSE
  OBVIOUS
<1>2. PICK m \in Differ : \A s \in Differ : s \subseteq m => s = m
  <2>1. Differ \subseteq SUBSET S
    OBVIOUS
  <2> HIDE DEF Differ
  <2> QED
    BY <1>1, <2>1, MinimalSubset
<1>3. it[m] = Value(it, m, base, pick, step) /\ other[m] = Value(other, m, base, pick, step)
  BY DEF Recurses
<1>4. m # {}
  BY <1>3 DEF Value
<1> DEFINE r == m \ {pick[m]}
<1>5. r \in SUBSET S /\ r \subseteq m /\ r # m
  BY <1>4 DEF Picks, NonEmpty
<1>6. r \notin Differ
  BY <1>2, <1>5
<1>7. it[r] = other[r]
  BY <1>5, <1>6
<1> QED
  BY <1>3, <1>4, <1>7 DEF Value

(* A definition by recursion over the subsets of a finite set, taking one  *)
(* element away at a time, defines a function.                             *)
LEMMA RecursionExists ==
  ASSUME NEW S, IsFiniteSet(S), NEW R, NEW base \in R, NEW pick, Picks(pick, S),
         NEW step \in [NonEmpty(S) -> [R -> R]]
  PROVE  \E it \in [SUBSET S -> R] : Recurses(it, S, base, pick, step)
<1> DEFINE Defined(t) == \E it \in [SUBSET t -> R] : Recurses(it, t, base, pick, step)
           Undefined == {t \in SUBSET S : ~Defined(t)}
<1> SUFFICES ASSUME Undefined # {} PROVE FALSE
  OBVIOUS
<1>1. PICK m \in Undefined : \A t \in Undefined : t \subseteq m => t = m
  <2>1. Undefined \subseteq SUBSET S
    OBVIOUS
  <2> HIDE DEF Undefined
  <2> QED
    BY <2>1, MinimalSubset
<1> DEFINE upTo[t \in SUBSET m] == CHOOSE it \in [SUBSET t -> R] : Recurses(it, t, base, pick, step)
<1>2. ASSUME NEW t \in SUBSET m, t # m
      PROVE  upTo[t] \in [SUBSET t -> R] /\ Recurses(upTo[t], t, base, pick, step)
  <2>1. Defined(t)
    BY <1>1, <1>2
  <2> QED
    BY <2>1
<1> HIDE DEF upTo
<1> DEFINE r == m \ {pick[m]}
           last == IF m = {} THEN base ELSE step[m][upTo[r][r]]
           it == [s \in SUBSET m |-> IF s = m THEN last ELSE upTo[s][s]]
<1>3. m # {} => r \in SUBSET m /\ r # m
  BY DEF Picks, NonEmpty
<1>4. last \in R
  <2>1. CASE m # {}
    <3>1. upTo[r][r] \in R
      <4>1. r \in SUBSET m /\ upTo[r] \in [SUBSET r -> R]
        BY <1>2, <1>3, <2>1
      <4> HIDE DEF r
      <4> QED
        BY <4>1
    <3>2. step[m] \in [R -> R]
      BY <2>1 DEF NonEmpty
    <3> QED
      BY <2>1, <3>1, <3>2
  <2> QED
    BY <2>1
<1>5. it \in [SUBSET m -> R]
  BY <1>2, <1>4
<1>6. it[m] = Value(it, m, base, pick, step)
  BY <1>3 DEF Value
<1>7. ASSUME NEW s \in SUBSET m, s # m
      PROVE  it[s] = Value(it, s, base, pick, step)
  <2>1. it[s] = Value(upTo[s], s, base, pick, step)
    BY <1>2, <1>7 DEF Recurses
  <2>2. CASE s = {}
    BY <2>1, <2>2 DEF Value
  <2>3. CASE s # {}
    <3> DEFINE rest == s \ {pick[s]}
    <3>1. rest \in SUBSET s /\ rest \in SUBSET m /\ rest # m /\ rest \in SUBSET S /\ s \in SUBSET S
      BY <1>7
    <3>2. upTo[s][rest] = upTo[rest][rest]
      <4>1. Recurses(upTo[s], s, base, pick, step) /\ Recurses(upTo[rest], rest, base, pick, step)
        BY <1>2, <1>7, <3>1
      <4> HIDE DEF rest
      <4>2. s \subseteq S /\ rest \subseteq S /\ rest \in SUBSET S /\ rest \subseteq s
        BY <3>1
      <4> QED
        BY <4>1, <4>2, RecursionUnique
    <3>3. it[rest] = upTo[rest][rest]
      BY <3>1
    <3> QED
      BY <2>1, <2>3, <3>2, <3>3 DEF Value
  <2> QED
    BY <2>2, <2>3
<1>8. Recurses(it, m, base, pick, step)
  BY <1>6, <1>7 DEF Recurses
<1>9. Defined(m)
  BY <1>5, <1>8
<1> QED
  BY <1>9

-----------------------------------------------------------------------------
(* Sums                                                                    *)

Some(s) == CHOOSE x \in s : TRUE

SumStep(it, s, fun) == IF s = {} THEN 0 ELSE fun[Some(s)] + it[s \ {Some(s)}]

SumIter(fun) == CHOOSE it : it = [s \in SUBSET DOMAIN fun |-> SumStep(it, s, fun)]

Sum(fun) == FoldFunction(+, 0, fun)

(* The fold is the function that its definition chooses.                   *)
LEMMA SumIs ==
  ASSUME NEW fun
  PROVE  Sum(fun) = SumIter(fun)[DOMAIN fun]
BY Zenon DEF Sum, FoldFunction, FoldFunctionOnSet, MapThenFoldSet, SumIter, SumStep, Some

(* There is such a function, of integers.                                  *)
LEMMA SumDefined ==
  ASSUME NEW D, IsFiniteSet(D), NEW fun \in [D -> Int]
  PROVE  /\ SumIter(fun) \in [SUBSET D -> Int]
         /\ \A s \in SUBSET D : SumIter(fun)[s] = SumStep(SumIter(fun), s, fun)
<1> DEFINE pick == [s \in NonEmpty(D) |-> Some(s)]
           step == [s \in NonEmpty(D) |-> [n \in Int |-> fun[Some(s)] + n]]
<1>1. \A s \in NonEmpty(D) : Some(s) \in s /\ pick[s] = Some(s)
  BY DEF NonEmpty, Some
<1>2. Picks(pick, D)
  BY <1>1 DEF Picks
<1>3. step \in [NonEmpty(D) -> [Int -> Int]]
  <2> SUFFICES ASSUME NEW s \in NonEmpty(D)
               PROVE  [n \in Int |-> fun[Some(s)] + n] \in [Int -> Int]
    OBVIOUS
  <2>1. Some(s) \in D
    BY <1>1 DEF NonEmpty
  <2>2. fun[Some(s)] \in Int
    BY <2>1
  <2> QED
    BY <2>2
<1>4. PICK it \in [SUBSET D -> Int] : Recurses(it, D, 0, pick, step)
  <2> HIDE DEF pick, step
  <2>1. 0 \in Int
    OBVIOUS
  <2> QED
    BY <1>2, <1>3, <2>1, RecursionExists
<1>5. ASSUME NEW s \in SUBSET D
      PROVE  it[s] = SumStep(it, s, fun)
  <2>1. it[s] = Value(it, s, 0, pick, step)
    BY <1>4 DEF Recurses
  <2>2. CASE s = {}
    BY <2>1, <2>2 DEF Value, SumStep
  <2>3. CASE s # {}
    <3>1. s \in NonEmpty(D) /\ s \ {Some(s)} \in SUBSET D
      BY <2>3 DEF NonEmpty
    <3>2. it[s \ {Some(s)}] \in Int
      BY <3>1
    <3>3. it[s] = step[s][it[s \ {Some(s)}]]
      BY <1>1, <2>1, <2>3, <3>1 DEF Value
    <3>4. step[s][it[s \ {Some(s)}]] = fun[Some(s)] + it[s \ {Some(s)}]
      BY <3>1, <3>2
    <3> QED
      BY <2>3, <3>3, <3>4 DEF SumStep
  <2> QED
    BY <2>2, <2>3
<1>6. it = [s \in SUBSET DOMAIN fun |-> SumStep(it, s, fun)]
  BY <1>5
<1>7. SumIter(fun) = [s \in SUBSET DOMAIN fun |-> SumStep(SumIter(fun), s, fun)]
  BY <1>6, Zenon DEF SumIter
<1> HIDE DEF pick, step
<1>8. \A s \in SUBSET D : SumIter(fun)[s] = SumStep(SumIter(fun), s, fun)
  BY <1>7
<1>9. \A s \in SUBSET D : SumIter(fun)[s] = it[s]
  <2>1. \A s \in SUBSET D : it[s] = SumStep(it, s, fun)
    BY <1>5
  <2> DEFINE Differ == {s \in SUBSET D : SumIter(fun)[s] # it[s]}
  <2>2. SUFFICES ASSUME Differ # {} PROVE FALSE
    OBVIOUS
  <2>3. PICK m \in Differ : \A s \in Differ : s \subseteq m => s = m
    <3>1. Differ \subseteq SUBSET D
      OBVIOUS
    <3> HIDE DEF Differ
    <3> QED
      BY <2>2, <3>1, MinimalSubset
  <2>4. m # {}
    BY <1>8, <2>1 DEF SumStep
  <2> DEFINE r == m \ {Some(m)}
  <2>5. r \in SUBSET D /\ r \subseteq m /\ r # m
    BY <1>1, <2>4 DEF NonEmpty
  <2>6. SumIter(fun)[r] = it[r]
    BY <2>3, <2>5
  <2> QED
    BY <1>8, <2>1, <2>4, <2>6 DEF SumStep
<1> QED
  BY <1>7, <1>8, <1>9

(* A sum is the same whichever element is taken first.                     *)
LEMMA SumTakesAny ==
  ASSUME NEW D, IsFiniteSet(D), NEW fun \in [D -> Int], NEW s \in SUBSET D, NEW x \in s
  PROVE  SumIter(fun)[s] = fun[x] + SumIter(fun)[s \ {x}]
<1> DEFINE sum == SumIter(fun)
           Fails == {t \in SUBSET D : \E y \in t : sum[t] # fun[y] + sum[t \ {y}]}
<1> SUFFICES ASSUME Fails # {} PROVE FALSE
  OBVIOUS
<1>1. PICK m \in Fails : \A t \in Fails : t \subseteq m => t = m
  <2>1. Fails \subseteq SUBSET D
    OBVIOUS
  <2> HIDE DEF Fails
  <2> QED
    BY <2>1, MinimalSubset
<1>2. PICK y \in m : sum[m] # fun[y] + sum[m \ {y}]
  OBVIOUS
<1>3. sum \in [SUBSET D -> Int] /\ \A t \in SUBSET D : t # {} => sum[t] = fun[Some(t)] + sum[t \ {Some(t)}]
  <2>1. sum \in [SUBSET D -> Int] /\ \A t \in SUBSET D : sum[t] = SumStep(sum, t, fun)
    BY SumDefined
  <2> HIDE DEF sum
  <2> QED
    BY <2>1 DEF SumStep
<1> HIDE DEF sum
<1> DEFINE z == Some(m)
<1>4. z \in m
  BY DEF Some
<1> HIDE DEF z
<1>5. m \in SUBSET D
  OBVIOUS
<1>6. sum[m] = fun[z] + sum[m \ {z}] /\ y # z
  BY <1>2, <1>3, <1>5 DEF z
<1>7. \A t \in SUBSET D : \A w \in t : t \subseteq m /\ t # m => sum[t] = fun[w] + sum[t \ {w}]
  BY <1>1
<1> DEFINE both == m \ {y, z}
<1>8. (m \ {z}) \ {y} = both /\ (m \ {y}) \ {z} = both
  OBVIOUS
<1>9. sum[m \ {z}] = fun[y] + sum[both] /\ sum[m \ {y}] = fun[z] + sum[both]
  BY <1>2, <1>4, <1>5, <1>6, <1>7, <1>8
<1>10. fun[y] \in Int /\ fun[z] \in Int /\ sum[both] \in Int
  BY <1>2, <1>3, <1>4, <1>5
<1> QED
  BY <1>2, <1>6, <1>9, <1>10

(* A sum over a set depends on the values there only.                      *)
LEMMA SumOfSame ==
  ASSUME NEW D, IsFiniteSet(D), NEW fun \in [D -> Int], NEW other \in [D -> Int], NEW s \in SUBSET D,
         \A x \in s : fun[x] = other[x]
  PROVE  SumIter(fun)[s] = SumIter(other)[s]
<1> DEFINE Differ == {t \in SUBSET D : t \subseteq s /\ SumIter(fun)[t] # SumIter(other)[t]}
<1> SUFFICES ASSUME Differ # {} PROVE FALSE
  OBVIOUS
<1>1. PICK m \in Differ : \A t \in Differ : t \subseteq m => t = m
  <2>1. Differ \subseteq SUBSET D
    OBVIOUS
  <2> HIDE DEF Differ
  <2> QED
    BY <2>1, MinimalSubset
<1>2. SumIter(fun)[m] = SumStep(SumIter(fun), m, fun) /\ SumIter(other)[m] = SumStep(SumIter(other), m, other)
  BY SumDefined
<1>3. m # {}
  BY <1>2 DEF SumStep
<1> DEFINE z == Some(m)
<1>4. z \in m
  BY <1>3 DEF Some
<1>5. SumIter(fun)[m \ {z}] = SumIter(other)[m \ {z}]
  BY <1>1, <1>4
<1> QED
  BY <1>2, <1>3, <1>4, <1>5 DEF SumStep

(* Changing a value changes the sum by as much.                            *)
LEMMA SumChanges ==
  ASSUME NEW D, IsFiniteSet(D), NEW fun \in [D -> Int], NEW x \in D, NEW v \in Int
  PROVE  Sum([fun EXCEPT ![x] = v]) = Sum(fun) + v - fun[x]
<1> DEFINE new == [fun EXCEPT ![x] = v]
<1>1. new \in [D -> Int] /\ new[x] = v /\ \A y \in D \ {x} : new[y] = fun[y]
  OBVIOUS
<1> HIDE DEF new
<1>2. SumIter(fun)[D] = fun[x] + SumIter(fun)[D \ {x}]
  BY SumTakesAny
<1>3. SumIter(new)[D] = v + SumIter(new)[D \ {x}]
  BY <1>1, SumTakesAny
<1>4. SumIter(new)[D \ {x}] = SumIter(fun)[D \ {x}]
  BY <1>1, SumOfSame
<1>5. SumIter(fun)[D \ {x}] \in Int /\ fun[x] \in Int
  <2>1. SumIter(fun) \in [SUBSET D -> Int]
    BY SumDefined
  <2> QED
    BY <2>1
<1>6. DOMAIN new = D /\ DOMAIN fun = D
  BY <1>1
<1>7. Sum(new) = SumIter(new)[D] /\ Sum(fun) = SumIter(fun)[D]
  BY <1>6, SumIs
<1> QED
  BY <1>2, <1>3, <1>4, <1>5, <1>7 DEF new

LEMMA SumType ==
  ASSUME NEW D, IsFiniteSet(D), NEW fun \in [D -> Int]
  PROVE  Sum(fun) \in Int
<1>1. SumIter(fun) \in [SUBSET D -> Int]
  BY SumDefined
<1> QED
  BY <1>1, SumIs

LEMMA SumOfZeros ==
  ASSUME NEW D, IsFiniteSet(D)
  PROVE  Sum([x \in D |-> 0]) = 0
<1> DEFINE zero == [x \in D |-> 0]
           Fails == {s \in SUBSET D : SumIter(zero)[s] # 0}
<1>1. zero \in [D -> Int] /\ DOMAIN zero = D /\ \A x \in D : zero[x] = 0
  OBVIOUS
<1> HIDE DEF zero
<1>2. ASSUME Fails # {} PROVE FALSE
  <2>1. PICK m \in Fails : \A t \in Fails : t \subseteq m => t = m
    <3>1. Fails \subseteq SUBSET D
      OBVIOUS
    <3> HIDE DEF Fails
    <3> QED
      BY <1>2, <3>1, MinimalSubset
  <2>2. SumIter(zero)[m] = SumStep(SumIter(zero), m, zero)
    BY <1>1, SumDefined
  <2>3. m # {}
    BY <2>2 DEF SumStep
  <2> DEFINE z == Some(m)
  <2>4. z \in m
    BY <2>3 DEF Some
  <2>5. SumIter(zero)[m \ {z}] = 0 /\ zero[z] = 0
    BY <1>1, <2>1, <2>4
  <2> QED
    BY <2>2, <2>3, <2>5 DEF SumStep
<1>3. SumIter(zero)[D] = 0
  BY <1>2
<1> QED
  BY <1>1, <1>3, SumIs DEF zero
=============================================================================
