-------------------------- MODULE ArithmeticLemmas --------------------------
(***************************************************************************)
(* The arithmetic the proofs share.  Induction over numbers, from the well- *)
(* foundedness of their order; sums over finite sets; the operations of     *)
(* Saturating.tla, for every width; and Duration::to_ticks of Units.tla.    *)
(***************************************************************************)
EXTENDS Units, Functions, FiniteSetTheorems, TLAPS

-----------------------------------------------------------------------------
(* Induction.                                                               *)

\* The order of the numbers, as a relation.
Less == {p \in Nat \X Nat : p[1] < p[2]}

\* Every set of numbers has a least one.
LEMMA Least ==
  ASSUME NEW T \in SUBSET Nat, T # {}
  PROVE  \E m \in T : \A n \in T : m <= n
<1>1. Less \cap (Nat \X Nat) \subseteq OpToRel(<, Nat)
  BY DEF Less, OpToRel
<1>2. IsWellFoundedOn(Less, Nat)
  BY <1>1, NatLessThanWellFounded, IsWellFoundedOnSubrelation
<1>3. PICK m \in T : \A n \in T : <<n, m>> \notin Less
  BY <1>2, WFMin
<1>4. ASSUME NEW n \in T PROVE m <= n
  <2>1. <<n, m>> \in Nat \X Nat /\ <<n, m>> \notin Less
    BY <1>3
  <2> QED
    BY <2>1 DEF Less
<1> QED
  BY <1>4

\* A set of numbers with 0 and the successor of each of its members is Nat.
LEMMA Induction ==
  ASSUME NEW T \in SUBSET Nat, 0 \in T, \A n \in T : n + 1 \in T
  PROVE  T = Nat
<1> SUFFICES ASSUME Nat \ T # {} PROVE FALSE
  OBVIOUS
<1>1. PICK m \in Nat \ T : \A n \in Nat \ T : m <= n
  BY Least
<1>2. m - 1 \in T
  BY <1>1
<1> QED
  BY <1>1, <1>2

-----------------------------------------------------------------------------
(* Sums over a finite set: SumFunctionOnSet of Functions.tla, from its       *)
(* definition by a recursive function.                                      *)

\* The element SumFunctionOnSet takes out of a set first.
Pick(s) == CHOOSE x \in s : TRUE

\* `it` satisfies the recursive equation of the sum at s.
Unfolds(it, f, s) == it[s] = IF s = {} THEN 0 ELSE f[Pick(s)] + it[s \ {Pick(s)}]

\* The solution of that equation on all subsets of S.
IsFold(it, f, S) == it = [s \in SUBSET S |-> IF s = {} THEN 0 ELSE f[Pick(s)] + it[s \ {Pick(s)}]]

\* Without its chosen element a finite set is smaller.
LEMMA Smaller ==
  ASSUME NEW S, IsFiniteSet(S), NEW s \in SUBSET S
  PROVE  /\ IsFiniteSet(s) /\ Cardinality(s) \in Nat
         /\ s # {} => /\ Pick(s) \in s /\ s \ {Pick(s)} \in SUBSET S
                      /\ Cardinality(s) >= 1 /\ Cardinality(s \ {Pick(s)}) = Cardinality(s) - 1
<1>1. IsFiniteSet(s) /\ Cardinality(s) \in Nat
  BY FS_Subset, FS_CardinalityType
<1>2. ASSUME s # {} PROVE Pick(s) \in s
  BY <1>2 DEF Pick
<1>3. ASSUME s # {} PROVE Cardinality(s) # 0
  BY <1>1, <1>3, FS_EmptySet
<1>4. Pick(s) \in s => Cardinality(s \ {Pick(s)}) = Cardinality(s) - 1
  BY <1>1, FS_RemoveElement
<1> QED
  BY <1>1, <1>2, <1>3, <1>4

\* The recursion that defines the sum has a solution on the subsets of a finite
\* set, built up by their size ...
LEMMA FoldExists ==
  ASSUME NEW S, IsFiniteSet(S), NEW f
  PROVE  \E it : IsFold(it, f, S)
<1> DEFINE Upto(n) == {s \in SUBSET S : Cardinality(s) <= n}
           N == {n \in Nat : \E it : \A s \in Upto(n) : Unfolds(it, f, s)}
<1>1. 0 \in N
  <2> DEFINE it == [s \in SUBSET S |-> 0]
  <2>1. ASSUME NEW s \in Upto(0) PROVE Unfolds(it, f, s)
    <3>1. /\ s \in SUBSET S /\ Cardinality(s) <= 0
          /\ s # {} => Cardinality(s) >= 1 /\ Cardinality(s) \in Nat
      BY Smaller
    <3>2. s = {} /\ it[s] = 0
      BY <3>1
    <3> QED
      BY <3>2 DEF Unfolds
  <2> QED
    BY <2>1
<1>2. ASSUME NEW n \in N PROVE n + 1 \in N
  <2>1. PICK it : \A s \in Upto(n) : Unfolds(it, f, s)
    OBVIOUS
  <2> DEFINE more == [s \in SUBSET S |-> IF Cardinality(s) <= n THEN it[s]
                                         ELSE f[Pick(s)] + it[s \ {Pick(s)}]]
  <2>2. ASSUME NEW s \in Upto(n + 1) PROVE Unfolds(more, f, s)
    <3>1. CASE s = {}
      <4>1. s \in Upto(n)
        BY <3>1, FS_EmptySet
      <4> QED
        BY <2>1, <3>1, <4>1 DEF Unfolds
    <3>2. CASE s # {}
      <4>1. /\ s \ {Pick(s)} \in SUBSET S /\ Cardinality(s) \in Nat
            /\ Cardinality(s \ {Pick(s)}) = Cardinality(s) - 1
        BY <3>2, Smaller
      <4>2. more[s \ {Pick(s)}] = it[s \ {Pick(s)}]
        BY <4>1
      <4>3. Cardinality(s) <= n => it[s] = f[Pick(s)] + it[s \ {Pick(s)}]
        BY <2>1, <3>2 DEF Unfolds
      <4>4. more[s] = f[Pick(s)] + it[s \ {Pick(s)}]
        BY <4>3
      <4> HIDE DEF more
      <4> QED
        BY <3>2, <4>2, <4>4 DEF Unfolds
    <3> QED
      BY <3>1, <3>2
  <2> HIDE DEF more
  <2> QED
    BY <2>2
<1>3. N = Nat
  <2> HIDE DEF N
  <2>1. N \in SUBSET Nat
    BY DEF N
  <2> QED
    BY <1>1, <1>2, <2>1, Induction
<1>4. Cardinality(S) \in Nat /\ \A s \in SUBSET S : s \in Upto(Cardinality(S))
  BY FS_CardinalityType, FS_Subset
<1>5. PICK it : \A s \in SUBSET S : Unfolds(it, f, s)
  <2>1. Cardinality(S) \in N
    BY <1>3, <1>4
  <2> QED
    BY <1>4, <2>1
<1> DEFINE fold == [s \in SUBSET S |-> it[s]]
<1>6. ASSUME NEW s \in SUBSET S
      PROVE  fold[s] = IF s = {} THEN 0 ELSE f[Pick(s)] + fold[s \ {Pick(s)}]
  <2>1. s \ {Pick(s)} \in SUBSET S
    OBVIOUS
  <2>2. fold[s] = it[s] /\ fold[s \ {Pick(s)}] = it[s \ {Pick(s)}]
    BY <2>1
  <2> HIDE DEF fold
  <2> QED
    BY <1>5, <2>2 DEF Unfolds
<1>7. IsFold(fold, f, S)
  <2>1. fold = [s \in SUBSET S |-> fold[s]]
    OBVIOUS
  <2> HIDE DEF fold
  <2> QED
    BY <1>6, <2>1 DEF IsFold
<1> QED
  BY <1>7

\* ... and only one.
LEMMA FoldUnique ==
  ASSUME NEW S, IsFiniteSet(S), NEW T \in SUBSET S, NEW f, NEW a, NEW b,
         IsFold(a, f, S), IsFold(b, f, T)
  PROVE  a[T] = b[T]
<1> DEFINE N == {n \in Nat : \A s \in SUBSET T : Cardinality(s) = n => a[s] = b[s]}
<1>0. \A s \in SUBSET T : /\ a[s] = IF s = {} THEN 0 ELSE f[Pick(s)] + a[s \ {Pick(s)}]
                          /\ b[s] = IF s = {} THEN 0 ELSE f[Pick(s)] + b[s \ {Pick(s)}]
  BY DEF IsFold
<1>1. 0 \in N
  <2>1. ASSUME NEW s \in SUBSET T, Cardinality(s) = 0 PROVE a[s] = b[s]
    <3>1. s # {} => Cardinality(s) >= 1
      BY Smaller
    <3> QED
      BY <1>0, <2>1, <3>1
  <2> QED
    BY <2>1
<1>2. ASSUME NEW n \in N PROVE n + 1 \in N
  <2> SUFFICES ASSUME NEW s \in SUBSET T, Cardinality(s) = n + 1 PROVE a[s] = b[s]
    OBVIOUS
  <2>1. IsFiniteSet(T)
    BY FS_Subset
  <2>2. s # {} /\ s \ {Pick(s)} \in SUBSET T /\ Cardinality(s \ {Pick(s)}) = n
    <3>0. n \in Nat
      OBVIOUS
    <3>1. s # {}
      <4>1. s = {} => Cardinality(s) = 0
        BY FS_EmptySet
      <4> QED
        BY <3>0, <4>1
    <3>2. s \ {Pick(s)} \in SUBSET T /\ Cardinality(s \ {Pick(s)}) = Cardinality(s) - 1
      BY <2>1, <3>1, Smaller
    <3> QED
      BY <3>1, <3>2
  <2>3. a[s \ {Pick(s)}] = b[s \ {Pick(s)}]
    BY <1>2, <2>2
  <2> QED
    BY <1>0, <2>2, <2>3
<1>3. N = Nat
  <2> HIDE DEF N
  <2>1. N \in SUBSET Nat
    BY DEF N
  <2> QED
    BY <1>1, <1>2, <2>1, Induction
<1>4. Cardinality(T) \in Nat
  BY FS_Subset, FS_CardinalityType
<1> QED
  BY <1>3, <1>4

\* SumFunctionOnSet is that solution.
LEMMA SumIsFold ==
  ASSUME NEW S, IsFiniteSet(S), NEW f
  PROVE  \E it : IsFold(it, f, S) /\ SumFunctionOnSet(f, S) = it[S]
<1> DEFINE it == CHOOSE g : IsFold(g, f, S)
<1>1. IsFold(it, f, S)
  BY FoldExists
<1>2. SumFunctionOnSet(f, S) = it[S]
  BY DEF SumFunctionOnSet, FoldFunctionOnSet, MapThenFoldSet, IsFold, Pick
<1> QED
  BY <1>1, <1>2

\* One turn of the recursion: the chosen element, and the rest.
LEMMA SumStep ==
  ASSUME NEW S, IsFiniteSet(S), NEW f
  PROVE  SumFunctionOnSet(f, S) =
           IF S = {} THEN 0 ELSE f[Pick(S)] + SumFunctionOnSet(f, S \ {Pick(S)})
<1>1. PICK a : IsFold(a, f, S) /\ SumFunctionOnSet(f, S) = a[S]
  BY SumIsFold
<1>2. a[S] = IF S = {} THEN 0 ELSE f[Pick(S)] + a[S \ {Pick(S)}]
  <2>1. S \in SUBSET S
    OBVIOUS
  <2> QED
    BY <1>1, <2>1 DEF IsFold
<1>3. PICK T \in SUBSET S : T = S \ {Pick(S)}
  OBVIOUS
<1>4. IsFiniteSet(T)
  BY FS_Subset
<1>5. PICK b : IsFold(b, f, T) /\ SumFunctionOnSet(f, T) = b[T]
  BY <1>4, SumIsFold
<1>6. a[T] = b[T]
  BY <1>1, <1>5, FoldUnique
<1> QED
  BY <1>1, <1>2, <1>3, <1>5, <1>6

\* Nothing sums to 0.
LEMMA SumEmpty ==
  ASSUME NEW f
  PROVE  SumFunctionOnSet(f, {}) = 0
BY SumStep, FS_EmptySet

\* Induction over the subsets of a finite set.
LEMMA SetInduction ==
  ASSUME NEW S, IsFiniteSet(S), NEW G, {} \in G,
         \A T \in SUBSET S : \A x \in S \ T : T \in G => T \cup {x} \in G
  PROVE  S \in G
<1> DEFINE N == {n \in Nat : \A T \in SUBSET S : Cardinality(T) = n => T \in G}
<1>0. ASSUME NEW T \in SUBSET S PROVE IsFiniteSet(T) /\ Cardinality(T) \in Nat
  BY FS_Subset, FS_CardinalityType
<1>1. 0 \in N
  BY <1>0, FS_EmptySet
<1>2. ASSUME NEW n \in N PROVE n + 1 \in N
  <2>0. n \in Nat
    OBVIOUS
  <2> SUFFICES ASSUME NEW T \in SUBSET S, Cardinality(T) = n + 1 PROVE T \in G
    BY <2>0
  <2>1. PICK x \in T : TRUE
    BY <1>0, <2>0, FS_EmptySet
  <2>2. Cardinality(T \ {x}) = Cardinality(T) - 1
    BY <1>0, FS_RemoveElement
  <2>3. T \ {x} \in G
    BY <1>2, <2>0, <2>2
  <2>4. T = (T \ {x}) \cup {x} /\ x \in S \ (T \ {x}) /\ T \ {x} \in SUBSET S
    BY <2>1
  <2> HIDE DEF N
  <2>5. (T \ {x}) \cup {x} \in G
    BY <2>3, <2>4
  <2> QED
    BY <2>4, <2>5
<1>3. N = Nat
  <2> HIDE DEF N
  <2>1. N \in SUBSET Nat
    BY DEF N
  <2> QED
    BY <1>1, <1>2, <2>1, Induction
<1>4. Cardinality(S) \in N
  BY <1>0, <1>3
<1> QED
  BY <1>4

\* A sum of numbers is a number.
LEMMA SumNat ==
  ASSUME NEW S, IsFiniteSet(S), NEW f, \A x \in S : f[x] \in Nat
  PROVE  SumFunctionOnSet(f, S) \in Nat
<1> DEFINE N == {n \in Nat : \A T \in SUBSET S : Cardinality(T) = n => SumFunctionOnSet(f, T) \in Nat}
<1>0. ASSUME NEW T \in SUBSET S PROVE IsFiniteSet(T) /\ Cardinality(T) \in Nat
  BY FS_Subset, FS_CardinalityType
<1>1. 0 \in N
  BY <1>0, FS_EmptySet, SumEmpty
<1>2. ASSUME NEW n \in N PROVE n + 1 \in N
  <2>0. n \in Nat
    OBVIOUS
  <2> SUFFICES ASSUME NEW T \in SUBSET S, Cardinality(T) = n + 1
               PROVE SumFunctionOnSet(f, T) \in Nat
    BY <2>0
  <2>1. T # {}
    BY <2>0, FS_EmptySet
  <2>2. Pick(T) \in T /\ T \ {Pick(T)} \in SUBSET S /\ Cardinality(T \ {Pick(T)}) = n
    BY <1>0, <2>0, <2>1, Smaller
  <2>3. SumFunctionOnSet(f, T \ {Pick(T)}) \in Nat /\ f[Pick(T)] \in Nat
    BY <1>2, <2>2
  <2>4. SumFunctionOnSet(f, T) = f[Pick(T)] + SumFunctionOnSet(f, T \ {Pick(T)})
    BY <1>0, <2>1, SumStep
  <2> QED
    BY <2>3, <2>4
<1>3. N = Nat
  <2> HIDE DEF N
  <2>1. N \in SUBSET Nat
    BY DEF N
  <2> QED
    BY <1>1, <1>2, <2>1, Induction
<1> QED
  BY <1>0, <1>3

\* Whatever element is taken out first, the sum is the same.
LEMMA SumRemove ==
  ASSUME NEW S, IsFiniteSet(S), NEW f, \A y \in S : f[y] \in Nat, NEW x \in S
  PROVE  /\ SumFunctionOnSet(f, S \ {x}) \in Nat
         /\ SumFunctionOnSet(f, S) = f[x] + SumFunctionOnSet(f, S \ {x})
<1> DEFINE N == {n \in Nat : \A T \in SUBSET S : Cardinality(T) = n =>
                   \A y \in T : SumFunctionOnSet(f, T) = f[y] + SumFunctionOnSet(f, T \ {y})}
<1>0. ASSUME NEW T \in SUBSET S
      PROVE  IsFiniteSet(T) /\ Cardinality(T) \in Nat /\ SumFunctionOnSet(f, T) \in Nat
  BY FS_Subset, FS_CardinalityType, SumNat
<1>1. 0 \in N
  BY <1>0, FS_EmptySet
<1>2. ASSUME NEW n \in N PROVE n + 1 \in N
  <2>0. n \in Nat
    OBVIOUS
  <2> SUFFICES ASSUME NEW T \in SUBSET S, Cardinality(T) = n + 1, NEW y \in T
               PROVE  SumFunctionOnSet(f, T) = f[y] + SumFunctionOnSet(f, T \ {y})
    BY <2>0
  <2>1. PICK p \in T : p = Pick(T)
    BY Smaller
  <2>2. SumFunctionOnSet(f, T) = f[p] + SumFunctionOnSet(f, T \ {p})
    BY <1>0, <2>1, SumStep
  <2>3. CASE p = y
    BY <2>2, <2>3
  <2>4. CASE p # y
    <3>1. Cardinality(T \ {p}) = Cardinality(T) - 1 /\ Cardinality(T \ {y}) = Cardinality(T) - 1
      BY <1>0, FS_RemoveElement
    <3>2. /\ T \ {p} \in SUBSET S /\ T \ {y} \in SUBSET S /\ y \in T \ {p} /\ p \in T \ {y}
          /\ Cardinality(T \ {p}) = n /\ Cardinality(T \ {y}) = n
      BY <2>0, <2>4, <3>1
    <3>3. /\ SumFunctionOnSet(f, T \ {p}) = f[y] + SumFunctionOnSet(f, (T \ {p}) \ {y})
          /\ SumFunctionOnSet(f, T \ {y}) = f[p] + SumFunctionOnSet(f, (T \ {y}) \ {p})
      BY <1>2, <3>2
    <3>4. (T \ {p}) \ {y} = (T \ {y}) \ {p} /\ (T \ {y}) \ {p} \in SUBSET S
      OBVIOUS
    <3>5. SumFunctionOnSet(f, (T \ {y}) \ {p}) \in Nat /\ f[p] \in Nat /\ f[y] \in Nat
      BY <1>0, <3>4
    <3> HIDE DEF N
    <3> QED
      BY <2>2, <3>3, <3>4, <3>5
  <2> QED
    BY <2>3, <2>4
<1>3. N = Nat
  <2> HIDE DEF N
  <2>1. N \in SUBSET Nat
    BY DEF N
  <2> QED
    BY <1>1, <1>2, <2>1, Induction
<1>4. S \in SUBSET S /\ S \ {x} \in SUBSET S
  OBVIOUS
<1>5. Cardinality(S) \in N /\ SumFunctionOnSet(f, S \ {x}) \in Nat
  BY <1>0, <1>3, <1>4
<1> QED
  BY <1>4, <1>5

\* An element more adds its term.
LEMMA SumAdd ==
  ASSUME NEW S, IsFiniteSet(S), NEW f, NEW x, x \notin S, f[x] \in Nat,
         \A y \in S : f[y] \in Nat
  PROVE  SumFunctionOnSet(f, S \cup {x}) = f[x] + SumFunctionOnSet(f, S)
<1>1. (S \cup {x}) \ {x} = S /\ x \in S \cup {x}
  OBVIOUS
<1>2. IsFiniteSet(S \cup {x})
  BY FS_AddElement
<1>3. \A y \in S \cup {x} : f[y] \in Nat
  OBVIOUS
<1> QED
  BY <1>1, <1>2, <1>3, SumRemove

\* A sum is monotone in its terms ...
LEMMA SumMonotone ==
  ASSUME NEW S, IsFiniteSet(S), NEW f, NEW g,
         \A x \in S : f[x] \in Nat /\ g[x] \in Nat /\ f[x] <= g[x]
  PROVE  SumFunctionOnSet(f, S) <= SumFunctionOnSet(g, S)
<1> DEFINE G == {T \in SUBSET S : SumFunctionOnSet(f, T) <= SumFunctionOnSet(g, T)}
<1>1. {} \in G
  BY SumEmpty
<1>2. ASSUME NEW T \in SUBSET S, NEW x \in S \ T, T \in G PROVE T \cup {x} \in G
  <2>1. IsFiniteSet(T)
    BY FS_Subset
  <2>2. /\ SumFunctionOnSet(f, T \cup {x}) = f[x] + SumFunctionOnSet(f, T)
        /\ SumFunctionOnSet(g, T \cup {x}) = g[x] + SumFunctionOnSet(g, T)
    BY <2>1, SumAdd
  <2>3. SumFunctionOnSet(f, T) \in Nat /\ SumFunctionOnSet(g, T) \in Nat
    BY <2>1, SumNat
  <2>4. f[x] \in Nat /\ g[x] \in Nat /\ f[x] <= g[x]
    OBVIOUS
  <2> QED
    BY <1>2, <2>2, <2>3, <2>4
<1>3. S \in G
  <2> HIDE DEF G
  <2> QED
    BY <1>1, <1>2, SetInduction
<1> QED
  BY <1>3

\* A sum is no longer than another whose terms are no shorter, each by its own
\* scale.
LEMMA SumScaled ==
  ASSUME NEW S, IsFiniteSet(S), NEW f, NEW g, NEW a \in Nat, NEW b \in Nat,
         \A x \in S : f[x] \in Nat /\ g[x] \in Nat /\ f[x] * a <= g[x] * b
  PROVE  SumFunctionOnSet(f, S) * a <= SumFunctionOnSet(g, S) * b
<1> DEFINE G == {T \in SUBSET S : SumFunctionOnSet(f, T) * a <= SumFunctionOnSet(g, T) * b}
<1>1. {} \in G
  <2>1. 0 * a = 0 /\ 0 * b = 0
    OBVIOUS
  <2> QED
    BY <2>1, SumEmpty
<1>2. ASSUME NEW T \in SUBSET S, NEW x \in S \ T, T \in G PROVE T \cup {x} \in G
  <2>1. IsFiniteSet(T)
    BY FS_Subset
  <2>2. PICK u \in Nat, v \in Nat : u = SumFunctionOnSet(f, T) /\ v = SumFunctionOnSet(g, T)
    BY <2>1, SumNat
  <2>3. PICK c \in Nat, d \in Nat : c = f[x] /\ d = g[x] /\ c * a <= d * b
    OBVIOUS
  <2>4. /\ SumFunctionOnSet(f, T \cup {x}) = c + u
        /\ SumFunctionOnSet(g, T \cup {x}) = d + v
    BY <2>1, <2>2, <2>3, SumAdd
  <2>5. u * a <= v * b
    BY <1>2, <2>2
  <2>6. (c + u) * a = c * a + u * a /\ (d + v) * b = d * b + v * b
    OBVIOUS
  <2>7. (c + u) * a <= (d + v) * b
    <3>1. c * a \in Nat /\ u * a \in Nat /\ d * b \in Nat /\ v * b \in Nat
      OBVIOUS
    <3> QED
      BY <2>3, <2>5, <2>6, <3>1
  <2> QED
    BY <2>4, <2>7
<1>3. S \in G
  <2> HIDE DEF G
  <2> QED
    BY <1>1, <1>2, SetInduction
<1> QED
  BY <1>3

\* A sum depends on nothing but its terms ...
LEMMA SumSame ==
  ASSUME NEW S, IsFiniteSet(S), NEW f, NEW g,
         \A x \in S : f[x] \in Nat /\ g[x] = f[x]
  PROVE  SumFunctionOnSet(f, S) = SumFunctionOnSet(g, S)
<1>1. SumFunctionOnSet(f, S) <= SumFunctionOnSet(g, S)
  <2>1. \A x \in S : f[x] \in Nat /\ g[x] \in Nat /\ f[x] <= g[x]
    OBVIOUS
  <2> QED
    BY <2>1, SumMonotone
<1>2. SumFunctionOnSet(g, S) <= SumFunctionOnSet(f, S)
  <2>1. \A x \in S : g[x] \in Nat /\ f[x] \in Nat /\ g[x] <= f[x]
    OBVIOUS
  <2> QED
    BY <2>1, SumMonotone
<1>3. SumFunctionOnSet(f, S) \in Nat /\ SumFunctionOnSet(g, S) \in Nat
  <2>1. \A x \in S : g[x] \in Nat
    OBVIOUS
  <2> QED
    BY <2>1, SumNat
<1> QED
  BY <1>1, <1>2, <1>3

\* ... and moves with the only term that changes.
LEMMA SumUpdate ==
  ASSUME NEW S, IsFiniteSet(S), NEW f, NEW g, NEW x \in S,
         \A y \in S : f[y] \in Nat /\ g[y] \in Nat,
         \A y \in S \ {x} : f[y] = g[y]
  PROVE  SumFunctionOnSet(g, S) + f[x] = SumFunctionOnSet(f, S) + g[x]
<1>1. IsFiniteSet(S \ {x})
  BY FS_RemoveElement
<1>2. SumFunctionOnSet(f, S \ {x}) = SumFunctionOnSet(g, S \ {x})
  BY <1>1, SumSame
<1>3. /\ SumFunctionOnSet(f, S) = f[x] + SumFunctionOnSet(f, S \ {x})
      /\ SumFunctionOnSet(g, S) = g[x] + SumFunctionOnSet(g, S \ {x})
      /\ SumFunctionOnSet(f, S \ {x}) \in Nat
  BY SumRemove
<1>4. f[x] \in Nat /\ g[x] \in Nat
  OBVIOUS
<1> QED
  BY <1>2, <1>3, <1>4

\* Nothing sums to nothing.
LEMMA SumZero ==
  ASSUME NEW S, IsFiniteSet(S), NEW f, \A x \in S : f[x] = 0
  PROVE  SumFunctionOnSet(f, S) = 0
<1> DEFINE G == {T \in SUBSET S : SumFunctionOnSet(f, T) = 0}
<1>1. {} \in G
  BY SumEmpty
<1>2. ASSUME NEW T \in SUBSET S, NEW x \in S \ T, T \in G PROVE T \cup {x} \in G
  <2>1. IsFiniteSet(T) /\ SumFunctionOnSet(f, T) = 0
    BY <1>2, FS_Subset
  <2>2. f[x] = 0 /\ f[x] \in Nat /\ x \notin T /\ \A y \in T : f[y] \in Nat
    OBVIOUS
  <2>3. SumFunctionOnSet(f, T \cup {x}) = f[x] + SumFunctionOnSet(f, T)
    BY <2>1, <2>2, SumAdd
  <2> QED
    BY <2>1, <2>2, <2>3
<1>3. S \in G
  <2> HIDE DEF G
  <2> QED
    BY <1>1, <1>2, SetInduction
<1> QED
  BY <1>3

\* Terms that are nothing may be left out.
LEMMA SumSupport ==
  ASSUME NEW S, IsFiniteSet(S), NEW f, \A x \in S : f[x] \in Nat,
         NEW U \in SUBSET S, \A x \in S \ U : f[x] = 0
  PROVE  SumFunctionOnSet(f, S) = SumFunctionOnSet(f, U)
<1> DEFINE G == {T \in SUBSET (S \ U) : SumFunctionOnSet(f, U \cup T) = SumFunctionOnSet(f, U)}
<1>1. {} \in G
  BY DEF G
<1>2. ASSUME NEW T \in SUBSET (S \ U), NEW x \in (S \ U) \ T, T \in G PROVE T \cup {x} \in G
  <2>1. PICK V \in SUBSET S : V = U \cup T
    OBVIOUS
  <2>2. IsFiniteSet(V) /\ SumFunctionOnSet(f, V) = SumFunctionOnSet(f, U)
    BY <1>2, <2>1, FS_Subset
  <2>3. f[x] = 0 /\ f[x] \in Nat /\ x \notin V /\ \A y \in V : f[y] \in Nat
    BY <2>1
  <2>4. SumFunctionOnSet(f, V \cup {x}) = f[x] + SumFunctionOnSet(f, V)
    BY <2>2, <2>3, SumAdd
  <2>5. SumFunctionOnSet(f, V) \in Nat
    BY <2>2, <2>3, SumNat
  <2>6. SumFunctionOnSet(f, V \cup {x}) = SumFunctionOnSet(f, U)
    BY <2>2, <2>3, <2>4, <2>5
  <2>7. U \cup (T \cup {x}) = V \cup {x} /\ T \cup {x} \in SUBSET (S \ U)
    BY <2>1
  <2>8. SumFunctionOnSet(f, U \cup (T \cup {x})) = SumFunctionOnSet(f, U)
    BY <2>6, <2>7
  <2> QED
    BY <2>7, <2>8
<1>3. S \ U \in G
  <2>1. IsFiniteSet(S \ U)
    BY FS_Subset
  <2> HIDE DEF G
  <2> QED
    BY <1>1, <1>2, <2>1, SetInduction
<1>4. U \cup (S \ U) = S
  OBVIOUS
<1> QED
  BY <1>3, <1>4

\* No term exceeds the sum.
LEMMA SumTerm ==
  ASSUME NEW S, IsFiniteSet(S), NEW f, \A y \in S : f[y] \in Nat, NEW x \in S
  PROVE  f[x] <= SumFunctionOnSet(f, S)
<1>1. /\ SumFunctionOnSet(f, S \ {x}) \in Nat
      /\ SumFunctionOnSet(f, S) = f[x] + SumFunctionOnSet(f, S \ {x})
  BY SumRemove
<1>2. f[x] \in Nat
  OBVIOUS
<1> QED
  BY <1>1, <1>2

-----------------------------------------------------------------------------
(* Saturating.tla.                                                          *)

\* The ceiling of a / b is the least multiplier that carries b to a.
LEMMA DivCeilBounds ==
  ASSUME NEW a \in Nat, NEW b \in Nat \ {0}
  PROVE  /\ DivCeil(a, b) \in Nat
         /\ a <= DivCeil(a, b) * b
         /\ DivCeil(a, b) * b < a + b
<1> DEFINE m == a + b - 1
           q == m \div b
<1>1. m \in Nat
  OBVIOUS
<1>2. q \in Nat /\ m = q * b + (m % b) /\ m % b \in 0 .. (b - 1)
  BY <1>1
<1>3. q * b \in Nat /\ DivCeil(a, b) = q
  BY <1>2 DEF DivCeil
<1> HIDE DEF q
<1>4. a <= q * b /\ q * b < a + b
  BY <1>2, <1>3
<1> QED
  BY <1>2, <1>3, <1>4

\* Multiplication preserves the order.
LEMMA TimesMonotone ==
  ASSUME NEW a \in Nat, NEW b \in Nat, NEW c \in Nat, a <= b
  PROVE  a * c \in Nat /\ b * c \in Nat /\ a * c <= b * c
<1>1. PICK d \in Nat : b = a + d
  <2>1. b - a \in Nat /\ b = a + (b - a)
    OBVIOUS
  <2> QED BY <2>1
<1>2. a * c \in Nat /\ d * c \in Nat /\ (a + d) * c = a * c + d * c
  OBVIOUS
<1> QED
  BY <1>1, <1>2

\* A longer window holds no fewer activations.
LEMMA DivCeilMonotone ==
  ASSUME NEW a \in Nat, NEW b \in Nat, NEW c \in Nat \ {0}, a <= b
  PROVE  DivCeil(a, c) <= DivCeil(b, c)
<1> DEFINE p == DivCeil(a, c)
           q == DivCeil(b, c)
<1>1. p \in Nat /\ p * c < a + c
  BY DivCeilBounds
<1>2. q \in Nat /\ b <= q * c
  BY DivCeilBounds
<1> HIDE DEF p, q
<1>3. SUFFICES ASSUME q + 1 <= p PROVE FALSE
  BY <1>1, <1>2 DEF p, q
<1>4. (q + 1) * c <= p * c /\ p * c \in Nat
  BY <1>1, <1>2, <1>3, TimesMonotone
<1>5. (q + 1) * c = q * c + c /\ q * c \in Nat
  BY <1>2
<1> QED
  BY <1>1, <1>2, <1>4, <1>5

\* Saturation keeps the width, the order, and never exceeds the exact value.
LEMMA SatAddBounds ==
  ASSUME NEW a \in Nat, NEW b \in Nat
  PROVE  /\ SatAdd(a, b) \in U64
         /\ SatAdd(a, b) <= a + b
         /\ a <= MaxU => a <= SatAdd(a, b)
         /\ SatAdd(a, b) < MaxU => SatAdd(a, b) = a + b
BY WidthAssumption DEF SatAdd, U64

LEMMA SatAddMonotone ==
  ASSUME NEW a \in Nat, NEW b \in Nat, NEW c \in Nat, NEW d \in Nat, a <= c, b <= d
  PROVE  SatAdd(a, b) <= SatAdd(c, d)
BY WidthAssumption DEF SatAdd

LEMMA SatMulBounds ==
  ASSUME NEW a \in Nat, NEW b \in Nat
  PROVE  /\ SatMul(a, b) \in U64
         /\ SatMul(a, b) <= a * b
         /\ SatMul(a, b) < MaxU => SatMul(a, b) = a * b
<1>1. a * b \in Nat
  OBVIOUS
<1> QED
  BY <1>1, WidthAssumption DEF SatMul, U64

LEMMA SatMulMonotone ==
  ASSUME NEW a \in Nat, NEW b \in Nat, NEW c \in Nat, a <= b
  PROVE  SatMul(a, c) <= SatMul(b, c)
<1>1. a * c \in Nat /\ b * c \in Nat /\ a * c <= b * c
  BY TimesMonotone
<1> QED
  BY <1>1, WidthAssumption DEF SatMul

-----------------------------------------------------------------------------
(* Units.tla: what Duration::to_ticks promises, for every width, scale and  *)
(* rate.                                                                    *)

LEMMA SecondPositive == Second \in Nat \ {0}
<1>1. PICK k \in Nat \ {0} : k = Kilo
  BY ScaleAssumption
<1>2. k * k \in Nat \ {0}
  OBVIOUS
<1>3. (k * k) * k \in Nat \ {0}
  BY <1>2
<1> QED
  BY <1>1, <1>3 DEF Second

\* A duration is whole seconds and less than one more.
LEMMA Split ==
  ASSUME NEW d \in Nat
  PROVE  /\ d \div Second \in Nat
         /\ d % Second \in Nat
         /\ d % Second < Second
         /\ d = (d \div Second) * Second + (d % Second)
<1>1. PICK n \in Nat \ {0} : n = Second
  BY SecondPositive
<1>2. /\ d \div n \in Nat /\ d % n \in Nat /\ d % n < n
      /\ d = n * (d \div n) + (d % n)
  OBVIOUS
<1>3. n * (d \div n) = (d \div n) * n
  BY <1>2
<1> QED
  BY <1>1, <1>2, <1>3

\* What saturates is a number.
LEMMA SatNat ==
  ASSUME NEW a \in Nat, NEW b \in Nat
  PROVE  /\ SatMul(a, b) \in Nat /\ SatMul(a, b) <= a * b
         /\ SatAdd(a, b) \in Nat
BY SatMulBounds, SatAddBounds, WidthAssumption DEF U64

\* The ticks of less than a second are no more than the rate.
LEMMA RestWithinRate ==
  ASSUME NEW r \in Nat, r < Second, NEW hz \in Nat
  PROVE  /\ DivCeil(SatMul(r, hz), Second) \in Nat
         /\ DivCeil(SatMul(r, hz), Second) <= hz
<1> DEFINE m == SatMul(r, hz)
           c == DivCeil(m, Second)
<1>1. m \in Nat /\ m <= r * hz
  BY SatNat
<1>2. r * hz <= Second * hz /\ r * hz \in Nat /\ Second * hz \in Nat
  BY SecondPositive, TimesMonotone
<1>3. c \in Nat /\ c * Second < m + Second
  BY <1>1, SecondPositive, DivCeilBounds
<1> HIDE DEF m, c
<1>4. SUFFICES ASSUME hz + 1 <= c PROVE FALSE
  BY <1>3 DEF m, c
<1>5. (hz + 1) * Second <= c * Second /\ c * Second \in Nat
  BY <1>3, <1>4, SecondPositive, TimesMonotone
<1>6. (hz + 1) * Second = hz * Second + Second /\ hz * Second = Second * hz
  BY SecondPositive
<1> QED
  BY <1>1, <1>2, <1>3, <1>5, <1>6, SecondPositive

LEMMA TicksInRange ==
  ASSUME NEW d \in Nat, NEW hz \in Nat
  PROVE  ToTicks(d, hz) \in U64
<1>1. CASE hz = 0
  BY <1>1, WidthAssumption DEF ToTicks, U64
<1>2. CASE hz # 0
  <2>1. SatMul(d \div Second, hz) \in Nat
    BY Split, SatNat
  <2>2. DivCeil(SatMul(d % Second, hz), Second) \in Nat
    BY Split, RestWithinRate
  <2> QED
    BY <1>2, <2>1, <2>2, SatAddBounds DEF ToTicks
<1> QED
  BY <1>1, <1>2

\* to_ticks preserves the order of durations, saturation included.
LEMMA TicksMonotone ==
  ASSUME NEW d \in Nat, NEW e \in Nat, NEW hz \in Nat, d <= e
  PROVE  ToTicks(d, hz) <= ToTicks(e, hz)
<1>1. CASE hz = 0
  BY <1>1 DEF ToTicks
<1>2. CASE hz # 0
  <2>1. PICK q \in Nat, r \in Nat : /\ q = d \div Second /\ r = d % Second
                                    /\ r < Second /\ d = q * Second + r
    BY Split
  <2>2. PICK p \in Nat, s \in Nat : /\ p = e \div Second /\ s = e % Second
                                    /\ s < Second /\ e = p * Second + s
    BY Split
  <2> DEFINE rest(t) == DivCeil(SatMul(t, hz), Second)
  <2>3. /\ ToTicks(d, hz) = SatAdd(SatMul(q, hz), rest(r))
        /\ ToTicks(e, hz) = SatAdd(SatMul(p, hz), rest(s))
    BY <1>2, <2>1, <2>2 DEF ToTicks
  <2>4. /\ SatMul(q, hz) \in Nat /\ SatMul(p, hz) \in Nat
        /\ SatMul(r, hz) \in Nat /\ SatMul(s, hz) \in Nat
    BY SatNat
  <2>5. rest(r) \in Nat /\ rest(s) \in Nat /\ rest(r) <= hz
    BY <2>1, <2>2, RestWithinRate
  <2>6. q <= p
    <3>1. SUFFICES ASSUME p + 1 <= q PROVE FALSE
      OBVIOUS
    <3>2. (p + 1) * Second <= q * Second /\ q * Second \in Nat
      BY <3>1, SecondPositive, TimesMonotone
    <3>3. (p + 1) * Second = p * Second + Second /\ p * Second \in Nat
      BY SecondPositive
    <3> QED
      BY <2>1, <2>2, <3>2, <3>3, SecondPositive
  <2>7. CASE q = p
    <3>1. r <= s
      <4>1. q * Second \in Nat
        BY SecondPositive
      <4> QED BY <2>1, <2>2, <2>7, <4>1
    <3>2. SatMul(r, hz) <= SatMul(s, hz)
      BY <3>1, SatMulMonotone
    <3>3. rest(r) <= rest(s)
      BY <2>4, <3>2, SecondPositive, DivCeilMonotone
    <3> HIDE DEF rest
    <3>4. SatAdd(SatMul(q, hz), rest(r)) <= SatAdd(SatMul(q, hz), rest(s))
      BY <2>4, <2>5, <3>3, SatAddMonotone
    <3> QED
      BY <2>3, <2>7, <3>4
  <2>8. CASE q + 1 <= p
    <3> HIDE DEF rest
    <3>1. SatAdd(SatMul(q, hz), rest(r)) <= SatMul(q + 1, hz)
      <4>1. (q + 1) * hz = q * hz + hz /\ q * hz \in Nat
        OBVIOUS
      <4>2. SatMul(q, hz) <= q * hz
        BY SatMulBounds
      <4> QED
        BY <2>4, <2>5, <4>1, <4>2, WidthAssumption DEF SatAdd, SatMul
    <3>2. SatMul(q + 1, hz) <= SatMul(p, hz)
      BY <2>8, SatMulMonotone
    <3>3. SatMul(p, hz) <= SatAdd(SatMul(p, hz), rest(s))
      BY <2>4, <2>5, SatAddBounds, SatMulBounds, WidthAssumption DEF U64
    <3>4. /\ SatAdd(SatMul(q, hz), rest(r)) \in Nat
          /\ SatAdd(SatMul(p, hz), rest(s)) \in Nat
          /\ SatMul(q + 1, hz) \in Nat
      <4>1. q + 1 \in Nat
        OBVIOUS
      <4> QED
        BY <2>4, <2>5, <4>1, SatNat
    <3> QED
      BY <2>3, <2>4, <3>1, <3>2, <3>3, <3>4
  <2> QED
    BY <2>6, <2>7, <2>8
<1> QED
  BY <1>1, <1>2

\* Where a clock ticks, no time is rounded to none.
LEMMA TicksPositive ==
  ASSUME NEW d \in Nat \ {0}, NEW hz \in Nat \ {0}, MaxU >= 1
  PROVE  ToTicks(d, hz) >= 1
<1>1. PICK q \in Nat, r \in Nat : /\ q = d \div Second /\ r = d % Second
                                  /\ r < Second /\ d = q * Second + r
  BY Split
<1> DEFINE rest == DivCeil(SatMul(r, hz), Second)
<1>2. SatMul(q, hz) \in Nat /\ SatMul(r, hz) \in Nat /\ rest \in Nat
  BY <1>1, SatNat, RestWithinRate
<1>3. ToTicks(d, hz) = SatAdd(SatMul(q, hz), rest)
  BY <1>1 DEF ToTicks
<1>4. ASSUME NEW k \in Nat \ {0} PROVE SatMul(k, hz) >= 1
  <2>1. k * hz \in Nat \ {0}
    OBVIOUS
  <2> QED
    BY <2>1, WidthAssumption DEF SatMul
<1>5. CASE q # 0
  BY <1>2, <1>3, <1>4, <1>5, WidthAssumption DEF SatAdd
<1>6. CASE q = 0
  <2>1. r # 0
    BY <1>1, <1>6, SecondPositive
  <2>2. SatMul(r, hz) >= 1
    BY <1>4, <2>1
  <2>3. SatMul(r, hz) <= rest * Second
    BY <1>2, SecondPositive, DivCeilBounds
  <2> HIDE DEF rest
  <2>4. rest # 0
    BY <1>2, <2>2, <2>3, SecondPositive
  <2> QED
    BY <1>2, <1>3, <2>4, WidthAssumption DEF SatAdd
<1> QED
  BY <1>5, <1>6

\* The ceiling is the only multiplier within one of the quotient.
LEMMA DivCeilUnique ==
  ASSUME NEW a \in Nat, NEW b \in Nat \ {0}, NEW n \in Nat, a <= n * b, n * b < a + b
  PROVE  DivCeil(a, b) = n
<1>1. PICK m \in Nat : m = DivCeil(a, b) /\ a <= m * b /\ m * b < a + b
  BY DivCeilBounds
<1>2. ASSUME NEW i \in Nat, NEW j \in Nat, a <= i * b, j * b < a + b PROVE j <= i
  <2>1. SUFFICES ASSUME i + 1 <= j PROVE FALSE
    OBVIOUS
  <2>2. (i + 1) * b <= j * b /\ j * b \in Nat
    BY <2>1, TimesMonotone
  <2>3. (i + 1) * b = i * b + b /\ i * b \in Nat
    OBVIOUS
  <2> QED
    BY <1>2, <2>2, <2>3
<1>3. m <= n /\ n <= m
  BY <1>1, <1>2
<1> QED
  BY <1>1, <1>3

\* Whole multiples pass through the ceiling.
LEMMA DivCeilSplit ==
  ASSUME NEW k \in Nat, NEW a \in Nat, NEW b \in Nat \ {0}
  PROVE  DivCeil(k * b + a, b) = k + DivCeil(a, b)
<1>1. PICK c \in Nat : c = DivCeil(a, b) /\ a <= c * b /\ c * b < a + b
  BY DivCeilBounds
<1>2. k * b \in Nat /\ c * b \in Nat /\ (k + c) * b = k * b + c * b
  OBVIOUS
<1>3. DivCeil(k * b + a, b) = k + c
  <2>1. k * b + a \in Nat /\ k + c \in Nat
    BY <1>2
  <2>2. k * b + a <= (k + c) * b /\ (k + c) * b < (k * b + a) + b
    BY <1>1, <1>2
  <2> QED
    BY <2>1, <2>2, DivCeilUnique
<1> QED
  BY <1>1, <1>3

LEMMA Ceiling ==
  ASSUME NEW d \in Nat, NEW hz \in Nat \ {0},
         (d \div Second) * hz <= MaxU, (d % Second) * hz <= MaxU
  PROVE  ToTicks(d, hz) = SatAdd(0, DivCeil(d * hz, Second))
<1>1. PICK q \in Nat, r \in Nat : /\ q = d \div Second /\ r = d % Second
                                  /\ d = q * Second + r
  BY Split
<1>2. SatMul(q, hz) = q * hz /\ SatMul(r, hz) = r * hz
  BY <1>1 DEF SatMul
<1>3. q * hz \in Nat /\ r * hz \in Nat
  OBVIOUS
<1>4. d * hz = (q * hz) * Second + r * hz
  BY <1>1, SecondPositive
<1>5. DivCeil(d * hz, Second) = q * hz + DivCeil(r * hz, Second)
  <2>1. PICK k \in Nat, a \in Nat : k = q * hz /\ a = r * hz
    BY <1>3
  <2>2. DivCeil(k * Second + a, Second) = k + DivCeil(a, Second)
    BY SecondPositive, DivCeilSplit
  <2> QED
    BY <1>4, <2>1, <2>2
<1>6. DivCeil(r * hz, Second) \in Nat
  BY <1>3, SecondPositive, DivCeilBounds
<1>7. ToTicks(d, hz) = SatAdd(q * hz, DivCeil(r * hz, Second))
  BY <1>1, <1>2 DEF ToTicks
<1> QED
  BY <1>3, <1>5, <1>6, <1>7 DEF SatAdd
\* What is left of a whole second fits, where all but a nanosecond of it does.
LEMMA RestFits ==
  ASSUME NEW d \in Nat, NEW hz \in Nat \ {0}, (Second - 1) * hz <= MaxU
  PROVE  (d % Second) * hz <= MaxU
<1>1. PICK n \in Nat \ {0}, r \in Nat : n = Second /\ r = d % Second /\ r < n
  BY SecondPositive, Split
<1>2. PICK l \in Nat : l = n - 1 /\ r <= l
  BY <1>1
<1>3. r * hz <= l * hz /\ r * hz \in Nat /\ l * hz \in Nat
  BY <1>2, TimesMonotone
<1> QED
  BY <1>1, <1>2, <1>3, WidthAssumption

\* Where the rest of a second cannot saturate, ticks that did not saturate last
\* as long as the duration.
LEMMA TicksLong ==
  ASSUME NEW d \in Nat, NEW hz \in Nat \ {0}, (Second - 1) * hz <= MaxU, ToTicks(d, hz) < MaxU
  PROVE  d * hz <= ToTicks(d, hz) * Second
<1>1. (d % Second) * hz <= MaxU
  BY RestFits
<1>2. (d \div Second) * hz <= MaxU
  <2>1. PICK a \in Nat, b \in Nat :
          a = SatMul(d \div Second, hz) /\ b = DivCeil(SatMul(d % Second, hz), Second)
    BY RestWithinRate, Split, SatNat
  <2>2. ToTicks(d, hz) = SatAdd(a, b)
    BY <2>1 DEF ToTicks
  <2>3. a < MaxU
    BY <2>2, WidthAssumption DEF SatAdd
  <2>4. SatMul(d \div Second, hz) = (d \div Second) * hz
    BY <2>1, <2>3, Split, SatMulBounds
  <2> QED
    BY <2>1, <2>3, <2>4, WidthAssumption
<1>3. PICK x \in Nat, n \in Nat \ {0} : x = d * hz /\ n = Second
  BY SecondPositive
<1>4. PICK y \in Nat : y = DivCeil(x, n) /\ x <= y * n
  BY DivCeilBounds
<1>5. ToTicks(d, hz) = SatAdd(0, y)
  BY <1>1, <1>2, <1>3, <1>4, Ceiling
<1>6. ToTicks(d, hz) = y
  BY <1>5, WidthAssumption DEF SatAdd
<1> QED
  BY <1>3, <1>4, <1>6

\* Where the rest of a second cannot saturate, the ticks of a duration that is
\* a whole number of them do not last longer than it.
LEMMA TicksShort ==
  ASSUME NEW d \in Nat, NEW hz \in Nat \ {0}, (Second - 1) * hz <= MaxU, WholeTicks(d, hz)
  PROVE  ToTicks(d, hz) * Second <= d * hz
<1>1. (d % Second) * hz <= MaxU
  BY RestFits
<1>2. PICK n \in Nat \ {0} : n = Second
  BY SecondPositive
<1>3. PICK q \in Nat, r \in Nat : q = d \div n /\ r = d % n /\ d = q * n + r
  BY <1>2, Split
<1>4. PICK t \in Nat : t = ToTicks(d, hz) /\ t <= MaxU
  BY TicksInRange, WidthAssumption DEF U64
<1>5. CASE q * hz <= MaxU
  <2>1. PICK x \in Nat : x = d * hz /\ x % n = 0
    BY <1>2 DEF WholeTicks
  <2>2. PICK y \in Nat : y = x \div n /\ x = n * y
    <3>1. x \div n \in Nat /\ x = n * (x \div n) + (x % n)
      OBVIOUS
    <3>2. n * (x \div n) \in Nat
      BY <3>1
    <3> QED
      BY <2>1, <3>1, <3>2
  <2>3. DivCeil(x, n) = y
    <3>1. y * n = x
      BY <2>2
    <3> QED
      BY <3>1, DivCeilUnique
  <2>4. t = SatAdd(0, y)
    BY <1>1, <1>2, <1>3, <1>4, <1>5, <2>1, <2>3, Ceiling
  <2>5. t <= y
    BY <2>4, WidthAssumption DEF SatAdd
  <2>6. t * n <= y * n
    BY <2>5, TimesMonotone
  <2> QED
    BY <1>2, <1>4, <2>1, <2>2, <2>6
<1>6. CASE ~(q * hz <= MaxU)
  <2>1. t <= q * hz /\ q * hz \in Nat
    BY <1>4, <1>6, WidthAssumption
  <2>2. PICK a \in Nat : a = q * hz
    OBVIOUS
  <2>3. t * n <= a * n
    BY <2>1, <2>2, TimesMonotone
  <2>4. (q * n + r) * hz = (q * hz) * n + r * hz /\ r * hz \in Nat /\ (q * hz) * n \in Nat
    OBVIOUS
  <2>5. a * n <= d * hz
    BY <1>3, <2>2, <2>4
  <2>6. t * n \in Nat /\ a * n \in Nat /\ d * hz \in Nat
    OBVIOUS
  <2> QED
    BY <1>2, <1>4, <2>3, <2>5, <2>6
<1> QED
  BY <1>3, <1>5, <1>6

\* No more terms, each of them no longer, are no longer together.
LEMMA ScaledProduct ==
  ASSUME NEW i \in Nat, NEW c \in Nat, NEW a \in Nat,
         NEW j \in Nat, NEW d \in Nat, NEW b \in Nat, i <= j, c * a <= d * b
  PROVE  (i * c) * a <= (j * d) * b
<1>1. PICK x \in Nat, y \in Nat : x = c * a /\ y = d * b /\ x <= y
  OBVIOUS
<1>2. i * y <= j * y /\ x * i <= y * i
  BY <1>1, TimesMonotone
<1>3. (i * c) * a = i * (c * a) /\ (j * d) * b = j * (d * b) /\ x * i = i * x /\ y * i = i * y
  OBVIOUS
<1>4. i * x \in Nat /\ i * y \in Nat /\ j * y \in Nat
  OBVIOUS
<1> QED
  BY <1>1, <1>2, <1>3, <1>4

\* What fits a scale before its next whole step fits its whole steps.
LEMMA WholeSteps ==
  ASSUME NEW x \in Nat, NEW w \in Nat, NEW a \in Nat \ {0}, w * a <= x
  PROVE  /\ x \div a \in Nat /\ (x \div a) * a <= x
         /\ w <= x \div a
<1>1. x \div a \in Nat /\ x % a \in Nat /\ x % a < a /\ x = a * (x \div a) + (x % a)
  OBVIOUS
<1>2. PICK q \in Nat, r \in Nat : q = x \div a /\ r < a /\ x = a * q + r
  BY <1>1
<1>3. a * q = q * a /\ q * a \in Nat /\ (q + 1) * a = q * a + a /\ w * a \in Nat
  OBVIOUS
<1>4. ASSUME q + 1 <= w PROVE FALSE
  <2>1. (q + 1) * a <= w * a
    BY <1>4, TimesMonotone
  <2> QED
    BY <1>2, <1>3, <2>1
<1> QED
  BY <1>2, <1>3, <1>4

\* A window that is no longer holds no more releases of a period that is no
\* shorter, by the common scale of ticks and nanoseconds.
LEMMA FewerReleases ==
  ASSUME NEW r \in Nat, NEW t \in Nat \ {0}, NEW R \in Nat, NEW T \in Nat \ {0},
         NEW hz \in Nat \ {0}, NEW n \in Nat, R * hz <= r * n, t * n <= T * hz
  PROVE  DivCeil(R, T) <= DivCeil(r, t)
<1>1. PICK k \in Nat : k = DivCeil(r, t) /\ r <= k * t
  BY DivCeilBounds
<1>2. r * n <= k * (T * hz)
  <2>1. PICK a \in Nat, b \in Nat, c \in Nat : a = k * t /\ b = t * n /\ c = T * hz
    OBVIOUS
  <2>2. r * n <= a * n
    BY <1>1, <2>1, TimesMonotone
  <2>3. b * k <= c * k
    BY <2>1, TimesMonotone
  <2>4. (k * t) * n = (t * n) * k /\ c * k = k * c
    OBVIOUS
  <2>5. r * n \in Nat /\ b * k \in Nat /\ c * k \in Nat
    OBVIOUS
  <2> QED
    BY <2>1, <2>2, <2>3, <2>4, <2>5
<1>3. k * (T * hz) = (k * T) * hz
  OBVIOUS
<1>4. R <= k * T
  <2>1. PICK w \in Nat : w = k * T
    OBVIOUS
  <2>2. R * hz <= w * hz
    <3>1. R * hz \in Nat /\ r * n \in Nat /\ w * hz \in Nat
      OBVIOUS
    <3> QED
      BY <1>2, <1>3, <2>1, <3>1
  <2>3. SUFFICES ASSUME w + 1 <= R PROVE FALSE
    BY <2>1
  <2>4. (w + 1) * hz <= R * hz
    BY <2>3, TimesMonotone
  <2>5. (w + 1) * hz = w * hz + hz /\ w * hz \in Nat /\ R * hz \in Nat
    OBVIOUS
  <2> QED
    BY <2>2, <2>4, <2>5
<1>5. PICK j \in Nat : j = DivCeil(R, T) /\ j * T < R + T
  BY DivCeilBounds
<1>6. SUFFICES ASSUME k + 1 <= j PROVE FALSE
  BY <1>1, <1>5
<1>7. (k + 1) * T <= j * T
  BY <1>6, TimesMonotone
<1>8. (k + 1) * T = k * T + T /\ k * T \in Nat /\ j * T \in Nat
  OBVIOUS
<1> QED
  BY <1>4, <1>5, <1>7, <1>8

-----------------------------------------------------------------------------
\* The multiples of p below n are as many as the ceiling of n / p.
LEMMA CountMultiples ==
  ASSUME NEW p \in Nat \ {0}, NEW n \in Nat
  PROVE  Cardinality({k \in 0 .. (n - 1) : k % p = 0}) = DivCeil(n, p)
<1> DEFINE K(m) == {k \in 0 .. (m - 1) : k % p = 0}
           N == {m \in Nat : Cardinality(K(m)) = DivCeil(m, p)}
<1>0. ASSUME NEW m \in Nat PROVE IsFiniteSet(K(m))
  <2>1. IsFiniteSet(0 .. (m - 1)) /\ K(m) \in SUBSET (0 .. (m - 1))
    BY FS_Interval
  <2> HIDE DEF K
  <2> QED
    BY <2>1, FS_Subset
<1>1. 0 \in N
  <2>1. K(0) = {}
    OBVIOUS
  <2>2. DivCeil(0, p) = 0
    BY DivCeilUnique
  <2> QED
    BY <2>1, <2>2, FS_EmptySet
<1>2. ASSUME NEW m \in N PROVE m + 1 \in N
  <2>0. m \in Nat /\ Cardinality(K(m)) = DivCeil(m, p)
    OBVIOUS
  <2>1. PICK q \in Nat, r \in Nat : m = p * q + r /\ r < p /\ r = m % p
    <3>1. m \div p \in Nat /\ m % p \in Nat /\ m % p < p /\ m = p * (m \div p) + (m % p)
      BY <2>0
    <3> QED
      BY <3>1
  <2>2. p * q \in Nat /\ q * p = p * q /\ (q + 1) * p = p * q + p
    OBVIOUS
  <2>3. CASE r = 0
    <3>1. K(m + 1) = K(m) \cup {m} /\ m \notin K(m)
      BY <2>0, <2>1, <2>3
    <3>2. Cardinality(K(m + 1)) = Cardinality(K(m)) + 1
      <4> HIDE DEF K
      <4> QED
        BY <1>0, <2>0, <3>1, FS_AddElement
    <3>3. DivCeil(m, p) = q
      <4>1. m <= q * p /\ q * p < m + p
        BY <2>0, <2>1, <2>2, <2>3
      <4> QED
        BY <2>0, <4>1, DivCeilUnique
    <3>4. DivCeil(m + 1, p) = q + 1
      <4>1. q + 1 \in Nat /\ m + 1 \in Nat /\ m + 1 <= (q + 1) * p /\ (q + 1) * p < m + 1 + p
        BY <2>0, <2>1, <2>2, <2>3
      <4> QED
        BY <4>1, DivCeilUnique
    <3> HIDE DEF K
    <3> QED
      BY <2>0, <3>2, <3>3, <3>4
  <2>4. CASE r # 0
    <3>1. K(m + 1) = K(m)
      BY <2>0, <2>1, <2>4
    <3>2. ASSUME NEW l \in {m, m + 1} PROVE DivCeil(l, p) = q + 1
      <4>1. q + 1 \in Nat /\ l \in Nat /\ l <= (q + 1) * p /\ (q + 1) * p < l + p
        BY <2>0, <2>1, <2>2, <2>4
      <4> QED
        BY <4>1, DivCeilUnique
    <3>3. DivCeil(m + 1, p) = DivCeil(m, p)
      BY <3>2
    <3> HIDE DEF K
    <3> QED
      BY <2>0, <3>1, <3>3
  <2> QED
    BY <2>1, <2>3, <2>4
<1>3. N = Nat
  <2> HIDE DEF N
  <2>1. N \in SUBSET Nat
    BY DEF N
  <2> QED
    BY <1>1, <1>2, <2>1, Induction
<1> QED
  BY <1>3

\* The points of a grid of step p strictly between one of its points and b.
LEMMA CountGrid ==
  ASSUME NEW a \in Nat, NEW b \in Nat, NEW p \in Nat \ {0}, a < b
  PROVE  Cardinality({g \in (a + 1) .. (b - 1) : (g - a) % p = 0}) = DivCeil(b - a, p) - 1
<1>1. PICK n \in Nat : n = b - a /\ b = a + n /\ n > 0
  OBVIOUS
<1>2. PICK K : K = {k \in 0 .. (n - 1) : k % p = 0}
  OBVIOUS
<1>3. PICK G : G = {g \in (a + 1) .. (b - 1) : (g - a) % p = 0}
  OBVIOUS
<1>4. IsFiniteSet(K) /\ Cardinality(K) = DivCeil(n, p)
  <2>1. IsFiniteSet(0 .. (n - 1)) /\ K \in SUBSET (0 .. (n - 1))
    BY <1>1, <1>2, FS_Interval
  <2> QED
    BY <1>1, <1>2, <2>1, FS_Subset, CountMultiples
<1>5. 0 \in K
  BY <1>1, <1>2
<1>6. IsFiniteSet(K \ {0}) /\ Cardinality(K \ {0}) = DivCeil(n, p) - 1
  BY <1>4, <1>5, FS_RemoveElement
<1>7. ExistsBijection(K \ {0}, G)
  <2>1. PICK f : f = [k \in K \ {0} |-> a + k]
    OBVIOUS
  <2>2. ASSUME NEW k \in K \ {0} PROVE f[k] = a + k /\ f[k] \in G /\ k \in Nat
    <3>1. k \in Nat /\ k % p = 0 /\ a + k \in (a + 1) .. (b - 1) /\ (a + k) - a = k
      BY <1>1, <1>2
    <3> QED
      BY <1>3, <2>1, <3>1
  <2>3. ASSUME NEW g \in G PROVE \E k \in K \ {0} : f[k] = g
    <3>1. g - a \in 0 .. (n - 1) /\ g - a # 0 /\ (g - a) % p = 0 /\ a + (g - a) = g
      BY <1>1, <1>3
    <3>2. g - a \in K \ {0}
      BY <1>2, <3>1
    <3> QED
      BY <2>2, <3>1, <3>2
  <2>4. ASSUME NEW k \in K \ {0}, NEW l \in K \ {0}, f[k] = f[l] PROVE k = l
    BY <2>2, <2>4
  <2>5. f \in [K \ {0} -> G]
    BY <2>1, <2>2
  <2>6. f \in Bijection(K \ {0}, G)
    BY <2>3, <2>4, <2>5 DEF Bijection, Injection, Surjection, IsInjective
  <2> QED
    BY <2>6 DEF ExistsBijection
<1>8. Cardinality(G) = DivCeil(n, p) - 1
  BY <1>6, <1>7, FS_Bijection
<1> QED
  BY <1>1, <1>3, <1>8
=============================================================================
