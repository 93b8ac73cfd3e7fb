------------------------------ MODULE SumLemmas -----------------------------
(***************************************************************************)
(* Sums of natural numbers over finite sets, as MapThenSumSet gives them.  *)
(* The provers cannot use a theorem whose parameter is an operator, so     *)
(* that induction is stated for sets here, and sums for functions.         *)
(***************************************************************************)
EXTENDS Integers, FiniteSetsExt, FiniteSetTheorems, WellFoundedInduction, TLAPS

LEMMA LessRel == \A i, j \in Nat : (<<i, j>> \in OpToRel(<, Nat)) <=> i < j
  BY DEF OpToRel

\* Induction over the natural numbers.
LEMMA SetInduction ==
    ASSUME NEW S \in SUBSET Nat, 0 \in S, \A n \in S : n + 1 \in S
    PROVE  S = Nat
  <1>1. SUFFICES ASSUME Nat \ S # {} PROVE FALSE
    OBVIOUS
  <1>2. PICK x \in Nat \ S : \A y \in Nat \ S : ~ (<<y, x>> \in OpToRel(<, Nat))
    BY <1>1, NatLessThanWellFounded, WFMin, Zenon
  <1>3. \A y \in Nat \ S : ~(y < x)
    BY <1>2, LessRel
  <1> QED BY <1>3

\* Induction over the subsets of a finite set.
LEMMA SubsetInduction ==
    ASSUME NEW D, IsFiniteSet(D), NEW Q \in SUBSET (SUBSET D),
           \A s \in SUBSET D : (\A x \in s : s \ {x} \in Q) => s \in Q
    PROVE  Q = SUBSET D
  <1> DEFINE P == {n \in Nat : \A s \in SUBSET D : Cardinality(s) <= n => s \in Q}
  <1>0. \A s \in SUBSET D : IsFiniteSet(s) /\ Cardinality(s) \in Nat
    BY FS_Subset, FS_CardinalityType
  <1>1. 0 \in P
    <2> SUFFICES ASSUME NEW s \in SUBSET D, Cardinality(s) <= 0  PROVE s \in Q
      OBVIOUS
    <2>1. s = {}
      BY <1>0, FS_EmptySet
    <2> QED  BY <2>1
  <1>2. ASSUME NEW n \in P  PROVE n + 1 \in P
    <2> SUFFICES ASSUME NEW s \in SUBSET D, Cardinality(s) <= n + 1  PROVE s \in Q
      OBVIOUS
    <2>1. ASSUME NEW x \in s  PROVE s \ {x} \in Q
      <3>1. Cardinality(s \ {x}) = Cardinality(s) - 1
        BY <1>0, FS_RemoveElement
      <3> QED  BY <3>1, <1>0
    <2> QED  BY <2>1
  <1>3. P = Nat
    <2>1. P \in SUBSET Nat
      OBVIOUS
    <2> HIDE DEF P
    <2> QED  BY <1>1, <1>2, <2>1, SetInduction
  <1> QED  BY <1>0, <1>3

-----------------------------------------------------------------------------
Chosen(s) == CHOOSE x \in s : TRUE

LEMMA ChosenIn == \A s : s # {} => Chosen(s) \in s
  BY DEF Chosen

\* The recursion of MapThenSumSet, for the sum of f over the subsets of D.
Unfolds(G, f, D) ==
    G = [s \in SUBSET D |-> IF s = {} THEN 0 ELSE f[Chosen(s)] + G[s \ {Chosen(s)}]]

\* G gives the sum of f over every subset of D, in whatever order.
Adds(G, f, D) ==
    /\ G \in [SUBSET D -> Nat]
    /\ G[{}] = 0
    /\ \A s \in SUBSET D : \A x \in s : G[s] = f[x] + G[s \ {x}]

LEMMA SumUnfolds ==
    ASSUME NEW D, IsFiniteSet(D), NEW f \in [D -> Nat]
    PROVE  \E G \in [SUBSET D -> Nat] : Unfolds(G, f, D)
  <1> DEFINE Small(n) == {s \in SUBSET D : Cardinality(s) <= n}
             Body(G, s) == IF s = {} THEN 0 ELSE f[Chosen(s)] + G[s \ {Chosen(s)}]
             P == {n \in Nat : \E G \in [Small(n) -> Nat] : \A s \in Small(n) : G[s] = Body(G, s)}
  <1>0. \A s \in SUBSET D : IsFiniteSet(s) /\ Cardinality(s) \in Nat /\ Cardinality(s) <= Cardinality(D)
    BY FS_Subset, FS_CardinalityType
  <1>1. ASSUME NEW n \in Nat, NEW s \in Small(n + 1), s # {}
        PROVE  Chosen(s) \in D /\ s \ {Chosen(s)} \in Small(n)
    <2>1. Chosen(s) \in s
      BY <1>1, ChosenIn
    <2>2. Cardinality(s \ {Chosen(s)}) = Cardinality(s) - 1
      BY <2>1, <1>0, FS_RemoveElement
    <2> QED  BY <2>1, <2>2, <1>0
  <1>2. 0 \in P
    <2>1. \A s \in Small(0) : s = {}
      BY <1>0, FS_EmptySet
    <2> DEFINE G == [s \in Small(0) |-> 0]
    <2>2. G \in [Small(0) -> Nat] /\ \A s \in Small(0) : G[s] = Body(G, s)
      BY <2>1
    <2> QED  BY <2>2
  <1>3. ASSUME NEW n \in P  PROVE n + 1 \in P
    <2>1. PICK G \in [Small(n) -> Nat] : \A s \in Small(n) : G[s] = Body(G, s)
      OBVIOUS
    <2> DEFINE H == [s \in Small(n + 1) |-> Body(G, s)]
    <2>2. \A s \in Small(n) : s \in Small(n + 1)
      BY <1>0
    <2>3. \A s \in Small(n) : H[s] = G[s]
      BY <2>1, <2>2
    <2>4. H \in [Small(n + 1) -> Nat]
      <3> SUFFICES ASSUME NEW s \in Small(n + 1)  PROVE Body(G, s) \in Nat
        OBVIOUS
      <3>1. CASE s = {}
        BY <3>1
      <3>2. CASE s # {}
        <4>1. Chosen(s) \in D /\ s \ {Chosen(s)} \in Small(n)
          BY <3>2, <1>1
        <4>2. G[s \ {Chosen(s)}] \in Nat /\ f[Chosen(s)] \in Nat
          BY <4>1, <2>1
        <4> QED  BY <3>2, <4>2
      <3> QED  BY <3>1, <3>2
    <2>5. ASSUME NEW s \in Small(n + 1)  PROVE H[s] = Body(H, s)
      <3>1. CASE s = {}
        BY <3>1
      <3>2. CASE s # {}
        <4>1. H[s \ {Chosen(s)}] = G[s \ {Chosen(s)}]
          BY <3>2, <1>1, <2>3
        <4> QED  BY <3>2, <4>1
      <3> QED  BY <3>1, <3>2
    <2> HIDE DEF H
    <2>6. n + 1 \in Nat
      OBVIOUS
    <2> QED  BY <2>4, <2>5, <2>6
  <1>4. P = Nat
    <2>1. P \in SUBSET Nat
      OBVIOUS
    <2> HIDE DEF P
    <2> QED  BY <1>2, <1>3, <2>1, SetInduction
  <1>5. Cardinality(D) \in Nat
    BY FS_CardinalityType
  <1>6. Small(Cardinality(D)) = SUBSET D
    BY <1>0
  <1>7. PICK G \in [SUBSET D -> Nat] : \A s \in SUBSET D : G[s] = Body(G, s)
    <2>1. Cardinality(D) \in P
      <3> HIDE DEF P
      <3> QED  BY <1>4, <1>5
    <2>2. PICK G \in [Small(Cardinality(D)) -> Nat] :
             \A s \in Small(Cardinality(D)) : G[s] = Body(G, s)
      <3> HIDE DEF Small, Body
      <3> QED  BY <2>1
    <2> HIDE DEF Small, Body
    <2> QED  BY <2>2, <1>6
  <1>8. G = [s \in SUBSET D |-> Body(G, s)]
    BY <1>7
  <1> QED  BY <1>7, <1>8 DEF Unfolds


LEMMA UnfoldsTyped ==
    ASSUME NEW D, IsFiniteSet(D), NEW f \in [D -> Nat], NEW G, Unfolds(G, f, D)
    PROVE  G \in [SUBSET D -> Nat]
  <1>0. \A s \in SUBSET D : G[s] = IF s = {} THEN 0 ELSE f[Chosen(s)] + G[s \ {Chosen(s)}]
    BY DEF Unfolds
  <1> DEFINE Q == {s \in SUBSET D : G[s] \in Nat}
  <1>1. ASSUME NEW s \in SUBSET D, \A x \in s : s \ {x} \in Q
        PROVE  s \in Q
    <2>1. CASE s = {}
      <3>1. G[s] = 0
        BY <1>0, <2>1
      <3> QED  BY <3>1
    <2>2. CASE s # {}
      <3>1. Chosen(s) \in s
        BY <2>2, ChosenIn
      <3>2. G[s \ {Chosen(s)}] \in Nat /\ f[Chosen(s)] \in Nat
        BY <3>1, <1>1
      <3> QED  BY <1>0, <2>2, <3>2
    <2> QED  BY <2>1, <2>2
  <1>2. Q = SUBSET D
    <2>1. Q \in SUBSET (SUBSET D)
      OBVIOUS
    <2> HIDE DEF Q
    <2> QED  BY <1>1, <2>1, SubsetInduction
  <1>3. G = [s \in SUBSET D |-> G[s]]
    BY DEF Unfolds
  <1> QED  BY <1>2, <1>3

\* What the recursion computes does not depend on the order it takes.
LEMMA UnfoldsAdds ==
    ASSUME NEW D, IsFiniteSet(D), NEW f \in [D -> Nat], NEW G, Unfolds(G, f, D)
    PROVE  Adds(G, f, D)
  <1>t. G \in [SUBSET D -> Nat]
    BY UnfoldsTyped
  <1>0. \A s \in SUBSET D : G[s] = IF s = {} THEN 0 ELSE f[Chosen(s)] + G[s \ {Chosen(s)}]
    BY DEF Unfolds
  <1> DEFINE Q == {s \in SUBSET D : \A x \in s : G[s] = f[x] + G[s \ {x}]}
  <1>1. ASSUME NEW s \in SUBSET D, \A x \in s : s \ {x} \in Q
        PROVE  s \in Q
    <2> SUFFICES ASSUME NEW x \in s  PROVE G[s] = f[x] + G[s \ {x}]
      OBVIOUS
    <2> DEFINE y == Chosen(s)
    <2>1. y \in s /\ G[s] = f[y] + G[s \ {y}]
      BY <1>0, ChosenIn
    <2> HIDE DEF y
    <2>2. CASE x = y
      BY <2>1, <2>2
    <2>3. CASE x # y
      <3>1. G[s \ {y}] = f[x] + G[(s \ {y}) \ {x}]
        BY <1>1, <2>1, <2>3
      <3>2. G[s \ {x}] = f[y] + G[(s \ {x}) \ {y}]
        BY <1>1, <2>1, <2>3
      <3>3. (s \ {y}) \ {x} = (s \ {x}) \ {y}
        OBVIOUS
      <3>4. (s \ {x}) \ {y} \in SUBSET D /\ x \in D /\ y \in D
        BY <2>1
      <3>5. f[x] \in Nat /\ f[y] \in Nat
        BY <3>4
      <3>6. G[(s \ {x}) \ {y}] \in Nat
        BY <3>4, <1>t
      <3> QED  BY <2>1, <3>1, <3>2, <3>3, <3>5, <3>6
    <2> QED  BY <2>2, <2>3
  <1>2. Q = SUBSET D
    <2>1. Q \in SUBSET (SUBSET D)
      OBVIOUS
    <2> HIDE DEF Q
    <2> QED  BY <1>1, <2>1, SubsetInduction
  <1> QED  BY <1>0, <1>2, <1>t DEF Adds

LEMMA SumExists ==
    ASSUME NEW D, IsFiniteSet(D), NEW f \in [D -> Nat]
    PROVE  \E G \in [SUBSET D -> Nat] : Adds(G, f, D)
  BY SumUnfolds, UnfoldsAdds

\* Sums over two sets, of two functions that agree.
LEMMA SumSame ==
    ASSUME NEW D, IsFiniteSet(D), NEW f, NEW G, Adds(G, f, D),
           NEW T, IsFiniteSet(T), NEW h, NEW H, Adds(H, h, T),
           NEW S \in SUBSET D, S \subseteq T, f \in [D -> Nat], h \in [T -> Nat],
           \A x \in S : f[x] = h[x]
    PROVE  G[S] = H[S]
  <1> DEFINE Q == {s \in SUBSET S : G[s] = H[s]}
  <1>0. IsFiniteSet(S)
    BY FS_Subset
  <1>1. ASSUME NEW s \in SUBSET S, \A x \in s : s \ {x} \in Q  PROVE s \in Q
    <2>1. CASE s = {}
      BY <2>1 DEF Adds
    <2>2. CASE s # {}
      <3>1. PICK x \in s : TRUE
        BY <2>2
      <3>2. G[s] = f[x] + G[s \ {x}]
        BY <3>1 DEF Adds
      <3>3. H[s] = h[x] + H[s \ {x}]
        BY <3>1 DEF Adds
      <3>4. G[s \ {x}] = H[s \ {x}] /\ f[x] = h[x]
        BY <1>1, <3>1
      <3> QED  BY <3>2, <3>3, <3>4
    <2> QED  BY <2>1, <2>2
  <1>2. Q = SUBSET S
    <2>1. Q \in SUBSET (SUBSET S)
      OBVIOUS
    <2> HIDE DEF Q
    <2> QED  BY <1>0, <1>1, <2>1, SubsetInduction
  <1> QED  BY <1>2

\* A larger set and larger terms give a larger sum.
LEMMA SumGrows ==
    ASSUME NEW D, IsFiniteSet(D), NEW f \in [D -> Nat], NEW G, Adds(G, f, D),
           NEW h \in [D -> Nat], NEW H, Adds(H, h, D), 
           NEW S \in SUBSET D, NEW T \in SUBSET D, S \subseteq T,
           \A x \in S : f[x] <= h[x]
    PROVE  G[S] <= H[T]
  <1> DEFINE Q == {t \in SUBSET D : G[t \cap S] <= H[t]}
  <1>1. ASSUME NEW t \in SUBSET D, \A x \in t : t \ {x} \in Q  PROVE t \in Q
    <2>1. CASE t = {}
      BY <2>1 DEF Adds
    <2>2. CASE t # {}
      <3>1. PICK x \in t : TRUE
        BY <2>2
      <3>2. H[t] = h[x] + H[t \ {x}] /\ H[t \ {x}] \in Nat /\ h[x] \in Nat
        BY <3>1 DEF Adds
      <3>3. G[(t \ {x}) \cap S] <= H[t \ {x}]
        BY <1>1, <3>1
      <3>4. G[(t \ {x}) \cap S] \in Nat
        BY DEF Adds
      <3>5. CASE x \in S
        <4>1. G[t \cap S] = f[x] + G[(t \cap S) \ {x}]
          BY <3>1, <3>5 DEF Adds
        <4>2. (t \cap S) \ {x} = (t \ {x}) \cap S
          OBVIOUS
        <4>3. f[x] <= h[x] /\ f[x] \in Nat
          BY <3>5
        <4> QED  BY <4>1, <4>2, <4>3, <3>2, <3>3, <3>4
      <3>6. CASE x \notin S
        <4>1. t \cap S = (t \ {x}) \cap S
          BY <3>6
        <4> QED  BY <4>1, <3>2, <3>3, <3>4
      <3> QED  BY <3>5, <3>6
    <2> QED  BY <2>1, <2>2
  <1>2. Q = SUBSET D
    <2>1. Q \in SUBSET (SUBSET D)
      OBVIOUS
    <2> HIDE DEF Q
    <2> QED  BY <1>1, <2>1, SubsetInduction
  <1>3. T \cap S = S
    OBVIOUS
  <1>4. G[T \cap S] <= H[T]
    BY <1>2
  <1> QED  BY <1>3, <1>4

\* One term larger by one.
LEMMA SumOneMore ==
    ASSUME NEW D, IsFiniteSet(D), NEW f \in [D -> Nat], NEW G, Adds(G, f, D),
           NEW h \in [D -> Nat], NEW H, Adds(H, h, D), NEW k \in D,
           h[k] = f[k] + 1, \A x \in D : x # k => h[x] = f[x],
           NEW S \in SUBSET D, k \in S
    PROVE  H[S] = G[S] + 1
  <1>1. G[S] = f[k] + G[S \ {k}] /\ H[S] = h[k] + H[S \ {k}]
    BY DEF Adds
  <1>2. H[S \ {k}] = G[S \ {k}]
    <2>1. S \ {k} \in SUBSET D /\ S \ {k} \subseteq D /\ \A x \in S \ {k} : h[x] = f[x]
      OBVIOUS
    <2> QED  BY <2>1, SumSame
  <1>3. f[k] \in Nat /\ G[S \ {k}] \in Nat
    BY DEF Adds
  <1> QED  BY <1>1, <1>2, <1>3

\* Terms that are zero may be left out.
LEMMA SumOfRest ==
    ASSUME NEW D, IsFiniteSet(D), NEW f \in [D -> Nat], NEW G, Adds(G, f, D),
           NEW S \in SUBSET D, \A x \in D \ S : f[x] = 0
    PROVE  G[D] = G[S]
  <1> DEFINE Q == {t \in SUBSET D : G[t] = G[t \cap S]}
  <1>1. ASSUME NEW t \in SUBSET D, \A x \in t : t \ {x} \in Q  PROVE t \in Q
    <2>1. CASE t \subseteq S
      <3>1. t \cap S = t
        BY <2>1
      <3> QED  BY <3>1
    <2>2. CASE ~(t \subseteq S)
      <3>1. PICK x \in t : x \notin S
        BY <2>2
      <3>2. G[t] = f[x] + G[t \ {x}] /\ f[x] = 0 /\ G[t \ {x}] \in Nat
        BY <3>1 DEF Adds
      <3>3. (t \ {x}) \cap S = t \cap S
        BY <3>1
      <3>4. G[t \ {x}] = G[(t \ {x}) \cap S]
        BY <1>1, <3>1
      <3>5. G[t] = G[t \ {x}]
        BY <3>2
      <3> QED  BY <3>3, <3>4, <3>5
    <2> QED  BY <2>1, <2>2
  <1>2. Q = SUBSET D
    <2>1. Q \in SUBSET (SUBSET D)
      OBVIOUS
    <2> HIDE DEF Q
    <2> QED  BY <1>1, <2>1, SubsetInduction
  <1>3. D \cap S = S /\ D \in SUBSET D
    OBVIOUS
  <1>4. G[D] = G[D \cap S]
    BY <1>2, <1>3
  <1> QED  BY <1>3, <1>4

\* The recursion of MapThenSumSet over a part of D, as it is written there.
Iterates(I, f, S) ==
    I = [s \in SUBSET S |-> IF s = {} THEN 0
            ELSE f[CHOOSE x \in s : TRUE] + I[s \ {CHOOSE x \in s : TRUE}]]

LEMMA FoldExists ==
    ASSUME NEW D, IsFiniteSet(D), NEW f \in [D -> Nat], NEW S \in SUBSET D
    PROVE  \E I : Iterates(I, f, S)
  <1> DEFINE g == [x \in S |-> f[x]]
  <1>1. IsFiniteSet(S) /\ g \in [S -> Nat]
    BY FS_Subset
  <1>2. PICK I \in [SUBSET S -> Nat] : Unfolds(I, g, S)
    <2> HIDE DEF g
    <2> QED  BY <1>1, SumUnfolds
  <1>3. ASSUME NEW s \in SUBSET S, s # {}  PROVE g[Chosen(s)] = f[Chosen(s)]
    BY <1>3, ChosenIn
  <1>4. I = [s \in SUBSET S |-> IF s = {} THEN 0
                 ELSE f[CHOOSE x \in s : TRUE] + I[s \ {CHOOSE x \in s : TRUE}]]
    BY <1>2, <1>3 DEF Unfolds, Chosen
  <1> QED  BY <1>4 DEF Iterates

LEMMA FoldAdds ==
    ASSUME NEW D, IsFiniteSet(D), NEW f \in [D -> Nat], NEW G, Adds(G, f, D),
           NEW S \in SUBSET D, \A x \in D \ S : f[x] = 0,
           NEW I, Iterates(I, f, S)
    PROVE  I[S] = G[D]
  <1> DEFINE g == [x \in S |-> f[x]]
  <1>1. IsFiniteSet(S) /\ g \in [S -> Nat] /\ \A x \in S : g[x] = f[x]
    BY FS_Subset
  <1>2. ASSUME NEW s \in SUBSET S, s # {}  PROVE g[Chosen(s)] = f[Chosen(s)]
    BY <1>2, ChosenIn
  <1> HIDE DEF g
  <1>3. Unfolds(I, g, S)
    <2>1. I = [s \in SUBSET S |-> IF s = {} THEN 0 ELSE f[Chosen(s)] + I[s \ {Chosen(s)}]]
      BY DEF Chosen, Iterates
    <2> QED  BY <1>2, <2>1, Zenon DEF Unfolds
  <1>4. Adds(I, g, S)
    BY <1>1, <1>3, UnfoldsAdds
  <1>5. I[S] = G[S]
    BY <1>1, <1>4, SumSame
  <1>6. G[D] = G[S]
    BY SumOfRest
  <1> QED  BY <1>5, <1>6

\* The fold of the community modules is such a sum.
SumOf(f, S) == MapThenSumSet(LAMBDA x : f[x], S)

LEMMA SumIsFold ==
    ASSUME NEW D, IsFiniteSet(D), NEW f \in [D -> Nat], NEW G, Adds(G, f, D),
           NEW S \in SUBSET D
    PROVE  SumOf(f, S) = G[S]
  <1> DEFINE iter[s \in SUBSET S] ==
               IF s = {} THEN 0
               ELSE f[CHOOSE x \in s : TRUE] + iter[s \ {CHOOSE x \in s : TRUE}]
             g == [x \in S |-> f[x]]
  <1>1. SumOf(f, S) = iter[S]
    BY Zenon DEF SumOf, MapThenSumSet, MapThenFoldSet
  <1>2. IsFiniteSet(S) /\ g \in [S -> Nat] /\ \A x \in S : g[x] = f[x]
    BY FS_Subset
  <1>3. ASSUME NEW s \in SUBSET S, s # {}  PROVE g[Chosen(s)] = f[Chosen(s)]
    BY <1>3, ChosenIn
  <1>4. iter = [s \in SUBSET S |-> IF s = {} THEN 0
                 ELSE f[CHOOSE x \in s : TRUE] + iter[s \ {CHOOSE x \in s : TRUE}]]
    <2>1. PICK I : Iterates(I, f, S)
      BY FoldExists
    <2> QED  BY <2>1 DEF Iterates
  <1> HIDE DEF iter, g
  <1>5. Unfolds(iter, g, S)
    BY <1>3, <1>4 DEF Unfolds, Chosen
  <1>6. Adds(iter, g, S)
    BY <1>2, <1>5, UnfoldsAdds
  <1>7. iter[S] = G[S]
    BY <1>2, <1>6, SumSame
  <1> QED  BY <1>1, <1>7

-----------------------------------------------------------------------------
\* The same facts of SumOf.
Sums(f, D) == [S \in SUBSET D |-> SumOf(f, S)]

LEMMA SumsAdd ==
    ASSUME NEW D, IsFiniteSet(D), NEW f \in [D -> Nat]
    PROVE  Adds(Sums(f, D), f, D)
  <1>1. PICK G \in [SUBSET D -> Nat] : Adds(G, f, D)
    BY SumExists
  <1>2. \A S \in SUBSET D : SumOf(f, S) = G[S]
    BY <1>1, SumIsFold
  <1>3. Sums(f, D) = G
    BY <1>2 DEF Sums
  <1> QED  BY <1>1, <1>3

LEMMA TotalTyped ==
    ASSUME NEW D, IsFiniteSet(D), NEW f \in [D -> Nat], NEW S \in SUBSET D
    PROVE  SumOf(f, S) \in Nat /\ SumOf(f, S) = Sums(f, D)[S]
  <1>1. Adds(Sums(f, D), f, D)
    BY SumsAdd
  <1>2. Sums(f, D)[S] \in Nat
    BY <1>1 DEF Adds
  <1> QED  BY <1>2 DEF Sums

\* The same terms give the same sum; more terms, of zero, do as well.
LEMMA TotalSame ==
    ASSUME NEW D, IsFiniteSet(D), NEW f \in [D -> Nat], NEW S \in SUBSET D,
           NEW T, IsFiniteSet(T), NEW h \in [T -> Nat], S \subseteq T,
           \A x \in S : f[x] = h[x], \A x \in T \ S : h[x] = 0
    PROVE  SumOf(f, S) = SumOf(h, T)
  <1>1. Adds(Sums(f, D), f, D) /\ Adds(Sums(h, T), h, T)
    BY SumsAdd
  <1>2. Sums(f, D)[S] = Sums(h, T)[S]
    BY <1>1, SumSame
  <1>3. Sums(h, T)[T] = Sums(h, T)[S]
    BY <1>1, SumOfRest
  <1> QED  BY <1>2, <1>3 DEF Sums

LEMMA TotalZero ==
    ASSUME NEW D, IsFiniteSet(D), NEW f \in [D -> Nat], NEW S \in SUBSET D,
           \A x \in S : f[x] = 0
    PROVE  SumOf(f, S) = 0
  <1> DEFINE g == [x \in S |-> 0]
             Z == [s \in SUBSET S |-> 0]
  <1>1. Adds(Z, g, S) /\ g \in [S -> Nat] /\ IsFiniteSet(S) /\ Z[S] = 0
    BY FS_Subset DEF Adds
  <1>2. \A x \in S : f[x] = g[x]
    OBVIOUS
  <1> HIDE DEF g, Z
  <1>3. Adds(Sums(f, D), f, D)
    BY SumsAdd
  <1>4. Sums(f, D)[S] = Z[S]
    BY <1>1, <1>2, <1>3, SumSame
  <1> QED  BY <1>1, <1>4 DEF Sums

\* Larger terms give a larger sum; one larger by one gives one more.
LEMMA TotalGrows ==
    ASSUME NEW D, IsFiniteSet(D), NEW f \in [D -> Nat], NEW h \in [D -> Nat],
           NEW S \in SUBSET D, \A x \in S : f[x] <= h[x]
    PROVE  SumOf(f, S) <= SumOf(h, S)
  <1>1. Adds(Sums(f, D), f, D) /\ Adds(Sums(h, D), h, D)
    BY SumsAdd
  <1>2. Sums(f, D)[S] <= Sums(h, D)[S]
    BY <1>1, SumGrows
  <1> QED  BY <1>2 DEF Sums

LEMMA TotalOneMore ==
    ASSUME NEW D, IsFiniteSet(D), NEW f \in [D -> Nat], NEW h \in [D -> Nat],
           NEW k \in D, h[k] = f[k] + 1, \A x \in D : x # k => h[x] = f[x],
           NEW S \in SUBSET D
    PROVE  SumOf(h, S) = SumOf(f, S) + (IF k \in S THEN 1 ELSE 0)
  <1>1. Adds(Sums(f, D), f, D) /\ Adds(Sums(h, D), h, D)
    BY SumsAdd
  <1>2. SumOf(f, S) = Sums(f, D)[S] /\ SumOf(h, S) = Sums(h, D)[S] /\ SumOf(f, S) \in Nat
    BY TotalTyped
  <1>3. CASE k \in S
    <2>1. Sums(h, D)[S] = Sums(f, D)[S] + 1
      BY <1>1, <1>3, SumOneMore
    <2> QED  BY <1>2, <1>3, <2>1
  <1>4. CASE k \notin S
    <2>1. \A x \in S : f[x] = h[x]
      BY <1>4
    <2>2. S \subseteq D
      OBVIOUS
    <2>3. Sums(f, D)[S] = Sums(h, D)[S]
      BY <1>1, <2>1, <2>2, SumSame
    <2> QED  BY <1>2, <1>4, <2>3
  <1> QED  BY <1>3, <1>4
=============================================================================
