------------------------------- MODULE Induction -------------------------------
(***************************************************************************)
(* Induction and recursion stated with sets and functions in the place of  *)
(* predicates and operators: what is proved of all elements of a           *)
(* well-founded set, and that a recursive definition over one has a        *)
(* solution.                                                               *)
(***************************************************************************)
EXTENDS Naturals, Sequences, SequencesExt, WellFoundedInduction, TLAPS

\* below[x]: what x is made of.  No set of elements is made of its own members
\* for ever.
Founded(S, below) ==
    /\ below \in [S -> SUBSET S]
    /\ \A T \in SUBSET S : T # {} => \E x \in T : below[x] \cap T = {}

\* The step of a recursive definition: F[x][f] is the value at x, given those
\* that f has below it.
Stepwise(S, below, V, F) ==
    /\ F \in [S -> [[S -> V] -> V]]
    /\ \A x \in S : \A g, h \in [S -> V] :
          (\A y \in below[x] : g[y] = h[y]) => F[x][g] = F[x][h]

\* A solution on a part D of S that is closed under below.
Attempt(S, below, V, F, D, g) ==
    /\ D \in SUBSET S /\ g \in [S -> V]
    /\ \A x \in D : below[x] \subseteq D /\ g[x] = F[x][g]

\* Two of them agree where both are defined.
LEMMA AttemptsAgree ==
    ASSUME NEW S, NEW below, Founded(S, below), NEW V, NEW F, Stepwise(S, below, V, F),
           NEW D, NEW E, NEW g, NEW h,
           Attempt(S, below, V, F, D, g), Attempt(S, below, V, F, E, h)
    PROVE  \A x \in D \cap E : g[x] = h[x]
<1> DEFINE T == {y \in D \cap E : g[y] # h[y]}
<1>1. SUFFICES ASSUME T # {}
               PROVE  FALSE
      OBVIOUS
<1>2. T \in SUBSET S
      BY DEF Attempt
<1>3. PICK y \in T : below[y] \cap T = {}
      BY <1>1, <1>2 DEF Founded
<1>4. y \in S /\ y \in D \cap E /\ below[y] \subseteq D \cap E /\ g[y] # h[y]
      BY <1>3 DEF Attempt
<1>5. \A z \in below[y] : g[z] = h[z]
      BY <1>3, <1>4
<1>6. F[y][g] = F[y][h]
      BY <1>4, <1>5 DEF Stepwise, Attempt
<1> QED
    BY <1>4, <1>6 DEF Attempt

\* Every recursive definition of this kind has a solution.
LEMMA Recursion ==
    ASSUME NEW S, NEW below, Founded(S, below), NEW V, NEW v0 \in V,
           NEW F, Stepwise(S, below, V, F)
    PROVE  \E f \in [S -> V] : \A x \in S : f[x] = F[x][f]
<1> DEFINE Tries(D, g) == Attempt(S, below, V, F, D, g)
           G == {x \in S : \E D, g : Tries(D, g) /\ x \in D}
<1>1. \A D, E, g, h : Tries(D, g) /\ Tries(E, h) => \A x \in D \cap E : g[x] = h[x]
      BY AttemptsAgree
<1>2. PICK f \in [S -> V] : \A D, g : Tries(D, g) => \A x \in D : f[x] = g[x]
  <2> HIDE DEF Tries
  <2> DEFINE Value(x, v) == \E D, g : Tries(D, g) /\ x \in D /\ v = g[x]
             f == [x \in S |-> IF \E v \in V : Value(x, v) THEN CHOOSE v \in V : Value(x, v) ELSE v0]
  <2>1. \A x \in S : f[x] \in V
        OBVIOUS
  <2>2. f \in [S -> V]
        BY <2>1
  <2>3. ASSUME NEW D, NEW g, Tries(D, g), NEW x \in D
        PROVE  f[x] = g[x]
    <3>1. x \in S /\ g[x] \in V /\ Value(x, g[x])
          BY <2>3 DEF Tries, Attempt
    <3>2. \A v : Value(x, v) => v = g[x]
          BY <1>1, <2>3
    <3> HIDE DEF Value
    <3> QED
        BY <3>1, <3>2
  <2> HIDE DEF f
  <2> QED
      BY <2>2, <2>3
<1>3. \A D, g : Tries(D, g) => D \subseteq G
      BY DEF Attempt
<1>4. \A x \in G : \E D, g : Tries(D, g) /\ x \in D
      OBVIOUS
<1>5. G \in SUBSET S
      OBVIOUS
<1> HIDE DEF G
<1>6. \A x \in G : below[x] \subseteq G /\ f[x] = F[x][f]
  <2> SUFFICES ASSUME NEW x \in G
               PROVE  below[x] \subseteq G /\ f[x] = F[x][f]
      OBVIOUS
  <2>1. PICK D, g : Tries(D, g) /\ x \in D
        BY <1>4
  <2>2. below[x] \subseteq D /\ g[x] = F[x][g] /\ g \in [S -> V]
        BY <2>1 DEF Attempt
  <2>3. D \subseteq G /\ \A y \in D : f[y] = g[y]
        BY <1>2, <1>3, <2>1
  <2>4. F[x][f] = F[x][g]
        BY <1>5, <2>2, <2>3 DEF Stepwise
  <2> QED
      BY <2>1, <2>2, <2>3, <2>4
<1>7. G = S
  <2> SUFFICES ASSUME G # S
               PROVE  FALSE
      OBVIOUS
  <2>1. S \ G # {} /\ S \ G \in SUBSET S
        BY <1>5
  <2>2. PICK e \in S \ G : below[e] \cap (S \ G) = {}
        BY <2>1 DEF Founded
  <2>3. below[e] \subseteq G
        BY <2>2 DEF Founded
  <2> DEFINE h == [x \in S |-> IF x = e THEN F[e][f] ELSE f[x]]
  <2>4. h \in [S -> V]
    <3>1. F[e][f] \in V
          BY DEF Stepwise
    <3> QED
        BY <3>1
  <2>5. h[e] = F[e][f] /\ \A x \in G : h[x] = f[x]
        BY <1>5, <2>2
  <2> HIDE DEF h
  <2>6. \A x \in G \cup {e} : x \in S /\ below[x] \subseteq G
        BY <1>5, <1>6, <2>3
  <2>7. \A x \in G \cup {e} : F[x][h] = F[x][f]
    <3> SUFFICES ASSUME NEW x \in G \cup {e}
                 PROVE  F[x][h] = F[x][f]
        OBVIOUS
    <3>1. x \in S /\ \A y \in below[x] : h[y] = f[y]
          BY <2>5, <2>6
    <3> QED
        BY <2>4, <3>1 DEF Stepwise
  <2>8. G \cup {e} \in SUBSET S
        BY <1>5
  <2>9. \A x \in G \cup {e} : below[x] \subseteq G \cup {e} /\ h[x] = F[x][h]
        BY <1>6, <2>5, <2>6, <2>7
  <2>10. Tries(G \cup {e}, h)
        BY <2>4, <2>8, <2>9 DEF Attempt
  <2> QED
      BY <1>3, <2>2, <2>10
<1> QED
    BY <1>6, <1>7

----------------------------------------------------------------------------
(* Numbers *)

LEMMA Least ==
    ASSUME NEW T \in SUBSET Nat, T # {}
    PROVE  \E m \in T : \A n \in T : m <= n
<1>1. PICK m \in T : \A n \in T : ~(<<n, m>> \in OpToRel(<, Nat))
      BY WFMin, NatLessThanWellFounded
<1>2. \A n \in T : ~(n < m)
      BY <1>1 DEF OpToRel
<1> QED
    BY <1>2

LEMMA Predecessors ==
    ASSUME NEW n \in Nat
    PROVE  Founded(1..n, [i \in 1..n |-> {i - 1} \cap (1..n)])
<1> DEFINE below == [i \in 1..n |-> {i - 1} \cap (1..n)]
<1>1. ASSUME NEW T \in SUBSET (1..n), T # {}
      PROVE  \E x \in T : below[x] \cap T = {}
  <2>1. PICK m \in T : \A k \in T : m <= k
        BY <1>1, Least
  <2> QED
      BY <2>1
<1> QED
    BY <1>1 DEF Founded

----------------------------------------------------------------------------
(* Sequences of sequences *)

\* g[i] is the first i of them joined, as in the definition of FlattenSeq.
Joins(ss, g) ==
    g = [i \in 1..Len(ss) |-> IF i = 1 THEN ss[i] ELSE g[i - 1] \o ss[i]]

LEMMA CanBeJoined ==
    ASSUME NEW T, NEW ss \in Seq(Seq(T))
    PROVE  \E g : Joins(ss, g)
<1> DEFINE n == Len(ss)
           below == [i \in 1..n |-> {i - 1} \cap (1..n)]
           F == [i \in 1..n |-> [f \in [1..n -> Seq(T)] |-> IF i = 1 THEN ss[i]
                                                            ELSE f[i - 1] \o ss[i]]]
<1>1. n \in Nat /\ \A i \in 1..n : ss[i] \in Seq(T)
      OBVIOUS
<1>2. \A i \in 1..n : below[i] = {i - 1} \cap (1..n)
      OBVIOUS
<1>3. \A i \in 1..n, f \in [1..n -> Seq(T)] :
          F[i][f] = IF i = 1 THEN ss[i] ELSE f[i - 1] \o ss[i]
      OBVIOUS
<1>4. F \in [1..n -> [[1..n -> Seq(T)] -> Seq(T)]]
  <2>1. ASSUME NEW i \in 1..n, NEW f \in [1..n -> Seq(T)]
        PROVE  (IF i = 1 THEN ss[i] ELSE f[i - 1] \o ss[i]) \in Seq(T)
    <3>1. CASE i = 1
          BY <1>1, <3>1
    <3>2. CASE i # 1
      <4>1. i - 1 \in 1..n
            BY <1>1, <3>2
      <4>2. f[i - 1] \in Seq(T) /\ ss[i] \in Seq(T)
            BY <1>1, <4>1
      <4>3. f[i - 1] \o ss[i] \in Seq(T)
            BY <4>2
      <4> QED
          BY <3>2, <4>3
    <3> QED
        BY <3>1, <3>2
  <2> QED
      BY <2>1
<1>5. Founded(1..n, below)
      BY <1>1, Predecessors
<1> HIDE DEF n, below, F
<1>6. Stepwise(1..n, below, Seq(T), F)
  <2>1. ASSUME NEW i \in 1..n, NEW g \in [1..n -> Seq(T)], NEW h \in [1..n -> Seq(T)],
               \A j \in below[i] : g[j] = h[j]
        PROVE  F[i][g] = F[i][h]
    <3>1. i # 1 => i - 1 \in 1..n
          BY <1>1
    <3>2. i # 1 => g[i - 1] = h[i - 1]
          BY <1>2, <2>1, <3>1
    <3>3. /\ F[i][g] = IF i = 1 THEN ss[i] ELSE g[i - 1] \o ss[i]
          /\ F[i][h] = IF i = 1 THEN ss[i] ELSE h[i - 1] \o ss[i]
          BY <1>3
    <3> QED
        BY <3>2, <3>3
  <2> QED
      BY <1>4, <2>1 DEF Stepwise
<1>7. PICK f \in [1..n -> Seq(T)] : \A i \in 1..n : f[i] = F[i][f]
  <2>1. <<>> \in Seq(T)
        OBVIOUS
  <2> DEFINE V == Seq(T)
             S == 1..n
  <2>2. Stepwise(S, below, V, F) /\ Founded(S, below) /\ <<>> \in V
        BY <1>5, <1>6, <2>1
  <2> HIDE DEF V, S
  <2>3. \E f \in [S -> V] : \A i \in S : f[i] = F[i][f]
        BY <2>2, Recursion
  <2> QED
      BY <2>3 DEF V, S
<1>8. \A i \in 1..n : f[i] = IF i = 1 THEN ss[i] ELSE f[i - 1] \o ss[i]
      BY <1>3, <1>7
<1>9. Joins(ss, f)
      BY <1>8 DEF Joins, n
<1> QED
    BY <1>9

LEMMA ConcatElements ==
    ASSUME NEW T, NEW a \in Seq(T), NEW b \in Seq(T)
    PROVE  a \o b \in Seq(T) /\ ToSet(a \o b) = ToSet(a) \cup ToSet(b)
<1>1. /\ a \o b \in Seq(T) /\ Len(a \o b) = Len(a) + Len(b)
      /\ \A i \in 1..Len(a \o b) : (a \o b)[i] = IF i <= Len(a) THEN a[i] ELSE b[i - Len(a)]
      OBVIOUS
<1>2. /\ ToSet(a) = {a[i] : i \in 1..Len(a)} /\ ToSet(b) = {b[i] : i \in 1..Len(b)}
      /\ ToSet(a \o b) = {(a \o b)[i] : i \in 1..Len(a \o b)}
      BY <1>1 DEF ToSet
<1>3. ASSUME NEW i \in 1..Len(a)
      PROVE  i \in 1..Len(a \o b) /\ a[i] = (a \o b)[i]
      BY <1>1
<1>4. ASSUME NEW i \in 1..Len(b)
      PROVE  Len(a) + i \in 1..Len(a \o b) /\ b[i] = (a \o b)[Len(a) + i]
      BY <1>1
<1>5. ASSUME NEW i \in 1..Len(a \o b)
      PROVE  \/ i \in 1..Len(a) /\ (a \o b)[i] = a[i]
             \/ i - Len(a) \in 1..Len(b) /\ (a \o b)[i] = b[i - Len(a)]
      BY <1>1
<1> DEFINE c == a \o b
<1> HIDE DEF c
<1>6. {c[i] : i \in 1..Len(c)} = {a[i] : i \in 1..Len(a)} \cup {b[i] : i \in 1..Len(b)}
      BY ONLY <1>3, <1>4, <1>5 DEF c
<1> QED
    BY <1>1, <1>2, <1>6 DEF c

LEMMA JoinedElements ==
    ASSUME NEW T, NEW ss \in Seq(Seq(T)), NEW g, Joins(ss, g), NEW i \in 1..Len(ss)
    PROVE  /\ g[i] \in Seq(T)
           /\ \A x : x \in ToSet(g[i]) <=> \E j \in 1..i : x \in ToSet(ss[j])
<1> DEFINE Good(k) == /\ g[k] \in Seq(T)
                      /\ \A x : x \in ToSet(g[k]) <=> \E j \in 1..k : x \in ToSet(ss[j])
           bad == {k \in 1..Len(ss) : ~Good(k)}
<1>1. Len(ss) \in Nat /\ \A k \in 1..Len(ss) : ss[k] \in Seq(T)
      OBVIOUS
<1>2. \A k \in 1..Len(ss) : g[k] = IF k = 1 THEN ss[k] ELSE g[k - 1] \o ss[k]
      BY DEF Joins
<1>3. SUFFICES ASSUME bad # {}
               PROVE  FALSE
      OBVIOUS
<1>4. bad \in SUBSET Nat /\ bad \in SUBSET (1..Len(ss))
      BY <1>1
<1>5. \A k \in 1..Len(ss) : k \notin bad <=> Good(k)
      OBVIOUS
<1> HIDE DEF bad
<1>6. PICK m \in bad : \A k \in bad : m <= k
      BY <1>3, <1>4, Least
<1> HIDE DEF Good
<1>7. m \in 1..Len(ss) /\ ~Good(m) /\ \A k \in 1..Len(ss) : k < m => Good(k)
      BY <1>1, <1>4, <1>5, <1>6
<1>8. CASE m = 1
  <2>1. g[m] = ss[m] /\ ss[m] \in Seq(T) /\ \A j : j \in 1..m <=> j = m
        BY <1>1, <1>2, <1>7, <1>8
  <2>2. Good(m)
    <3>1. \A x : x \in ToSet(ss[m]) <=> \E j \in 1..m : x \in ToSet(ss[j])
          BY ONLY <2>1
    <3> QED
        BY ONLY <2>1, <3>1 DEF Good
  <2> QED
      BY <1>7, <2>2
<1>9. CASE m # 1
  <2>1. m - 1 \in 1..Len(ss) /\ m - 1 < m
        BY <1>1, <1>7, <1>9
  <2>2. \A j : j \in 1..m <=> j = m \/ j \in 1..(m - 1)
        BY <1>1, <1>7, <1>9
  <2>3. Good(m - 1)
        BY <1>7, <2>1
  <2>4. g[m] = g[m - 1] \o ss[m] /\ ss[m] \in Seq(T)
        BY <1>1, <1>2, <1>7, <1>9
  <2>5. g[m] \in Seq(T) /\ ToSet(g[m]) = ToSet(g[m - 1]) \cup ToSet(ss[m])
        BY <2>3, <2>4, ConcatElements DEF Good
  <2>6. Good(m)
        BY <2>2, <2>3, <2>5 DEF Good
  <2> QED
      BY <1>7, <2>6
<1> QED
    BY <1>8, <1>9

\* FlattenSeq yields the elements of all of them and nothing else.
LEMMA Flattened ==
    ASSUME NEW T, NEW ss \in Seq(Seq(T))
    PROVE  /\ FlattenSeq(ss) \in Seq(T)
           /\ \A x : x \in ToSet(FlattenSeq(ss)) <=> \E i \in 1..Len(ss) : x \in ToSet(ss[i])
<1>1. Len(ss) \in Nat
      OBVIOUS
<1>2. CASE Len(ss) = 0
  <2>1. FlattenSeq(ss) = ss /\ ss \in Seq(T) /\ ToSet(ss) = {} /\ 1..Len(ss) = {}
        BY <1>2 DEF FlattenSeq, ToSet
  <2> QED
      BY <2>1
<1>3. CASE Len(ss) # 0
  <2> DEFINE g == CHOOSE g : Joins(ss, g)
  <2>1. Joins(ss, g)
        BY CanBeJoined
  <2>2. FlattenSeq(ss) = g[Len(ss)]
        BY <1>3 DEF FlattenSeq, Joins
  <2> HIDE DEF g
  <2>3. Len(ss) \in 1..Len(ss)
        BY <1>1, <1>3
  <2>4. /\ g[Len(ss)] \in Seq(T)
        /\ \A x : x \in ToSet(g[Len(ss)]) <=> \E j \in 1..Len(ss) : x \in ToSet(ss[j])
        BY <2>1, <2>3, JoinedElements
  <2> QED
      BY <2>2, <2>4
<1> QED
    BY <1>2, <1>3
===============================================================================
