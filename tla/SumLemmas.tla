------------------------------ MODULE SumLemmas ------------------------------
(***************************************************************************)
(* What MapThenSumSet of FiniteSetsExt returns, over a finite set: it      *)
(* unfolds one element at a time, stays a natural number, depends only on  *)
(* the terms, and moves by the difference when one term changes.  The      *)
(* ledgers' proofs use these facts and never look inside the fold.         *)
(*                                                                         *)
(* The induction is a minimal counterexample among the subsets of the set, *)
(* which the library's theorem on strict subsets gives.                    *)
(***************************************************************************)
EXTENDS FiniteSetsExt, FiniteSetTheorems, TLAPS

SumOver(g, S) == MapThenSumSet(LAMBDA x : g[x], S)

Pick(s) == CHOOSE x \in s : TRUE

(* The recursive function behind the fold of g over S. *)
IsFold(f, g, S) ==
  f = [s \in SUBSET S |-> IF s = {} THEN 0 ELSE g[Pick(s)] + f[s \ {Pick(s)}]]

(* The set has a member that none of its other members is a strict subset of. *)
LEMMA MinimalSubset ==
  ASSUME NEW S, IsFiniteSet(S), NEW T, T \subseteq SUBSET S, T # {}
  PROVE  \E U \in T : \A V \in T : V \subseteq U => V = U
  <1>1. FiniteSubsetsOf(S) = SUBSET S
    BY FS_FiniteSubsetsOfFinite
  <1>2. IsWellFoundedOn(StrictSubsetOrdering(S), SUBSET S)
    BY <1>1, FS_StrictSubsetOrderingWellFounded
  <1>3. PICK U \in T : \A V \in T : ~(<<V, U>> \in StrictSubsetOrdering(S))
    BY <1>2, WFMin
  <1>4. ASSUME NEW V \in T, V \subseteq U PROVE V = U
    <2>1. V \in SUBSET S /\ U \in SUBSET S
      OBVIOUS
    <2>2. SUFFICES ASSUME V # U PROVE FALSE
      OBVIOUS
    <2>3. <<V, U>> \in StrictSubsetOrdering(S)
      BY <1>4, <2>1, <2>2 DEF StrictSubsetOrdering
    <2> QED BY <1>3, <2>3
  <1> QED BY <1>4

LEMMA PickIn ==
  ASSUME NEW S, S # {}
  PROVE  Pick(S) \in S
  BY DEF Pick

(* Two folds of the same terms agree on every subset both know.            *)
LEMMA FoldUnique ==
  ASSUME NEW S, IsFiniteSet(S), NEW A, NEW B, S \subseteq A, S \subseteq B,
         NEW f, NEW h, NEW g, NEW k, IsFold(f, g, A), IsFold(h, k, B),
         \A x \in S : g[x] = k[x]
  PROVE  f[S] = h[S]
  <1> DEFINE T == {U \in SUBSET S : f[U] # h[U]}
  <1>1. SUFFICES ASSUME T # {} PROVE FALSE
    OBVIOUS
  <1>2. PICK U \in T : \A V \in T : V \subseteq U => V = U
    <2>1. T \subseteq SUBSET S
      OBVIOUS
    <2> HIDE DEF T
    <2> QED BY <1>1, <2>1, MinimalSubset
  <1>3. U \in SUBSET A /\ U \in SUBSET B /\ U \in SUBSET S
    OBVIOUS
  <1>4. f[U] = IF U = {} THEN 0 ELSE g[Pick(U)] + f[U \ {Pick(U)}]
    BY <1>3 DEF IsFold
  <1>5. h[U] = IF U = {} THEN 0 ELSE k[Pick(U)] + h[U \ {Pick(U)}]
    BY <1>3 DEF IsFold
  <1>6. U # {}
    BY <1>4, <1>5
  <1>7. Pick(U) \in U
    BY <1>6, PickIn
  <1>8. U \ {Pick(U)} \notin T
    BY <1>2, <1>7
  <1>9. f[U \ {Pick(U)}] = h[U \ {Pick(U)}] /\ g[Pick(U)] = k[Pick(U)]
    BY <1>3, <1>7, <1>8
  <1> QED BY <1>4, <1>5, <1>9

(* There is a fold over every finite set. *)
LEMMA FoldExists ==
  ASSUME NEW S, IsFiniteSet(S), NEW g
  PROVE  \E f : IsFold(f, g, S)
  <1> DEFINE T == {U \in SUBSET S : ~\E f : IsFold(f, g, U)}
  <1>1. SUFFICES ASSUME T # {} PROVE FALSE
    OBVIOUS
  <1>2. PICK U \in T : \A V \in T : V \subseteq U => V = U
    <2>1. T \subseteq SUBSET S
      OBVIOUS
    <2> HIDE DEF T
    <2> QED BY <1>1, <2>1, MinimalSubset
  <1> DEFINE part(V) == CHOOSE f : IsFold(f, g, V)
             whole == [s \in SUBSET U |-> IF s = {} THEN 0
                         ELSE g[Pick(s)] + part(s \ {Pick(s)})[s \ {Pick(s)}]]
  <1>3. ASSUME NEW V \in SUBSET U, V # U PROVE IsFold(part(V), g, V)
    <2>1. V \in SUBSET S /\ V \notin T
      BY <1>2, <1>3
    <2>2. \E f : IsFold(f, g, V)
      BY <2>1
    <2> QED BY <2>2, Zenon
  <1>4. ASSUME NEW s \in SUBSET U, s # {}
        PROVE  whole[s \ {Pick(s)}] = part(s \ {Pick(s)})[s \ {Pick(s)}]
    <2> DEFINE V == s \ {Pick(s)}
               W == V \ {Pick(V)}
    <2>1. Pick(s) \in s
      BY <1>4, PickIn
    <2>2. V \in SUBSET U /\ V # U /\ V \in SUBSET V
      BY <2>1
    <2>3. IsFold(part(V), g, V)
      BY <1>3, <2>2
    <2> HIDE DEF part
    <2>4. part(V)[V] = IF V = {} THEN 0 ELSE g[Pick(V)] + part(V)[W]
      BY <2>2, <2>3 DEF IsFold
    <2>5. whole[V] = IF V = {} THEN 0 ELSE g[Pick(V)] + part(W)[W]
      BY <2>2
    <2>6. CASE V = {}
      BY <2>4, <2>5, <2>6
    <2>7. CASE V # {}
      <3>1. Pick(V) \in V
        BY <2>7, PickIn
      <3>2. W \in SUBSET U /\ W # U /\ W \subseteq V
        BY <2>2, <3>1
      <3>3. IsFold(part(W), g, W)
        BY <1>3, <3>2
      <3>4. IsFiniteSet(W)
        BY <3>2, FS_Subset
      <3> HIDE DEF W, V
      <3>5. part(V)[W] = part(W)[W]
        BY <2>3, <3>2, <3>3, <3>4, FoldUnique
      <3>6. whole[V] = part(V)[V]
        <4> HIDE DEF whole
        <4> QED BY <2>4, <2>5, <3>5
      <3> QED BY <3>6 DEF V
    <2> QED BY <2>6, <2>7
  <1> HIDE DEF part
  <1>5. IsFold(whole, g, U)
    <2>1. \A s \in SUBSET U : whole[s] = IF s = {} THEN 0 ELSE g[Pick(s)] + whole[s \ {Pick(s)}]
      BY <1>4
    <2>2. whole = [s \in SUBSET U |-> whole[s]]
      OBVIOUS
    <2> HIDE DEF whole
    <2> QED BY <2>1, <2>2 DEF IsFold
  <1> QED BY <1>2, <1>5

(* The sum is what any fold over the set, or over a larger one, gives.     *)
LEMMA SumIsFold ==
  ASSUME NEW S, IsFiniteSet(S), NEW g, NEW A, S \subseteq A, NEW f, NEW k, IsFold(f, k, A),
         \A x \in S : g[x] = k[x]
  PROVE  SumOver(g, S) = f[S]
  <1> DEFINE own == CHOOSE h : IsFold(h, g, S)
  <1>1. SumOver(g, S) = own[S]
    BY Zenon DEF SumOver, MapThenSumSet, MapThenFoldSet, IsFold, Pick
  <1>2. IsFold(own, g, S)
    <2>1. \E h : IsFold(h, g, S)
      BY FoldExists
    <2> QED BY <2>1, Zenon
  <1> HIDE DEF own
  <1>3. own[S] = f[S]
    BY <1>2, FoldUnique
  <1> QED BY <1>1, <1>3

(* The sum depends on the terms of its own elements only.                  *)
LEMMA SumEqual ==
  ASSUME NEW S, IsFiniteSet(S), NEW g, NEW k, \A x \in S : g[x] = k[x]
  PROVE  SumOver(g, S) = SumOver(k, S)
  <1>1. PICK f : IsFold(f, k, S)
    BY FoldExists
  <1> QED BY <1>1, SumIsFold

LEMMA SumEmpty ==
  ASSUME NEW g
  PROVE  SumOver(g, {}) = 0
  <1>1. PICK f : IsFold(f, g, {})
    BY FoldExists, FS_EmptySet
  <1>2. SumOver(g, {}) = f[{}]
    BY <1>1, SumIsFold, FS_EmptySet
  <1> QED BY <1>1, <1>2 DEF IsFold

(* One element is taken out at a time. *)
LEMMA SumUnfold ==
  ASSUME NEW S, IsFiniteSet(S), S # {}, NEW g
  PROVE  /\ Pick(S) \in S
         /\ SumOver(g, S) = g[Pick(S)] + SumOver(g, S \ {Pick(S)})
  <1> DEFINE R == S \ {Pick(S)}
  <1>1. PICK f : IsFold(f, g, S)
    BY FoldExists
  <1>2. Pick(S) \in S
    BY PickIn
  <1>3. IsFiniteSet(R) /\ R \subseteq S
    BY FS_Subset
  <1>4. SumOver(g, S) = f[S] /\ SumOver(g, R) = f[R]
    BY <1>1, <1>3, SumIsFold
  <1>5. f[S] = g[Pick(S)] + f[R]
    BY <1>1 DEF IsFold
  <1> QED BY <1>2, <1>4, <1>5
-----------------------------------------------------------------------------
(* Sums of natural numbers.                                                *)

LEMMA SumType ==
  ASSUME NEW S, IsFiniteSet(S), NEW g, \A x \in S : g[x] \in Nat
  PROVE  SumOver(g, S) \in Nat
  <1> DEFINE T == {U \in SUBSET S : SumOver(g, U) \notin Nat}
  <1>1. SUFFICES ASSUME T # {} PROVE FALSE
    OBVIOUS
  <1>2. PICK U \in T : \A V \in T : V \subseteq U => V = U
    <2>1. T \subseteq SUBSET S
      OBVIOUS
    <2> HIDE DEF T
    <2> QED BY <1>1, <2>1, MinimalSubset
  <1>3. U # {}
    <2>1. SumOver(g, U) # 0
      BY <1>2
    <2> QED BY <2>1, SumEmpty
  <1>4. IsFiniteSet(U)
    BY FS_Subset
  <1>5. Pick(U) \in U /\ SumOver(g, U) = g[Pick(U)] + SumOver(g, U \ {Pick(U)})
    BY <1>3, <1>4, SumUnfold
  <1>6. SumOver(g, U \ {Pick(U)}) \in Nat
    BY <1>2, <1>5
  <1>7. g[Pick(U)] \in Nat
    BY <1>5
  <1> QED BY <1>2, <1>5, <1>6, <1>7

LEMMA SumZero ==
  ASSUME NEW S, IsFiniteSet(S), NEW g, \A x \in S : g[x] = 0
  PROVE  SumOver(g, S) = 0
  <1> DEFINE T == {U \in SUBSET S : SumOver(g, U) # 0}
  <1>1. SUFFICES ASSUME T # {} PROVE FALSE
    OBVIOUS
  <1>2. PICK U \in T : \A V \in T : V \subseteq U => V = U
    <2>1. T \subseteq SUBSET S
      OBVIOUS
    <2> HIDE DEF T
    <2> QED BY <1>1, <2>1, MinimalSubset
  <1>3. U # {}
    BY <1>2, SumEmpty
  <1>4. IsFiniteSet(U)
    BY FS_Subset
  <1>5. Pick(U) \in U /\ SumOver(g, U) = g[Pick(U)] + SumOver(g, U \ {Pick(U)})
    BY <1>3, <1>4, SumUnfold
  <1>6. SumOver(g, U \ {Pick(U)}) = 0
    BY <1>2, <1>5
  <1>7. g[Pick(U)] = 0
    BY <1>5
  <1> QED BY <1>2, <1>5, <1>6, <1>7

(* Changing one term moves the sum by the same amount. *)
LEMMA SumUpdate ==
  ASSUME NEW S, IsFiniteSet(S), NEW g, NEW k, NEW a \in S,
         \A x \in S : g[x] \in Nat /\ k[x] \in Nat,
         \A x \in S \ {a} : k[x] = g[x]
  PROVE  SumOver(k, S) - SumOver(g, S) = k[a] - g[a]
  <1> DEFINE T == {U \in SUBSET S : a \in U /\ SumOver(k, U) - SumOver(g, U) # k[a] - g[a]}
  <1>1. SUFFICES ASSUME T # {} PROVE FALSE
    OBVIOUS
  <1>2. PICK U \in T : \A V \in T : V \subseteq U => V = U
    <2>1. T \subseteq SUBSET S
      OBVIOUS
    <2> HIDE DEF T
    <2> QED BY <1>1, <2>1, MinimalSubset
  <1> DEFINE p == Pick(U)
             R == U \ {p}
  <1>3. IsFiniteSet(U) /\ U # {}
    BY <1>2, FS_Subset
  <1>4. /\ p \in U
        /\ SumOver(g, U) = g[p] + SumOver(g, R)
        /\ SumOver(k, U) = k[p] + SumOver(k, R)
    BY <1>3, SumUnfold
  <1>5. IsFiniteSet(R) /\ R \subseteq S /\ R # U /\ R \subseteq U
    BY <1>4, FS_Subset
  <1> HIDE DEF R, p
  <1>6. SumOver(g, R) \in Nat /\ SumOver(k, R) \in Nat
    <2>1. \A x \in R : g[x] \in Nat /\ k[x] \in Nat
      BY <1>5
    <2> QED BY <1>5, <2>1, SumType
  <1>7. g[p] \in Nat /\ k[p] \in Nat /\ g[a] \in Nat /\ k[a] \in Nat
    BY <1>4
  <1>8. CASE p = a
    <2>1. \A x \in R : g[x] = k[x]
      BY <1>5, <1>8 DEF R
    <2>2. SumOver(g, R) = SumOver(k, R)
      BY <1>5, <2>1, SumEqual
    <2> QED BY <1>2, <1>4, <1>6, <1>7, <1>8, <2>2
  <1>9. CASE p # a
    <2>1. a \in R /\ R \notin T
      BY <1>2, <1>5, <1>9 DEF R
    <2>2. SumOver(k, R) - SumOver(g, R) = k[a] - g[a]
      BY <1>5, <2>1
    <2>3. g[p] = k[p]
      BY <1>4, <1>9
    <2> QED BY <1>2, <1>4, <1>6, <1>7, <2>2, <2>3
  <1> QED BY <1>8, <1>9
(* Any element may be taken out, not only the one the fold picks.          *)
LEMMA SumRemove ==
  ASSUME NEW S, IsFiniteSet(S), NEW g, \A x \in S : g[x] \in Nat, NEW a \in S
  PROVE  SumOver(g, S) = g[a] + SumOver(g, S \ {a})
  <1> DEFINE T == {U \in SUBSET S : \E e \in U : SumOver(g, U) # g[e] + SumOver(g, U \ {e})}
  <1>1. SUFFICES ASSUME T # {} PROVE FALSE
    OBVIOUS
  <1>2. PICK U \in T : \A V \in T : V \subseteq U => V = U
    <2>1. T \subseteq SUBSET S
      OBVIOUS
    <2> HIDE DEF T
    <2> QED BY <1>1, <2>1, MinimalSubset
  <1>3. PICK e \in U : SumOver(g, U) # g[e] + SumOver(g, U \ {e})
    BY <1>2
  <1> DEFINE p == Pick(U)
             R == U \ {p}
             Q == U \ {e}
  <1>4. IsFiniteSet(U) /\ U # {} /\ U \subseteq S
    BY <1>2, <1>3, FS_Subset
  <1>5. p \in U /\ SumOver(g, U) = g[p] + SumOver(g, R)
    BY <1>4, SumUnfold
  <1> HIDE DEF p
  <1>6. CASE p = e
    BY <1>3, <1>5, <1>6
  <1>7. CASE p # e
    <2>1. R \in SUBSET S /\ Q \in SUBSET S /\ R # U /\ Q # U /\ R \subseteq U /\ Q \subseteq U
      BY <1>4, <1>5
    <2>2. R \notin T /\ Q \notin T
      BY <1>2, <2>1
    <2>3. e \in R /\ p \in Q
      BY <1>5, <1>7
    <2>4. SumOver(g, R) = g[e] + SumOver(g, R \ {e}) /\ SumOver(g, Q) = g[p] + SumOver(g, Q \ {p})
      BY <2>1, <2>2, <2>3
    <2>5. R \ {e} = Q \ {p} /\ R \ {e} \subseteq S
      BY <1>4
    <2>6. SumOver(g, R \ {e}) \in Nat
      <3>1. IsFiniteSet(R \ {e}) /\ \A x \in R \ {e} : g[x] \in Nat
        BY <2>5, FS_Subset
      <3> QED BY <3>1, SumType
    <2>7. g[p] \in Nat /\ g[e] \in Nat
      BY <1>4, <1>5
    <2>8. SumOver(g, U) = g[p] + (g[e] + SumOver(g, R \ {e}))
      BY <1>5, <2>4
    <2>9. SumOver(g, Q) = g[p] + SumOver(g, R \ {e})
      BY <2>4, <2>5
    <2> HIDE DEF R, Q
    <2>10. SumOver(g, U) = g[e] + SumOver(g, Q)
      BY <2>6, <2>7, <2>8, <2>9
    <2> QED BY <1>3, <2>10 DEF Q
  <1> QED BY <1>6, <1>7

(* Elements whose term is 0 may be left out. *)
LEMMA SumSubset ==
  ASSUME NEW S, IsFiniteSet(S), NEW g, \A x \in S : g[x] \in Nat,
         NEW R \in SUBSET S, \A x \in S \ R : g[x] = 0
  PROVE  SumOver(g, R) = SumOver(g, S)
  <1> DEFINE T == {U \in SUBSET S : R \subseteq U /\ SumOver(g, U) # SumOver(g, R)}
  <1>1. SUFFICES ASSUME T # {} PROVE FALSE
    OBVIOUS
  <1>2. PICK U \in T : \A V \in T : V \subseteq U => V = U
    <2>1. T \subseteq SUBSET S
      OBVIOUS
    <2> HIDE DEF T
    <2> QED BY <1>1, <2>1, MinimalSubset
  <1>3. PICK a \in U : a \notin R
    <2>1. R \subseteq U /\ SumOver(g, U) # SumOver(g, R)
      BY <1>2
    <2>2. U # R
      BY <2>1
    <2> QED BY <2>1, <2>2
  <1> DEFINE Q == U \ {a}
  <1>4. IsFiniteSet(U) /\ IsFiniteSet(Q) /\ \A x \in U : g[x] \in Nat
    <2>1. U \in SUBSET S /\ Q \in SUBSET S
      OBVIOUS
    <2> QED BY <2>1, FS_Subset
  <1>5. SumOver(g, U) = g[a] + SumOver(g, Q)
    BY <1>4, SumRemove
  <1>6. g[a] = 0 /\ SumOver(g, Q) \in Nat
    <2>1. \A x \in Q : g[x] \in Nat
      BY <1>4
    <2> QED BY <1>3, <1>4, <2>1, SumType
  <1>7. Q \notin T /\ Q \in SUBSET S /\ R \subseteq Q
    BY <1>2, <1>3
  <1> QED BY <1>2, <1>5, <1>6, <1>7

(* Terms that keep a proportion keep it in the sum.                        *)
LEMMA SumScaled ==
  ASSUME NEW S, IsFiniteSet(S), NEW g, NEW h, NEW w \in Nat, NEW t \in Nat,
         \A x \in S : g[x] \in Nat /\ h[x] \in Nat /\ g[x] * w <= h[x] * t
  PROVE  SumOver(g, S) * w <= SumOver(h, S) * t
  <1> DEFINE T == {U \in SUBSET S : ~(SumOver(g, U) * w <= SumOver(h, U) * t)}
  <1>1. SUFFICES ASSUME T # {} PROVE FALSE
    OBVIOUS
  <1>2. PICK U \in T : \A V \in T : V \subseteq U => V = U
    <2>1. T \subseteq SUBSET S
      OBVIOUS
    <2> HIDE DEF T
    <2> QED BY <1>1, <2>1, MinimalSubset
  <1> DEFINE p == Pick(U)
             R == U \ {p}
  <1>3. U # {}
    <2>1. SumOver(g, {}) = 0 /\ SumOver(h, {}) = 0
      BY SumEmpty
    <2>2. 0 * w <= 0 * t
      OBVIOUS
    <2> QED BY <1>2, <2>1, <2>2
  <1>4. IsFiniteSet(U)
    BY FS_Subset
  <1>5. /\ p \in U
        /\ SumOver(g, U) = g[p] + SumOver(g, R)
        /\ SumOver(h, U) = h[p] + SumOver(h, R)
    BY <1>3, <1>4, SumUnfold
  <1>6. R \in SUBSET S /\ R \notin T /\ IsFiniteSet(R)
    BY <1>2, <1>5, FS_Subset
  <1>7. SumOver(g, R) * w <= SumOver(h, R) * t
    BY <1>6
  <1>8. SumOver(g, R) \in Nat /\ SumOver(h, R) \in Nat
    <2>1. \A x \in R : g[x] \in Nat /\ h[x] \in Nat
      BY <1>6
    <2> QED BY <1>6, <2>1, SumType
  <1>9. g[p] \in Nat /\ h[p] \in Nat /\ g[p] * w <= h[p] * t
    BY <1>5
  <1>10. ASSUME NEW i \in Nat, NEW j \in Nat, NEW k \in Nat, NEW l \in Nat,
                i * w <= k * t, j * w <= l * t
         PROVE  (i + j) * w <= (k + l) * t
    <2>1. (i + j) * w = i * w + j * w /\ (k + l) * t = k * t + l * t
      OBVIOUS
    <2>2. i * w \in Nat /\ j * w \in Nat /\ k * t \in Nat /\ l * t \in Nat
      OBVIOUS
    <2> QED BY <1>10, <2>1, <2>2
  <1>11. (g[p] + SumOver(g, R)) * w <= (h[p] + SumOver(h, R)) * t
    BY <1>7, <1>8, <1>9, <1>10
  <1> QED BY <1>2, <1>5, <1>11

(* Shares of a pot, each rounded down, never add up to more than the pot.  *)
LEMMA SharesWithin ==
  ASSUME NEW S, IsFiniteSet(S), NEW g, NEW h, NEW t \in Nat,
         \A x \in S : h[x] \in Nat,
         SumOver(h, S) > 0,
         \A x \in S : g[x] = (h[x] * t) \div SumOver(h, S)
  PROVE  SumOver(g, S) <= t /\ \A x \in S : g[x] \in Nat
  <1> DEFINE w == SumOver(h, S)
  <1>1. w \in Nat /\ w > 0
    BY SumType
  <1> HIDE DEF w
  <1>2. ASSUME NEW a \in Nat PROVE a \div w \in Nat /\ (a \div w) * w <= a
    BY <1>1
  <1>3. \A x \in S : g[x] \in Nat /\ g[x] * w <= h[x] * t
    <2> SUFFICES ASSUME NEW x \in S PROVE g[x] \in Nat /\ g[x] * w <= h[x] * t
      OBVIOUS
    <2>1. h[x] * t \in Nat
      OBVIOUS
    <2>2. g[x] = (h[x] * t) \div w
      BY DEF w
    <2> QED BY <1>2, <2>1, <2>2
  <1>4. SumOver(g, S) * w <= SumOver(h, S) * t
    BY <1>1, <1>3, SumScaled
  <1>5. SumOver(g, S) \in Nat
    BY <1>3, SumType
  <1>6. ASSUME NEW a \in Nat, a * w <= w * t PROVE a <= t
    <2>1. SUFFICES ASSUME a > t PROVE FALSE
      OBVIOUS
    <2>2. a >= t + 1
      BY <2>1
    <2>3. PICK d \in Nat : a = t + 1 + d
      <3>1. a - (t + 1) \in Nat /\ a = t + 1 + (a - (t + 1))
        BY <2>2
      <3> QED BY <3>1
    <2>4. a * w = w * t + w + d * w
      BY <1>1, <2>3
    <2>5. w * t \in Nat /\ d * w \in Nat
      BY <1>1
    <2> QED BY <1>1, <1>6, <2>4, <2>5
  <1> QED BY <1>3, <1>4, <1>5, <1>6 DEF w

(* A sum of natural numbers is at least each of its terms.                 *)
LEMMA SumAtLeast ==
  ASSUME NEW S, IsFiniteSet(S), NEW g, \A x \in S : g[x] \in Nat, NEW a \in S
  PROVE  SumOver(g, S) >= g[a]
  <1>1. IsFiniteSet(S \ {a}) /\ \A x \in S \ {a} : g[x] \in Nat
    BY FS_Subset
  <1>2. SumOver(g, S \ {a}) \in Nat
    BY <1>1, SumType
  <1> QED BY <1>2, SumRemove
(* Shares rounded down fall short by less than one unit each.              *)
LEMMA SharesNear ==
  ASSUME NEW S, IsFiniteSet(S), NEW g, NEW h, NEW t \in Nat, NEW w \in Nat \ {0},
         \A x \in S : h[x] \in Nat /\ g[x] = (h[x] * t) \div w
  PROVE  SumOver(h, S) * t + Cardinality(S) <= (SumOver(g, S) + Cardinality(S)) * w
  <1> DEFINE Near(U) == SumOver(h, U) * t + Cardinality(U) <= (SumOver(g, U) + Cardinality(U)) * w
             T == {U \in SUBSET S : ~Near(U)}
  <1>1. SUFFICES ASSUME T # {} PROVE FALSE
    OBVIOUS
  <1>2. PICK U \in T : \A V \in T : V \subseteq U => V = U
    <2>1. T \subseteq SUBSET S
      OBVIOUS
    <2> HIDE DEF T
    <2> QED BY <1>1, <2>1, MinimalSubset
  <1> DEFINE p == Pick(U)
             R == U \ {p}
  <1>3. U # {}
    <2>1. SumOver(g, {}) = 0 /\ SumOver(h, {}) = 0 /\ Cardinality({}) = 0
      BY SumEmpty, FS_EmptySet
    <2>2. 0 * t + 0 <= (0 + 0) * w
      OBVIOUS
    <2>3. Near({})
      BY <2>1, <2>2
    <2> HIDE DEF Near
    <2> QED BY <1>2, <2>3
  <1>4. IsFiniteSet(U)
    BY FS_Subset
  <1>5. /\ p \in U
        /\ SumOver(g, U) = g[p] + SumOver(g, R)
        /\ SumOver(h, U) = h[p] + SumOver(h, R)
    BY <1>3, <1>4, SumUnfold
  <1>6. R \in SUBSET S /\ R \notin T /\ IsFiniteSet(R)
    BY <1>2, <1>5, FS_Subset
  <1>7. Near(R)
    BY <1>6
  <1>8. \A x \in S : g[x] \in Nat /\ h[x] \in Nat /\ h[x] * t + 1 <= (g[x] + 1) * w
    <2> SUFFICES ASSUME NEW x \in S
                 PROVE  g[x] \in Nat /\ h[x] \in Nat /\ h[x] * t + 1 <= (g[x] + 1) * w
      OBVIOUS
    <2>1. \A a \in Nat : a \div w \in Nat /\ a + 1 <= (a \div w + 1) * w
      OBVIOUS
    <2>2. h[x] \in Nat /\ h[x] * t \in Nat /\ g[x] = (h[x] * t) \div w
      OBVIOUS
    <2> QED BY <2>1, <2>2
  <1>9. Cardinality(U) = Cardinality(R) + 1 /\ Cardinality(R) \in Nat
    BY <1>4, <1>5, <1>6, FS_RemoveElement, FS_CardinalityType
  <1>10. SumOver(g, R) \in Nat /\ SumOver(h, R) \in Nat
    <2>1. \A x \in R : g[x] \in Nat /\ h[x] \in Nat
      BY <1>6, <1>8
    <2> QED BY <1>6, <2>1, SumType
  <1>11. ASSUME NEW i \in Nat, NEW j \in Nat, NEW k \in Nat, NEW l \in Nat, NEW n \in Nat,
                i * t + 1 <= (j + 1) * w, k * t + n <= (l + n) * w
         PROVE  (i + k) * t + (n + 1) <= ((j + l) + (n + 1)) * w
    <2>1. (i + k) * t = i * t + k * t /\ ((j + l) + (n + 1)) * w = (j + 1) * w + (l + n) * w
      OBVIOUS
    <2>2. i * t \in Nat /\ k * t \in Nat /\ (j + 1) * w \in Nat /\ (l + n) * w \in Nat
      OBVIOUS
    <2> QED BY <1>11, <2>1, <2>2
  <1>12. g[p] \in Nat /\ h[p] \in Nat /\ h[p] * t + 1 <= (g[p] + 1) * w
    BY <1>5, <1>8
  <1>13. (h[p] + SumOver(h, R)) * t + (Cardinality(R) + 1)
           <= ((g[p] + SumOver(g, R)) + (Cardinality(R) + 1)) * w
    BY <1>7, <1>9, <1>10, <1>11, <1>12
  <1>14. Near(U)
    BY <1>5, <1>9, <1>13
  <1> HIDE DEF Near
  <1> QED BY <1>2, <1>14

(* What rounding leaves of a pot shared out in full: less than one unit    *)
(* for each that has a share.                                              *)
LEMMA SharesLeave ==
  ASSUME NEW S, IsFiniteSet(S), NEW g, NEW h, NEW t \in Nat,
         \A x \in S : h[x] \in Nat,
         SumOver(h, S) > 0,
         \A x \in S : g[x] = (h[x] * t) \div SumOver(h, S)
  PROVE  t - SumOver(g, S) < Cardinality({x \in S : h[x] > 0})
  <1> DEFINE w == SumOver(h, S)
             R == {x \in S : h[x] > 0}
             n == Cardinality(R)
  <1>1. w \in Nat \ {0}
    BY SumType
  <1>2. \A x \in S : g[x] = (h[x] * t) \div w
    OBVIOUS
  <1>3. R \in SUBSET S /\ IsFiniteSet(R) /\ \A x \in R : h[x] \in Nat /\ g[x] = (h[x] * t) \div w
    BY <1>2, FS_Subset
  <1>4. \A x \in S \ R : h[x] = 0 /\ g[x] = 0
    <2> SUFFICES ASSUME NEW x \in S \ R PROVE h[x] = 0 /\ g[x] = 0
      OBVIOUS
    <2>1. h[x] = 0 /\ g[x] = (h[x] * t) \div w
      BY <1>2
    <2> HIDE DEF w
    <2>2. 0 * t = 0 /\ 0 \div w = 0
      BY <1>1
    <2> QED BY <2>1, <2>2
  <1> HIDE DEF w
  <1>5. \A x \in S : g[x] \in Nat
    <2> SUFFICES ASSUME NEW x \in S PROVE g[x] \in Nat
      OBVIOUS
    <2>1. h[x] * t \in Nat
      OBVIOUS
    <2>2. \A a \in Nat : a \div w \in Nat
      BY <1>1
    <2> QED BY <1>2, <2>1, <2>2
  <1> HIDE DEF R
  <1>6. SumOver(h, R) = SumOver(h, S) /\ SumOver(g, R) = SumOver(g, S)
    BY <1>3, <1>4, <1>5, SumSubset
  <1>7. SumOver(h, R) * t + n <= (SumOver(g, R) + n) * w
    BY <1>1, <1>3, SharesNear
  <1>8. n \in Nat /\ n # 0
    <2>1. R # {}
      <3>1. SumOver(h, {}) = 0
        BY SumEmpty
      <3> QED BY <1>1, <1>6, <3>1 DEF w
    <2> QED BY <1>3, <2>1, FS_CardinalityType, FS_EmptySet
  <1>9. SumOver(g, S) \in Nat
    BY <1>5, SumType
  <1>10. ASSUME NEW a \in Nat, w * t + n <= (a + n) * w PROVE t - a < n
    <2>1. SUFFICES ASSUME t >= a + n PROVE FALSE
      BY <1>8
    <2>2. PICK d \in Nat : t = a + n + d
      <3>1. t - (a + n) \in Nat /\ t = a + n + (t - (a + n))
        BY <1>8, <2>1
      <3> QED BY <3>1
    <2>3. w * t = (a + n) * w + d * w
      BY <1>1, <1>8, <2>2
    <2>4. (a + n) * w \in Nat /\ d * w \in Nat
      BY <1>1, <1>8
    <2> QED BY <1>8, <1>10, <2>3, <2>4
  <1> QED BY <1>6, <1>7, <1>9, <1>10 DEF w, R
=============================================================================
