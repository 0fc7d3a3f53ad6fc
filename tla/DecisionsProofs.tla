--------------------------- MODULE DecisionsProofs ---------------------------
(***************************************************************************)
(* Proofs about Decisions: what the runs compare on bounded inputs, for    *)
(* every input.                                                            *)
(***************************************************************************)
EXTENDS Decisions, WellFoundedInduction, FiniteSetTheorems,
        SequenceTheorems, TLAPS

-----------------------------------------------------------------------------
(* Natural numbers                                                          *)

\* Every set of naturals has a least element: induction without a predicate.
LEMMA NatLeast ==
    ASSUME NEW T \in SUBSET Nat, T # {}
    PROVE  \E x \in T : \A y \in T : x <= y
<1> DEFINE R == OpToRel(<, Nat)
<1>1. IsWellFoundedOn(R, Nat)
  BY NatLessThanWellFounded
<1>2. \A x, y \in Nat : <<y, x>> \in R <=> y < x
  BY DEF OpToRel
<1> HIDE DEF R
<1>3. PICK x \in T : \A y \in T : ~ (<<y, x>> \in R)
  BY <1>1, WFMin
<1>4. ASSUME NEW y \in T PROVE x <= y
  <2>1. x \in Nat /\ y \in Nat
    OBVIOUS
  <2>2. ~ (y < x)
    BY <1>2, <1>3, <2>1
  <2> QED
    BY <2>1, <2>2
<1> QED
  BY <1>4

LEMMA MinIsLeast ==
    ASSUME NEW T \in SUBSET Nat, T # {}
    PROVE  Min(T) \in T /\ \A y \in T : Min(T) <= y
BY NatLeast DEF Min

-----------------------------------------------------------------------------
(* Folds                                                                    *)

\* Induction over the naturals, for a set in place of a predicate.
LEMMA SetInduction ==
    ASSUME NEW T \in SUBSET Nat, 0 \in T, \A n \in T : n + 1 \in T
    PROVE  T = Nat
<1> SUFFICES ASSUME Nat \ T # {} PROVE FALSE
  OBVIOUS
<1>1. PICK x \in Nat \ T : \A y \in Nat \ T : x <= y
  BY NatLeast
<1>2. x \in Nat /\ x # 0
  OBVIOUS
<1>3. x - 1 \in Nat /\ x - 1 < x
  BY <1>2
<1>4. x - 1 \in T
  BY <1>1, <1>2, <1>3
<1>5. x \in T
  BY <1>2, <1>3, <1>4
<1> QED
  BY <1>5

\* What holds at 0 and is handed on up to n holds up to n.
LEMMA UpTo ==
    ASSUME NEW n \in Nat, NEW T, 0 \in T, \A k \in 1 .. n : k - 1 \in T => k \in T
    PROVE  \A k \in 0 .. n : k \in T
<1> DEFINE U == {k \in Nat : k <= n => k \in T}
<1>1. 0 \in U
  OBVIOUS
<1>2. ASSUME NEW k \in U PROVE k + 1 \in U
  <2>1. k \in Nat /\ (k <= n => k \in T)
    OBVIOUS
  <2>2. k + 1 \in Nat /\ (k + 1) - 1 = k
    BY <2>1
  <2>3. k + 1 <= n => k + 1 \in T
    BY <2>1, <2>2
  <2> QED
    BY <2>2, <2>3
<1>3. U \in SUBSET Nat
  OBVIOUS
<1> HIDE DEF U
<1>4. U = Nat
  BY <1>1, <1>2, <1>3, SetInduction
<1> QED
  BY <1>4 DEF U

LEMMA MaxIs ==
    ASSUME NEW k \in Nat, NEW S \in SUBSET Nat, k \in S, \A y \in S : y <= k
    PROVE  Max(S) = k
<1>1. \E x \in S : \A y \in S : x >= y
  OBVIOUS
<1>2. Max(S) \in S /\ \A y \in S : Max(S) >= y
  BY <1>1 DEF Max
<1>3. Max(S) \in Nat /\ Max(S) >= k /\ Max(S) <= k
  BY <1>2
<1> QED
  BY <1>3

LEMMA LastOf ==
    ASSUME NEW k \in Nat, k # 0
    PROVE  /\ Max(1 .. k) = k
           /\ (1 .. k) \ {k} = 1 .. (k - 1)
           /\ 1 .. k # {}
<1>1. 1 .. k \in SUBSET Nat /\ k \in 1 .. k /\ \A y \in 1 .. k : y <= k
  OBVIOUS
<1>2. Max(1 .. k) = k
  BY <1>1, MaxIs
<1>3. \A y : y \in 1 .. k /\ y # k <=> y \in 1 .. (k - 1)
  OBVIOUS
<1> QED
  BY <1>1, <1>2, <1>3

\* The recursion behind FoldLeft, over the index sets, for a step F[value, index].
FoldsBy(iter, F, base, n) ==
    iter = [S \in SUBSET (1 .. n) |->
              IF S = {} THEN base ELSE F[<<iter[S \ {Max(S)}], Max(S)>>]]

LEMMA FoldExists ==
    ASSUME NEW V, NEW base \in V, NEW n \in Nat, NEW F \in [V \X (1 .. n) -> V]
    PROVE  \E iter \in [SUBSET (1 .. n) -> V] : FoldsBy(iter, F, base, n)
<1> DEFINE T == {k \in Nat : \E iter \in [SUBSET (1 .. k) -> V] : FoldsBy(iter, F, base, k)}
<1>1. 0 \in T
  <2> DEFINE e == [S \in SUBSET (1 .. 0) |-> base]
  <2>1. \A S \in SUBSET (1 .. 0) : S = {}
    OBVIOUS
  <2>2. e \in [SUBSET (1 .. 0) -> V]
    OBVIOUS
  <2>3. FoldsBy(e, F, base, 0)
    BY <2>1 DEF FoldsBy
  <2> QED
    BY <2>2, <2>3
<1>2. ASSUME NEW k \in 1 .. n, k - 1 \in T PROVE k \in T
  <2>1. PICK g \in [SUBSET (1 .. (k - 1)) -> V] : FoldsBy(g, F, base, k - 1)
    BY <1>2
  <2> HIDE DEF T
  <2> DEFINE h == [S \in SUBSET (1 .. k) |-> IF k \in S THEN F[<<g[S \ {k}], k>>] ELSE g[S]]
  <2>2. ASSUME NEW S \in SUBSET (1 .. k), k \in S
        PROVE  Max(S) = k /\ S \ {k} \in SUBSET (1 .. (k - 1)) /\ S # {}
    <3>1. S \in SUBSET Nat /\ \A y \in S : y <= k
      OBVIOUS
    <3>2. Max(S) = k
      BY <2>2, <3>1, MaxIs
    <3> QED
      BY <2>2, <3>2
  <2>3. ASSUME NEW S \in SUBSET (1 .. k), k \notin S
        PROVE  S \in SUBSET (1 .. (k - 1)) /\ S \ {Max(S)} \in SUBSET (1 .. (k - 1))
    <3>1. \A y \in 1 .. k : y # k => y \in 1 .. (k - 1)
      OBVIOUS
    <3>2. S \subseteq 1 .. (k - 1)
      BY <2>3, <3>1
    <3> QED
      BY <3>2
  <2>4. h \in [SUBSET (1 .. k) -> V]
    <3>1. ASSUME NEW S \in SUBSET (1 .. k), k \in S PROVE F[<<g[S \ {k}], k>>] \in V
      <4>1. g[S \ {k}] \in V
        BY <2>2, <3>1
      <4> QED
        BY <4>1
    <3>2. ASSUME NEW S \in SUBSET (1 .. k), k \notin S PROVE g[S] \in V
      BY <2>3, <3>2
    <3> QED
      BY <3>1, <3>2
  <2>5. \A S \in SUBSET (1 .. (k - 1)) : S \in SUBSET (1 .. k) /\ h[S] = g[S]
    OBVIOUS
  <2>6. \A S \in SUBSET (1 .. (k - 1)) :
          g[S] = IF S = {} THEN base ELSE F[<<g[S \ {Max(S)}], Max(S)>>]
    BY <2>1 DEF FoldsBy
  <2>7. \A S \in SUBSET (1 .. k) : h[S] = IF k \in S THEN F[<<g[S \ {k}], k>>] ELSE g[S]
    OBVIOUS
  <2> HIDE DEF h
  <2>8. ASSUME NEW S \in SUBSET (1 .. k)
        PROVE  h[S] = IF S = {} THEN base ELSE F[<<h[S \ {Max(S)}], Max(S)>>]
    <3>1. CASE k \in S
      <4>1. h[S] = F[<<g[S \ {k}], k>>]
        BY <2>7, <3>1
      <4>2. h[S \ {k}] = g[S \ {k}]
        BY <2>2, <2>5, <3>1
      <4> QED
        BY <2>2, <3>1, <4>1, <4>2
    <3>2. CASE k \notin S
      <4>1. h[S] = g[S]
        BY <2>7, <3>2
      <4>2. h[S \ {Max(S)}] = g[S \ {Max(S)}]
        BY <2>3, <2>5, <3>2
      <4> QED
        BY <2>3, <2>6, <3>2, <4>1, <4>2
    <3> QED
      BY <3>1, <3>2
  <2>9. FoldsBy(h, F, base, k)
    <3>1. h = [S \in SUBSET (1 .. k) |-> h[S]]
      BY <2>4
    <3> QED
      BY <2>8, <3>1 DEF FoldsBy
  <2> QED
    BY <2>4, <2>9 DEF T
<1>3. \A k \in 0 .. n : k \in T
  <2> HIDE DEF T
  <2> QED
    BY <1>1, <1>2, UpTo
<1>4. n \in T
  <2> HIDE DEF T
  <2> QED
    BY <1>3
<1> QED
  BY <1>4

LEMMA MaxOfSome ==
    ASSUME NEW n \in Nat, NEW S \in SUBSET (1 .. n), S # {}
    PROVE  Max(S) \in S
<1> DEFINE D == {k \in Nat : \E x \in S : k = n - x}
<1>1. PICK x \in S : TRUE
  OBVIOUS
<1>2. n - x \in D
  OBVIOUS
<1>3. D \in SUBSET Nat /\ D # {}
  BY <1>2
<1>4. \A y \in S : n - y \in D
  OBVIOUS
<1>5. \A d \in D : \E y \in S : d = n - y
  OBVIOUS
<1> HIDE DEF D
<1>6. PICK d \in D : \A e \in D : d <= e
  BY <1>3, NatLeast
<1>7. PICK y \in S : d = n - y
  BY <1>5
<1>8. \A z \in S : z <= y
  BY <1>4, <1>6, <1>7
<1>9. Max(S) = y
  BY <1>8, MaxIs
<1> QED
  BY <1>9

\* What c computes when it takes the elements one by one.
Folds(c, V, base, F, n) ==
    /\ c[{}] = base
    /\ \A S \in SUBSET (1 .. n) : S # {} /\ c[S \ {Max(S)}] \in V =>
          c[S] = F[<<c[S \ {Max(S)}], Max(S)>>]

\* The values p that c goes through, one for each prefix.
Trail(p, c, V, base, F, n) ==
    /\ p \in [0 .. n -> V] /\ p[0] = base /\ p[n] = c[1 .. n]
    /\ \A k \in 1 .. n : p[k] = F[<<p[k - 1], k>>]

LEMMA FoldSteps ==
    ASSUME NEW V, NEW base \in V, NEW n \in Nat, NEW F \in [V \X (1 .. n) -> V], NEW c,
           Folds(c, V, base, F, n)
    PROVE  \E p : Trail(p, c, V, base, F, n)
<1> USE DEF Folds
<1> DEFINE p == [k \in 0 .. n |-> c[1 .. k]]
           T == {k \in Nat : p[k] \in V}
<1>1. p[0] = base
  BY 1 .. 0 = {}
<1>2. ASSUME NEW k \in 1 .. n, p[k - 1] \in V
      PROVE  p[k] = F[<<p[k - 1], k>>] /\ p[k] \in V
  <2>1. 1 .. k \in SUBSET (1 .. n) /\ k \in Nat /\ k # 0 /\ k - 1 \in 0 .. n
    OBVIOUS
  <2>2. p[k - 1] = c[1 .. (k - 1)] /\ p[k] = c[1 .. k]
    BY <2>1
  <2> HIDE DEF p
  <2>3. Max(1 .. k) = k /\ (1 .. k) \ {k} = 1 .. (k - 1) /\ 1 .. k # {}
    BY <2>1, LastOf
  <2>4. c[1 .. k] = F[<<c[1 .. (k - 1)], k>>]
    BY <1>2, <2>1, <2>2, <2>3
  <2>5. <<p[k - 1], k>> \in V \X (1 .. n)
    BY <1>2
  <2>6. F[<<p[k - 1], k>>] \in V
    BY <2>5
  <2> QED
    BY <2>2, <2>4, <2>6
<1>3. p = [k \in 0 .. n |-> p[k]] /\ p[n] = c[1 .. n]
  OBVIOUS
<1> HIDE DEF p
<1>4. 0 \in T
  BY <1>1
<1>5. ASSUME NEW k \in 1 .. n, k - 1 \in T PROVE k \in T
  <2>1. p[k - 1] \in V /\ k \in Nat
    BY <1>5
  <2> QED
    BY <1>2, <2>1
<1>6. T \subseteq Nat
  OBVIOUS
<1>7. \A k \in 0 .. n : p[k] \in V
  <2> HIDE DEF T
  <2>1. \A k \in 0 .. n : k \in T
    BY <1>4, <1>5, UpTo
  <2> QED
    BY <2>1 DEF T
<1>8. p \in [0 .. n -> V]
  BY <1>3, <1>7
<1>9. \A k \in 1 .. n : k - 1 \in 0 .. n
  OBVIOUS
<1> QED
  BY <1>1, <1>2, <1>3, <1>7, <1>8, <1>9 DEF Trail


\* A sum, number by number.
LEMMA TotalSteps ==
    ASSUME NEW n \in Nat, NEW numbers \in [1 .. n -> Nat]
    PROVE  \E p \in [0 .. n -> Nat] : /\ p[0] = 0
                                      /\ \A k \in 1 .. n : p[k] = p[k - 1] + numbers[k]
                                      /\ Total(numbers) = p[n]
<1> DEFINE Eq(c) == c = [S \in SUBSET (1 .. n) |->
                           IF S = {} THEN 0 ELSE c[S \ {Max(S)}] + numbers[Max(S)]]
           F == [x \in Nat \X (1 .. n) |-> x[1] + numbers[x[2]]]
           c == CHOOSE iter : Eq(iter)
<1>1. F \in [Nat \X (1 .. n) -> Nat]
  OBVIOUS
<1>2. \A v \in Nat : \A k \in 1 .. n : F[<<v, k>>] = v + numbers[k]
  OBVIOUS
<1> HIDE DEF F
<1>3. \A S \in SUBSET (1 .. n) : S # {} => Max(S) \in 1 .. n /\ S \ {Max(S)} \in SUBSET (1 .. n)
  BY MaxOfSome
<1>4. \E iter : Eq(iter)
  <2>1. PICK iter \in [SUBSET (1 .. n) -> Nat] : FoldsBy(iter, F, 0, n)
    BY <1>1, FoldExists
  <2>2. Eq(iter)
    BY <1>2, <1>3, <2>1 DEF FoldsBy
  <2> QED
    BY <2>2
<1>5. Eq(c)
  BY <1>4
<1>6. Total(numbers) = c[1 .. n]
  <2>1. DOMAIN numbers = 1 .. n
    OBVIOUS
  <2> QED
    BY <2>1 DEF Total, FoldLeft, MapThenFoldSet
<1> HIDE DEF c
<1>7. Folds(c, Nat, 0, F, n)
  <2>1. c[{}] = 0
    BY <1>5
  <2>2. \A S \in SUBSET (1 .. n) : S # {} /\ c[S \ {Max(S)}] \in Nat =>
          c[S] = F[<<c[S \ {Max(S)}], Max(S)>>]
    BY <1>2, <1>3, <1>5
  <2> QED
    BY <2>1, <2>2 DEF Folds
<1> HIDE DEF Eq
<1>8. PICK p : Trail(p, c, Nat, 0, F, n)
  <2>1. 0 \in Nat
    OBVIOUS
  <2> QED
    BY <1>1, <1>7, <2>1, FoldSteps, Zenon
<1>9. \A k \in 1 .. n : k - 1 \in 0 .. n
  OBVIOUS
<1> QED
  BY <1>2, <1>6, <1>8, <1>9 DEF Trail

LEMMA TotalIsNat ==
    ASSUME NEW numbers \in Seq(Nat)
    PROVE  Total(numbers) \in Nat
<1>1. Len(numbers) \in Nat /\ numbers \in [1 .. Len(numbers) -> Nat]
  BY LenProperties
<1>2. PICK p \in [0 .. Len(numbers) -> Nat] : Total(numbers) = p[Len(numbers)]
  BY <1>1, TotalSteps
<1> QED
  BY <1>1, <1>2

LEMMA TotalOfNone == Total(<<>>) = 0
<1>1. 0 \in Nat /\ <<>> \in [1 .. 0 -> Nat]
  OBVIOUS
<1>2. PICK p \in [0 .. 0 -> Nat] : p[0] = 0 /\ Total(<<>>) = p[0]
  BY <1>1, TotalSteps
<1> QED
  BY <1>2

\* What <<a>> \o s is.
LEMMA InFront ==
    ASSUME NEW S, NEW a \in S, NEW s \in Seq(S)
    PROVE  /\ <<a>> \o s \in Seq(S)
           /\ Len(<<a>> \o s) = Len(s) + 1
           /\ (<<a>> \o s)[1] = a
           /\ \A k \in 1 .. Len(s) : (<<a>> \o s)[k + 1] = s[k]
<1> DEFINE one == <<a>>
<1>1. one \in Seq(S) /\ Len(one) = 1 /\ one[1] = a
  OBVIOUS
<1>2. Len(s) \in Nat
  BY LenProperties
<1> HIDE DEF one
<1>3. /\ one \o s \in Seq(S)
      /\ Len(one \o s) = Len(one) + Len(s)
      /\ \A i \in 1 .. Len(one) + Len(s) :
            (one \o s)[i] = IF i <= Len(one) THEN one[i] ELSE s[i - Len(one)]
  BY <1>1, ConcatProperties, Zenon
<1>4. (one \o s)[1] = a
  BY <1>1, <1>2, <1>3
<1>5. ASSUME NEW k \in 1 .. Len(s) PROVE (one \o s)[k + 1] = s[k]
  <2>1. k + 1 \in 1 .. 1 + Len(s) /\ ~(k + 1 <= 1) /\ (k + 1) - 1 = k
    BY <1>2
  <2> QED
    BY <1>1, <1>3, <2>1
<1>6. Len(one \o s) = Len(s) + 1
  BY <1>1, <1>2, <1>3
<1> QED
  BY <1>3, <1>4, <1>5, <1>6 DEF one

\* A number in front of the others adds itself.
LEMMA TotalInFront ==
    ASSUME NEW a \in Nat, NEW s \in Seq(Nat)
    PROVE  Total(<<a>> \o s) = a + Total(s)
<1> DEFINE n == Len(s)
           t == <<a>> \o s
<1>1. n \in Nat /\ s \in [1 .. n -> Nat]
  BY LenProperties
<1>2. t \in [1 .. n + 1 -> Nat] /\ t[1] = a /\ \A k \in 1 .. n : t[k + 1] = s[k]
  <2>1. t \in Seq(Nat) /\ Len(t) = n + 1 /\ t[1] = a /\ \A k \in 1 .. n : t[k + 1] = s[k]
    BY InFront
  <2> HIDE DEF t
  <2> QED
    BY <2>1, LenProperties
<1> HIDE DEF t, n
<1>3. PICK p \in [0 .. n -> Nat] : /\ p[0] = 0
                                   /\ \A k \in 1 .. n : p[k] = p[k - 1] + s[k]
                                   /\ Total(s) = p[n]
  BY <1>1, TotalSteps
<1>4. n + 1 \in Nat
  BY <1>1
<1>5. PICK q \in [0 .. n + 1 -> Nat] : /\ q[0] = 0
                                       /\ \A k \in 1 .. n + 1 : q[k] = q[k - 1] + t[k]
                                       /\ Total(t) = q[n + 1]
  BY <1>2, <1>4, TotalSteps
<1> DEFINE T == {k \in Nat : q[k + 1] = a + p[k]}
<1>6. 0 \in T
  <2>1. 1 \in 1 .. n + 1
    BY <1>1
  <2> QED
    BY <1>2, <1>3, <1>5, <2>1
<1>7. ASSUME NEW k \in 1 .. n, k - 1 \in T PROVE k \in T
  <2>1. k \in Nat /\ k + 1 \in 1 .. n + 1 /\ (k + 1) - 1 = k /\ (k - 1) + 1 = k
    BY <1>1
  <2>2. q[k + 1] = q[k] + s[k]
    BY <1>2, <1>5, <2>1
  <2>3. q[k] = a + p[k - 1]
    BY <1>7, <2>1
  <2>4. s[k] \in Nat /\ p[k - 1] \in Nat
    BY <1>1, <1>3, <2>1
  <2> QED
    BY <1>3, <2>1, <2>2, <2>3, <2>4
<1>8. \A k \in 0 .. n : k \in T
  <2> HIDE DEF T
  <2> QED
    BY <1>1, <1>6, <1>7, UpTo
<1>9. q[n + 1] = a + p[n]
  BY <1>1, <1>8
<1> QED
  BY <1>3, <1>5, <1>9 DEF t

Joins(g, seqs, n) == g = [i \in 1 .. n |-> IF i = 1 THEN seqs[i] ELSE g[i - 1] \o seqs[i]]

LEMMA JoinsExist ==
    ASSUME NEW seqs
    PROVE  \A n \in Nat : \E g : Joins(g, seqs, n)
<1> DEFINE T == {n \in Nat : \E g : Joins(g, seqs, n)}
<1>1. 0 \in T
  <2> DEFINE e == [i \in 1 .. 0 |-> IF i = 1 THEN seqs[i] ELSE <<>>]
  <2>1. Joins(e, seqs, 0)
    BY DEF Joins
  <2> QED
    BY <2>1
<1>2. ASSUME NEW n \in T PROVE n + 1 \in T
  <2>1. PICK g : Joins(g, seqs, n)
    OBVIOUS
  <2>2. n \in Nat
    OBVIOUS
  <2> HIDE DEF T
  <2> DEFINE h == [i \in 1 .. n + 1 |-> IF i = 1 THEN seqs[i] ELSE g[i - 1] \o seqs[i]]
  <2>3. ASSUME NEW i \in 1 .. n PROVE h[i] = g[i]
    <3>1. g[i] = IF i = 1 THEN seqs[i] ELSE g[i - 1] \o seqs[i]
      BY <2>1 DEF Joins
    <3>2. i \in 1 .. n + 1
      BY <2>2
    <3> QED
      BY <3>1, <3>2
  <2>4. ASSUME NEW i \in 1 .. n + 1
        PROVE  h[i] = IF i = 1 THEN seqs[i] ELSE h[i - 1] \o seqs[i]
    <3>1. i # 1 => i - 1 \in 1 .. n
      BY <2>2
    <3>2. i # 1 => h[i - 1] = g[i - 1]
      BY <2>3, <3>1
    <3>3. h[i] = IF i = 1 THEN seqs[i] ELSE g[i - 1] \o seqs[i]
      OBVIOUS
    <3> HIDE DEF h
    <3> QED
      BY <3>2, <3>3
  <2>5. DOMAIN h = 1 .. n + 1 /\ h = [i \in DOMAIN h |-> h[i]]
    OBVIOUS
  <2> HIDE DEF h
  <2>6. Joins(h, seqs, n + 1)
    BY <2>4, <2>5 DEF Joins
  <2>7. n + 1 \in Nat
    BY <2>2
  <2> QED
    BY <2>6, <2>7 DEF T
<1> HIDE DEF T
<1>3. T = Nat
  <2>1. T \in SUBSET Nat
    BY DEF T
  <2> QED
    BY <2>1, <1>1, <1>2, SetInduction
<1> QED
  BY <1>3 DEF T

LEMMA FlattenJoins ==
    ASSUME NEW seqs, Len(seqs) \in Nat, Len(seqs) # 0
    PROVE  \E g : Joins(g, seqs, Len(seqs)) /\ FlattenSeq(seqs) = g[Len(seqs)]
<1> DEFINE g == CHOOSE f : Joins(f, seqs, Len(seqs))
<1>1. Joins(g, seqs, Len(seqs))
  BY JoinsExist
<1>2. FlattenSeq(seqs) = g[Len(seqs)]
  BY DEF FlattenSeq, Joins
<1> QED
  BY <1>1, <1>2

LEMMA FlattenIsList ==
    ASSUME NEW C, NEW seqs \in Seq(Seq(C))
    PROVE  FlattenSeq(seqs) \in Seq(C)
<1> DEFINE n == Len(seqs)
<1>1. n \in Nat /\ \A i \in 1 .. n : seqs[i] \in Seq(C)
  BY LenProperties
<1>2. CASE n = 0
  BY <1>2, EmptySeq DEF FlattenSeq
<1>3. CASE n # 0
  <2>1. PICK g : Joins(g, seqs, n) /\ FlattenSeq(seqs) = g[n]
    BY <1>1, <1>3, FlattenJoins
  <2> DEFINE T == {k \in Nat : k # 0 => g[k] \in Seq(C)}
  <2> HIDE DEF n
  <2>2. 0 \in T
    OBVIOUS
  <2>3. ASSUME NEW k \in 1 .. n, k - 1 \in T PROVE k \in T
    <3>1. g[k] = IF k = 1 THEN seqs[k] ELSE g[k - 1] \o seqs[k]
      BY <2>1 DEF Joins
    <3>2. k \in Nat /\ k - 1 \in Nat
      BY <1>1
    <3>3. k # 1 => g[k - 1] \in Seq(C)
      BY <2>3, <3>2
    <3>4. seqs[k] \in Seq(C)
      BY <1>1
    <3>5. k # 1 => g[k - 1] \o seqs[k] \in Seq(C)
      BY <3>3, <3>4, ConcatProperties
    <3>6. g[k] \in Seq(C)
      BY <3>1, <3>4, <3>5
    <3> QED
      BY <3>2, <3>6
  <2>4. \A k \in 0 .. n : k \in T
    <3> HIDE DEF T
    <3> QED
      BY <1>1, <2>2, <2>3, UpTo
  <2>5. n \in T
    <3> HIDE DEF T
    <3> QED
      BY <1>1, <2>4
  <2> QED
    BY <1>1, <1>3, <2>1, <2>5
<1> QED
  BY <1>2, <1>3

LEMMA FlattenLength ==
    ASSUME NEW C, NEW seqs \in Seq(Seq(C))
    PROVE  Len(FlattenSeq(seqs)) = Total([i \in DOMAIN seqs |-> Len(seqs[i])])
<1> DEFINE n == Len(seqs)
           lens == [i \in DOMAIN seqs |-> Len(seqs[i])]
<1>1. n \in Nat /\ DOMAIN seqs = 1 .. n /\ \A i \in 1 .. n : seqs[i] \in Seq(C)
  BY LenProperties
<1>2. lens \in [1 .. n -> Nat] /\ \A i \in 1 .. n : lens[i] = Len(seqs[i])
  BY <1>1, LenProperties
<1> HIDE DEF lens
<1>3. CASE n = 0
  <2>1. seqs = <<>> /\ lens = <<>>
    BY <1>1, <1>2, <1>3, EmptySeq
  <2> QED
    BY <1>3, <2>1, TotalOfNone DEF FlattenSeq, lens
<1>4. CASE n # 0
  <2> HIDE DEF n
  <2>1. PICK g : Joins(g, seqs, n) /\ FlattenSeq(seqs) = g[n]
    BY <1>1, <1>4, FlattenJoins DEF n
  <2>2. PICK p \in [0 .. n -> Nat] : /\ p[0] = 0
                                     /\ \A k \in 1 .. n : p[k] = p[k - 1] + lens[k]
                                     /\ Total(lens) = p[n]
    BY <1>1, <1>2, TotalSteps
  <2> DEFINE T == {k \in Nat : k # 0 => g[k] \in Seq(C) /\ Len(g[k]) = p[k]}
  <2>3. 0 \in T
    OBVIOUS
  <2>4. ASSUME NEW k \in 1 .. n, k - 1 \in T PROVE k \in T
    <3>1. g[k] = IF k = 1 THEN seqs[k] ELSE g[k - 1] \o seqs[k]
      BY <2>1 DEF Joins
    <3>2. k \in Nat /\ k - 1 \in Nat /\ seqs[k] \in Seq(C)
      BY <1>1
    <3>3. p[k] = p[k - 1] + Len(seqs[k])
      BY <1>2, <2>2
    <3>4. CASE k = 1
      <4>1. p[k] = Len(seqs[k]) /\ g[k] = seqs[k]
        <5>1. p[0] = 0 /\ k - 1 = 0 /\ Len(seqs[k]) \in Nat
          BY <2>2, <3>2, <3>4, LenProperties
        <5> QED
          BY <3>1, <3>3, <3>4, <5>1
      <4> QED
        BY <3>2, <4>1
    <3>5. CASE k # 1
      <4>1. g[k - 1] \in Seq(C) /\ Len(g[k - 1]) = p[k - 1]
        BY <2>4, <3>2, <3>5
      <4>2. g[k] = g[k - 1] \o seqs[k]
        BY <3>1, <3>5
      <4>3. /\ g[k - 1] \o seqs[k] \in Seq(C)
            /\ Len(g[k - 1] \o seqs[k]) = Len(g[k - 1]) + Len(seqs[k])
        BY <3>2, <4>1, ConcatProperties
      <4> QED
        BY <3>2, <3>3, <4>1, <4>2, <4>3
    <3> QED
      BY <3>4, <3>5
  <2>5. \A k \in 0 .. n : k \in T
    <3> HIDE DEF T
    <3> QED
      BY <1>1, <2>3, <2>4, UpTo
  <2>6. n \in T
    <3> HIDE DEF T
    <3> QED
      BY <1>1, <2>5
  <2> QED
    BY <1>1, <1>4, <2>1, <2>2, <2>6 DEF lens
<1> QED
  BY <1>3, <1>4

-----------------------------------------------------------------------------
(* What a request costs                                                     *)

\* A text costs a natural number of units.
LEMMA TextCostIsNat ==
    ASSUME NEW text \in Text
    PROVE  TextCost(text) \in Nat
<1> DEFINE Acc == [total : Nat, run : Nat]
           first == [total |-> 0, run |-> 0]
           n == Len(text)
           Eq(c) == c = [S \in SUBSET (1 .. n) |->
                           IF S = {} THEN first ELSE Count(c[S \ {Max(S)}], text[Max(S)])]
           F == [x \in Acc \X (1 .. n) |-> Count(x[1], text[x[2]])]
           c == CHOOSE iter : Eq(iter)
<1>1. n \in Nat /\ DOMAIN text = 1 .. n
  BY LenProperties DEF Text
<1> HIDE DEF n
<1>2. \A v \in Acc : \A k \in 1 .. n : Count(v, text[k]) \in Acc
  BY DEF Count, Chunks
<1>3. F \in [Acc \X (1 .. n) -> Acc] /\ first \in Acc
  BY <1>2
<1>4. \A v \in Acc : \A k \in 1 .. n : F[<<v, k>>] = Count(v, text[k])
  OBVIOUS
<1> HIDE DEF F, Acc
<1>5. \A S \in SUBSET (1 .. n) : S # {} => Max(S) \in 1 .. n /\ S \ {Max(S)} \in SUBSET (1 .. n)
  BY <1>1, MaxOfSome
<1>6. \E iter : Eq(iter)
  <2> HIDE DEF first
  <2>1. PICK iter \in [SUBSET (1 .. n) -> Acc] : FoldsBy(iter, F, first, n)
    BY <1>1, <1>3, FoldExists
  <2>2. Eq(iter)
    BY <1>4, <1>5, <2>1 DEF FoldsBy
  <2> QED
    BY <2>2
<1>7. Eq(c)
  BY <1>6
<1>8. FoldLeft(Count, first, text) = c[1 .. n]
  BY <1>1 DEF FoldLeft, MapThenFoldSet
<1> HIDE DEF c, first
<1>9. Folds(c, Acc, first, F, n)
  <2>1. c[{}] = first
    BY <1>7
  <2>2. \A S \in SUBSET (1 .. n) : S # {} /\ c[S \ {Max(S)}] \in Acc =>
          c[S] = F[<<c[S \ {Max(S)}], Max(S)>>]
    BY <1>4, <1>5, <1>7
  <2> QED
    BY <2>1, <2>2 DEF Folds
<1>10. PICK p : Trail(p, c, Acc, first, F, n)
  BY <1>1, <1>3, <1>9, FoldSteps, Zenon
<1>11. p[n] \in Acc
  BY <1>1, <1>10 DEF Trail
<1>12. TextCost(text) = p[n].total + Chunks(p[n].run)
  BY <1>8, <1>10 DEF Trail, TextCost, first
<1> QED
  BY <1>11, <1>12 DEF Acc, Chunks

LEMMA MessageCostIsNat ==
    ASSUME NEW text \in Text
    PROVE  MessageCost(text) \in Nat
BY TextCostIsNat, CostsAssumption DEF MessageCost

\* A turn costs natural numbers, and no less with its images.
LEMMA TurnCosts ==
    ASSUME NEW turn \in Seq(Message)
    PROVE  TextOnlyCost(turn) \in Nat /\ FullCost(turn) \in Nat
<1>1. Len(turn) \in Nat /\ DOMAIN turn = 1 .. Len(turn)
  BY LenProperties
<1>2. ASSUME NEW i \in 1 .. Len(turn)
      PROVE  turn[i].text \in Text /\ turn[i].images \in Nat
  <2>1. turn[i] \in Message
    BY ElementOfSeq
  <2> QED
    BY <2>1 DEF Message
<1>3. [i \in DOMAIN turn |-> MessageCost(turn[i].text)] \in Seq(Nat)
  <2>1. \A i \in 1 .. Len(turn) : MessageCost(turn[i].text) \in Nat
    BY <1>2, MessageCostIsNat
  <2> QED
    BY <1>1, <2>1
<1>4. [i \in DOMAIN turn |-> turn[i].images] \in Seq(Nat)
  BY <1>1, <1>2
<1>5. TextOnlyCost(turn) \in Nat
  BY <1>3, TotalIsNat DEF TextOnlyCost
<1>6. Total([i \in DOMAIN turn |-> turn[i].images]) \in Nat
  BY <1>4, TotalIsNat
<1> QED
  BY <1>5, <1>6, CostsAssumption DEF FullCost

\* The block of memories is a text, and costs a natural number.
LEMMA MemoryCostIsNat ==
    ASSUME NEW M, NEW selected \in Seq(M), \A m \in M : m.text \in Text
    PROVE  MemoryCost(selected) \in Nat
<1> DEFINE C == {Ascii, "wide", "newline"}
           Line(i) == (IF i = 1 THEN <<>> ELSE <<"newline">>) \o Bullet \o selected[i].text
           lines == [i \in DOMAIN selected |-> Line(i)]
<1>1. Len(selected) \in Nat /\ DOMAIN selected = 1 .. Len(selected)
  BY LenProperties
<1>2. ASSUME NEW i \in 1 .. Len(selected) PROVE Line(i) \in Seq(C)
  <2>1. selected[i].text \in Seq(C) /\ Bullet \in Seq(C)
    BY ElementOfSeq, CostsAssumption DEF Text
  <2>2. <<>> \in Seq(C) /\ <<"newline">> \in Seq(C)
    OBVIOUS
  <2> HIDE DEF C
  <2>3. (IF i = 1 THEN <<>> ELSE <<"newline">>) \o Bullet \in Seq(C)
    BY <2>1, <2>2, ConcatProperties
  <2> QED
    BY <2>1, <2>3, ConcatProperties
<1> HIDE DEF C, Line
<1>3. lines \in Seq(Seq(C))
  BY <1>1, <1>2
<1>4. FlattenSeq(lines) \in Seq(C) /\ Header \in Seq(C)
  BY <1>3, FlattenIsList, CostsAssumption DEF Text, C
<1>5. Header \o FlattenSeq(lines) \in Text
  BY <1>4, ConcatProperties DEF Text, C
<1>6. MemoryText(selected) \in Text
  BY <1>5 DEF MemoryText, Line
<1> QED
  BY <1>6, MessageCostIsNat DEF MemoryCost

-----------------------------------------------------------------------------
(* The ranking                                                              *)

\* What the columns of the memories table give: numbers, and an id of its own.
Memories(memories) ==
    /\ IsFiniteSet(memories)
    /\ \A m \in memories :
          m.text \in Text /\ m.whole \in BOOLEAN /\ {m.id, m.updated} \subseteq Nat
    /\ \A m, n \in memories : m.id = n.id => m = n

\* _score_key orders the memories strictly, and puts any two in an order.
LEMMA BetterOrders ==
    ASSUME NEW query, IsFiniteSet(query), NEW memories, Memories(memories),
           NEW a \in memories, NEW b \in memories, NEW c \in memories
    PROVE  /\ ~Better(query, a, a)
           /\ Better(query, a, b) /\ Better(query, b, c) => Better(query, a, c)
           /\ a # b => Better(query, a, b) \/ Better(query, b, a)
<1> DEFINE O(m) == Overlap(query, m)
<1>1. ASSUME NEW m \in memories PROVE O(m) \in Nat
  <2>1. IsFiniteSet(query \cap m.terms)
    BY FS_Intersection
  <2> QED
    BY <2>1, FS_CardinalityType DEF Overlap
<1>2. O(a) \in Nat /\ O(b) \in Nat /\ O(c) \in Nat
  BY <1>1
<1>3. /\ a.id \in Nat /\ b.id \in Nat /\ c.id \in Nat
      /\ a.updated \in Nat /\ b.updated \in Nat /\ c.updated \in Nat
      /\ a.whole \in BOOLEAN /\ b.whole \in BOOLEAN /\ c.whole \in BOOLEAN
      /\ a.id = b.id => a = b
  BY DEF Memories
<1> DEFINE Newer(x, y) == \/ O(x) > O(y)
                          \/ /\ O(x) = O(y)
                             /\ x.updated > y.updated \/ (x.updated = y.updated /\ x.id > y.id)
<1> HIDE DEF O
<1>4. ASSUME NEW x \in memories, NEW y \in memories
      PROVE  Better(query, x, y) <=> (x.whole /\ ~y.whole) \/ (x.whole = y.whole /\ Newer(x, y))
  BY DEF Better, O
<1>5. /\ ~Newer(a, a)
      /\ Newer(a, b) /\ Newer(b, c) => Newer(a, c)
      /\ a # b => Newer(a, b) \/ Newer(b, a)
  <2>1. ~Newer(a, a)
    BY <1>2, <1>3
  <2>2. Newer(a, b) /\ Newer(b, c) => Newer(a, c)
    BY <1>2, <1>3
  <2>3. a # b => Newer(a, b) \/ Newer(b, a)
    BY <1>2, <1>3
  <2> QED
    BY <2>1, <2>2, <2>3
<1> HIDE DEF Newer
<1>6. ~Better(query, a, a)
  BY <1>4, <1>5, Zenon
<1>7. Better(query, a, b) /\ Better(query, b, c) => Better(query, a, c)
  BY <1>3, <1>4, <1>5
<1>8. a # b => Better(query, a, b) \/ Better(query, b, a)
  BY <1>3, <1>4, <1>5
<1> QED
  BY <1>6, <1>7, <1>8

\* What is better than a relevant memory is relevant.
LEMMA BetterIsRelevant ==
    ASSUME NEW query, IsFiniteSet(query), NEW memories, Memories(memories),
           NEW a \in memories, NEW b \in memories, Better(query, a, b), Relevant(query, b)
    PROVE  Relevant(query, a)
<1>1. ASSUME NEW m \in memories PROVE Overlap(query, m) \in Nat
  <2>1. IsFiniteSet(query \cap m.terms)
    BY FS_Intersection
  <2> QED
    BY <2>1, FS_CardinalityType DEF Overlap
<1>2. Overlap(query, a) \in Nat /\ Overlap(query, b) \in Nat
  BY <1>1
<1>3. a.whole \in BOOLEAN /\ b.whole \in BOOLEAN
  BY DEF Memories
<1> QED
  BY <1>2, <1>3 DEF Better, Relevant

\* The comparisons of _score_key are those of its four numbers, in turn.
LEMMA BetterOutranks ==
    ASSUME NEW query, NEW memories, Memories(memories), NEW a \in memories, NEW b \in memories
    PROVE  Better(query, a, b) <=> Outranks(query, a, b)
<1> DEFINE x == Score(query, a)
           y == Score(query, b)
<1>1. a.whole \in BOOLEAN /\ b.whole \in BOOLEAN
  BY DEF Memories
<1>2. /\ x[1] = (IF a.whole THEN 1 ELSE 0) /\ y[1] = (IF b.whole THEN 1 ELSE 0)
      /\ x[2] = Overlap(query, a) /\ y[2] = Overlap(query, b)
      /\ x[3] = a.updated /\ y[3] = b.updated /\ x[4] = a.id /\ y[4] = b.id
  BY DEF Score
<1>3. Outranks(query, a, b) <=>
        \E d \in 1 .. 4 : x[d] > y[d] /\ \A e \in 1 .. d - 1 : x[e] = y[e]
  BY DEF Outranks
<1> HIDE DEF x, y
<1>4. (\E d \in 1 .. 4 : x[d] > y[d] /\ \A e \in 1 .. d - 1 : x[e] = y[e]) <=>
        \/ x[1] > y[1]
        \/ (x[1] = y[1] /\ x[2] > y[2])
        \/ (x[1] = y[1] /\ x[2] = y[2] /\ x[3] > y[3])
        \/ (x[1] = y[1] /\ x[2] = y[2] /\ x[3] = y[3] /\ x[4] > y[4])
  <2>1. 1 .. 4 = {1, 2, 3, 4} /\ 1 .. 1 - 1 = {} /\ 1 .. 2 - 1 = {1}
        /\ 1 .. 3 - 1 = {1, 2} /\ 1 .. 4 - 1 = {1, 2, 3}
    OBVIOUS
  <2> QED
    BY <2>1
<1>5. /\ x[1] > y[1] <=> (a.whole /\ ~b.whole)
      /\ x[1] = y[1] <=> a.whole = b.whole
  BY <1>1, <1>2
<1> QED
  BY <1>1, <1>2, <1>3, <1>4, <1>5 DEF Better

\* Of some memories one is the worst: the one behind the most others.
LEMMA WorstExists ==
    ASSUME NEW query, IsFiniteSet(query), NEW memories, Memories(memories),
           NEW S \in SUBSET memories, S # {}
    PROVE  \E x \in S : \A y \in S \ {x} : Better(query, y, x)
<1> DEFINE Ahead(x) == {y \in S : Better(query, y, x)}
           D == {d \in Nat : \E x \in S : d = Cardinality(S) - Cardinality(Ahead(x))}
<1>1. IsFiniteSet(S) /\ Cardinality(S) \in Nat
  BY FS_Subset, FS_CardinalityType DEF Memories
<1>2. ASSUME NEW x \in S
      PROVE  /\ IsFiniteSet(Ahead(x)) /\ Cardinality(Ahead(x)) \in Nat
             /\ Cardinality(Ahead(x)) <= Cardinality(S)
  <2>1. Ahead(x) \in SUBSET S
    OBVIOUS
  <2> HIDE DEF Ahead
  <2> QED
    BY <1>1, <2>1, FS_Subset, FS_CardinalityType
<1> HIDE DEF Ahead
<1>3. ASSUME NEW x \in S PROVE Cardinality(S) - Cardinality(Ahead(x)) \in D
  BY <1>1, <1>2
<1>4. D \in SUBSET Nat /\ D # {}
  BY <1>3
<1>5. \A d \in D : \E x \in S : d = Cardinality(S) - Cardinality(Ahead(x))
  OBVIOUS
<1> HIDE DEF D
<1>6. PICK d \in D : \A e \in D : d <= e
  BY <1>4, NatLeast
<1>7. PICK x \in S : d = Cardinality(S) - Cardinality(Ahead(x))
  BY <1>5
<1>8. ASSUME NEW y \in S \ {x}, ~Better(query, y, x) PROVE FALSE
  <2>1. Better(query, x, y)
    BY <1>8, BetterOrders
  <2>2. Ahead(x) \in SUBSET Ahead(y)
    BY <2>1, BetterOrders DEF Ahead
  <2>3. x \in Ahead(y) /\ x \notin Ahead(x)
    BY <2>1, BetterOrders DEF Ahead
  <2>4. IsFiniteSet(Ahead(y)) /\ Cardinality(Ahead(y)) \in Nat /\ Cardinality(Ahead(x)) \in Nat
    BY <1>2
  <2>5. /\ Cardinality(Ahead(x)) <= Cardinality(Ahead(y))
        /\ Cardinality(Ahead(x)) = Cardinality(Ahead(y)) => Ahead(y) = Ahead(x)
    BY <2>2, <2>4, FS_Subset
  <2>6. Cardinality(S) - Cardinality(Ahead(y)) < d
    BY <1>1, <1>7, <2>3, <2>4, <2>5
  <2>7. d <= Cardinality(S) - Cardinality(Ahead(y))
    BY <1>3, <1>6
  <2>8. d \in Nat
    BY <1>4
  <2> QED
    BY <1>1, <2>4, <2>6, <2>7, <2>8
<1> QED
  BY <1>8

\* ranked is an order of the memories in found from the best to the worst.
IsRanked(ranked, query, found, n) ==
    /\ ranked \in [1 .. n -> found]
    /\ \A i, j \in 1 .. n : i < j => Better(query, ranked[i], ranked[j])

LEMMA RankingExists ==
    ASSUME NEW query, IsFiniteSet(query), NEW memories, Memories(memories)
    PROVE  \A S \in SUBSET memories : \E ranked : IsRanked(ranked, query, S, Cardinality(S))
<1> DEFINE T == {k \in Nat : \A S \in SUBSET memories : Cardinality(S) = k =>
                                \E ranked : IsRanked(ranked, query, S, k)}
<1>1. ASSUME NEW S \in SUBSET memories
      PROVE  IsFiniteSet(S) /\ Cardinality(S) \in Nat /\ (Cardinality(S) = 0 <=> S = {})
  BY FS_Subset, FS_CardinalityType, FS_EmptySet DEF Memories
<1>2. 0 \in T
  <2> DEFINE none == [i \in 1 .. 0 |-> i]
  <2>1. \A S : none \in [1 .. 0 -> S]
    OBVIOUS
  <2>2. \A i : i \notin 1 .. 0
    OBVIOUS
  <2>3. \A S : IsRanked(none, query, S, 0)
    BY <2>1, <2>2 DEF IsRanked
  <2> QED
    BY <2>3
<1>3. ASSUME NEW k \in T PROVE k + 1 \in T
  <2>1. k \in Nat /\ k + 1 \in Nat
    OBVIOUS
  <2>2. \A S \in SUBSET memories : Cardinality(S) = k => \E ranked : IsRanked(ranked, query, S, k)
    OBVIOUS
  <2> HIDE DEF T
  <2>3. ASSUME NEW S \in SUBSET memories, Cardinality(S) = k + 1
        PROVE  \E ranked : IsRanked(ranked, query, S, k + 1)
    <3>1. S # {}
      BY <1>1, <2>1, <2>3
    <3>2. PICK x \in S : \A y \in S \ {x} : Better(query, y, x)
      BY <3>1, WorstExists
    <3>3. Cardinality(S \ {x}) = k
      <4>1. Cardinality(S \ {x}) = Cardinality(S) - 1
        BY <1>1, FS_RemoveElement
      <4> QED
        BY <2>1, <2>3, <4>1
    <3>4. PICK r : IsRanked(r, query, S \ {x}, k)
      <4>1. S \ {x} \in SUBSET memories
        OBVIOUS
      <4> QED
        BY <2>2, <3>3, <4>1
    <3> DEFINE s == [i \in 1 .. k + 1 |-> IF i = k + 1 THEN x ELSE r[i]]
    <3>5. \A i \in 1 .. k + 1 : i # k + 1 => i \in 1 .. k
      BY <2>1
    <3>6. \A i \in 1 .. k : r[i] \in S \ {x}
      BY <3>4 DEF IsRanked
    <3>7. s \in [1 .. k + 1 -> S]
      BY <3>5, <3>6
    <3>8. ASSUME NEW i \in 1 .. k + 1, NEW j \in 1 .. k + 1, i < j
          PROVE  Better(query, s[i], s[j])
      <4>1. i # k + 1 /\ i \in 1 .. k /\ s[i] = r[i]
        BY <2>1, <3>5, <3>8
      <4>2. CASE j = k + 1
        BY <3>2, <3>6, <4>1, <4>2
      <4>3. CASE j # k + 1
        <5>1. j \in 1 .. k /\ s[j] = r[j]
          BY <3>5, <4>3
        <5> QED
          BY <3>4, <3>8, <4>1, <5>1 DEF IsRanked
      <4> QED
        BY <4>2, <4>3
    <3> HIDE DEF s
    <3>9. IsRanked(s, query, S, k + 1)
      BY <3>7, <3>8 DEF IsRanked
    <3> QED
      BY <3>9
  <2> QED
    BY <2>1, <2>3 DEF T
<1>4. T \in SUBSET Nat
  OBVIOUS
<1> HIDE DEF T
<1>5. T = Nat
  BY <1>2, <1>3, <1>4, SetInduction
<1> QED
  BY <1>1, <1>5 DEF T

LEMMA RankedIs ==
    ASSUME NEW query, IsFiniteSet(query), NEW memories, Memories(memories),
           NEW found \in SUBSET memories
    PROVE  /\ Cardinality(found) \in Nat
           /\ IsRanked(Ranked(query, found), query, found, Cardinality(found))
           /\ \A m \in found : \E i \in 1 .. Cardinality(found) : Ranked(query, found)[i] = m
<1> DEFINE n == Cardinality(found)
           r == Ranked(query, found)
<1>1. IsFiniteSet(found) /\ n \in Nat
  BY FS_Subset, FS_CardinalityType DEF Memories
<1> HIDE DEF n
<1>2. \E ranked : IsRanked(ranked, query, found, n)
  BY RankingExists DEF n
<1>3. IsRanked(r, query, found, n)
  <2>1. r = CHOOSE ranked \in [1 .. n -> found] :
              \A i, j \in 1 .. n : i < j => Better(query, ranked[i], ranked[j])
    BY DEF Ranked, n
  <2> HIDE DEF r
  <2> QED
    BY <1>2, <2>1 DEF IsRanked
<1> HIDE DEF r
<1>4. ASSUME NEW i \in 1 .. n, NEW j \in 1 .. n, r[i] = r[j] PROVE i = j
  <2>1. r[i] \in memories
    BY <1>3 DEF IsRanked
  <2>2. ~Better(query, r[i], r[j])
    BY <1>4, <2>1, BetterOrders
  <2>3. ~(i < j) /\ ~(j < i)
    BY <1>3, <1>4, <2>2 DEF IsRanked
  <2> QED
    BY <1>1, <2>3
<1> DEFINE R == {r[i] : i \in 1 .. n}
<1>5. r \in [1 .. n -> R] /\ R \in SUBSET found
  BY <1>3 DEF IsRanked
<1>6. ExistsBijection(1 .. n, R)
  <2>1. r \in Bijection(1 .. n, R)
    BY <1>4, <1>5 DEF Bijection, Injection, Surjection, IsInjective
  <2> QED
    BY <2>1 DEF ExistsBijection
<1> HIDE DEF R
<1>7. Cardinality(R) = n
  BY <1>1, <1>6, FS_CountingElements
<1>8. R = found
  BY <1>1, <1>5, <1>7, FS_Subset DEF n
<1>9. \A m \in found : \E i \in 1 .. n : r[i] = m
  BY <1>8 DEF R
<1> QED
  BY <1>1, <1>3, <1>9 DEF n, r

\* The search answers the best of what it found, and leaves out only what comes
\* after as many as were asked for.
LEMMA RankMemoriesIs ==
    ASSUME NEW query, IsFiniteSet(query), NEW memories, Memories(memories), NEW limit \in Nat
    PROVE  LET s == RankMemories(query, memories, limit) IN
           /\ s \in Seq(Found(query, memories)) /\ Len(s) <= limit
           /\ \A i, j \in 1 .. Len(s) : i < j => Better(query, s[i], s[j])
           /\ \A m \in Found(query, memories) :
                 \/ \E i \in 1 .. Len(s) : s[i] = m
                 \/ Cardinality({b \in memories : Better(query, b, m)}) >= limit
           /\ \A i \in 1 .. Len(s) :
                 Cardinality({b \in memories : Better(query, b, s[i])}) < limit
<1> DEFINE found == Found(query, memories)
           n == Cardinality(found)
           r == Ranked(query, found)
           k == Min({limit, Len(r)})
           s == RankMemories(query, memories, limit)
<1>1. found \in SUBSET memories
  BY DEF Found
<1>10. ASSUME NEW m \in found, NEW b \in memories, Better(query, b, m) PROVE b \in found
  <2>1. m \in memories /\ Relevant(query, m) /\ query # {}
    BY DEF Found
  <2>2. Relevant(query, b)
    BY <1>10, <2>1, BetterIsRelevant
  <2> QED
    BY <2>1, <2>2 DEF Found
<1> HIDE DEF found
<1>2. /\ n \in Nat /\ IsRanked(r, query, found, n)
      /\ \A m \in found : \E i \in 1 .. n : r[i] = m
  BY <1>1, RankedIs
<1> HIDE DEF r, n
<1>3. r \in Seq(found) /\ Len(r) = n
  BY <1>2 DEF IsRanked
<1>4. k \in Nat /\ k <= limit /\ k <= n /\ (k = limit \/ k = n)
  <2>1. {limit, Len(r)} \in SUBSET Nat /\ {limit, Len(r)} # {}
    BY <1>2, <1>3
  <2>2. k \in {limit, Len(r)} /\ \A y \in {limit, Len(r)} : k <= y
    BY <2>1, MinIsLeast
  <2> HIDE DEF k
  <2> QED
    BY <1>2, <1>3, <2>2
<1>5. s = SubSeq(r, 1, k)
  BY DEF RankMemories, found, r
<1> HIDE DEF k, s
<1>6. s \in Seq(found) /\ Len(s) = k /\ \A i \in 1 .. k : s[i] = r[i]
  <2>1. 1 \in Int /\ k \in Int
    BY <1>4
  <2>2. \A i \in 1 .. k : r[i] \in found
    BY <1>2, <1>4 DEF IsRanked
  <2>3. /\ SubSeq(r, 1, k) \in Seq(found)
        /\ Len(SubSeq(r, 1, k)) = IF 1 <= k THEN k - 1 + 1 ELSE 0
        /\ \A i \in 1 .. k - 1 + 1 : SubSeq(r, 1, k)[i] = r[1 + i - 1]
    BY <2>1, <2>2, SubSeqProperties
  <2> QED
    BY <1>4, <1>5, <2>3
<1>7. \A i, j \in 1 .. k : i < j => Better(query, s[i], s[j])
  <2>1. \A i \in 1 .. k : i \in 1 .. n
    BY <1>2, <1>4
  <2> QED
    BY <1>2, <1>6, <2>1 DEF IsRanked
<1>8. ASSUME NEW m \in found, ~\E i \in 1 .. k : s[i] = m
      PROVE  Cardinality({b \in memories : Better(query, b, m)}) >= limit
  <2>1. PICK l \in 1 .. n : r[l] = m
    BY <1>2
  <2>2. k < l /\ k = limit /\ \A i \in 1 .. k : i < l /\ i \in 1 .. n
    BY <1>2, <1>4, <1>6, <1>8, <2>1
  <2> DEFINE R == {r[i] : i \in 1 .. k}
             B == {b \in memories : Better(query, b, m)}
  <2>3. R \in SUBSET B
    <3>1. \A i \in 1 .. k : r[i] \in memories /\ Better(query, r[i], m)
      BY <1>1, <1>2, <2>1, <2>2 DEF IsRanked
    <3> QED
      BY <3>1
  <2>4. IsFiniteSet(B) /\ Cardinality(B) \in Nat
    <3>1. B \in SUBSET memories
      OBVIOUS
    <3> HIDE DEF B
    <3> QED
      BY <3>1, FS_Subset, FS_CardinalityType DEF Memories
  <2>5. ASSUME NEW i \in 1 .. k, NEW j \in 1 .. k, r[i] = r[j] PROVE i = j
    <3>1. r[i] \in memories /\ i \in 1 .. n /\ j \in 1 .. n
      BY <1>1, <1>2, <2>2 DEF IsRanked
    <3>2. ~Better(query, r[i], r[j])
      BY <2>5, <3>1, BetterOrders
    <3>3. ~(i < j) /\ ~(j < i)
      BY <1>2, <2>5, <3>1, <3>2 DEF IsRanked
    <3> QED
      BY <1>4, <3>3
  <2> DEFINE f == [i \in 1 .. k |-> r[i]]
  <2>6. f \in Bijection(1 .. k, R)
    BY <2>5 DEF Bijection, Injection, Surjection, IsInjective
  <2>7. ExistsBijection(1 .. k, R)
    BY <2>6 DEF ExistsBijection
  <2> HIDE DEF R, B
  <2>8. Cardinality(R) = k
    BY <1>4, <2>7, FS_CountingElements
  <2>9. Cardinality(R) <= Cardinality(B)
    BY <2>3, <2>4, FS_Subset
  <2> QED
    BY <1>4, <2>2, <2>4, <2>8, <2>9 DEF B
<1>9. ASSUME NEW i \in 1 .. k
      PROVE  Cardinality({b \in memories : Better(query, b, s[i])}) < limit
  <2> DEFINE R == {r[l] : l \in 1 .. i - 1}
             B == {b \in memories : Better(query, b, s[i])}
  <2>1. /\ i \in Nat /\ i - 1 \in Nat /\ i \in 1 .. n /\ s[i] = r[i]
        /\ \A l \in 1 .. i - 1 : l \in 1 .. n
    BY <1>2, <1>4, <1>6
  <2>2. r[i] \in found
    BY <1>2, <2>1 DEF IsRanked
  <2>3. ASSUME NEW b \in B PROVE b \in R
    <3>1. b \in memories /\ Better(query, b, r[i])
      BY <2>1
    <3>2. PICK l \in 1 .. n : r[l] = b
      BY <1>2, <1>10, <2>2, <3>1
    <3>3. ~(i < l)
      <4>1. SUFFICES ASSUME i < l PROVE FALSE
        OBVIOUS
      <4>2. Better(query, r[i], b)
        BY <1>2, <2>1, <3>2, <4>1 DEF IsRanked
      <4>3. r[i] \in memories
        BY <1>1, <2>2
      <4> QED
        BY <3>1, <4>2, <4>3, BetterOrders
    <3>4. i # l
      <4>1. r[i] \in memories
        BY <1>1, <2>2
      <4>2. ~Better(query, r[i], r[i])
        BY <4>1, BetterOrders
      <4> QED
        BY <3>1, <3>2, <4>2
    <3>5. l \in 1 .. i - 1
      BY <2>1, <3>3, <3>4
    <3> QED
      BY <3>2, <3>5
  <2>4. ASSUME NEW a \in 1 .. i - 1, NEW b \in 1 .. i - 1, r[a] = r[b] PROVE a = b
    <3>1. a \in 1 .. n /\ b \in 1 .. n /\ r[a] \in memories
      BY <1>1, <1>2, <2>1 DEF IsRanked
    <3>2. ~Better(query, r[a], r[b])
      BY <2>4, <3>1, BetterOrders
    <3>3. ~(a < b) /\ ~(b < a)
      BY <1>2, <2>4, <3>1, <3>2 DEF IsRanked
    <3> QED
      BY <2>1, <3>3
  <2> DEFINE f == [l \in 1 .. i - 1 |-> r[l]]
  <2>5. f \in Bijection(1 .. i - 1, R)
    BY <2>4 DEF Bijection, Injection, Surjection, IsInjective
  <2>6. ExistsBijection(1 .. i - 1, R)
    BY <2>5 DEF ExistsBijection
  <2>7. B \in SUBSET R /\ R \in SUBSET memories
    <3>1. \A l \in 1 .. i - 1 : r[l] \in memories
      BY <1>1, <1>2, <2>1 DEF IsRanked
    <3> QED
      BY <2>3, <3>1
  <2> HIDE DEF R, B
  <2>8. IsFiniteSet(R) /\ Cardinality(R) = i - 1
    <3>1. IsFiniteSet(R)
      BY <2>7, FS_Subset DEF Memories
    <3> QED
      BY <2>1, <2>6, <3>1, FS_CountingElements
  <2>9. Cardinality(B) <= i - 1 /\ Cardinality(B) \in Nat
    BY <2>7, <2>8, FS_Subset, FS_CardinalityType
  <2> QED
    BY <1>4, <2>1, <2>9 DEF B
<1> QED
  BY <1>4, <1>6, <1>7, <1>8, <1>9 DEF s, found

-----------------------------------------------------------------------------
(* The memories of a request                                                *)

\* p[k] is what is chosen of the first k memories.
MemorySteps(p, M, ranked, subBudget, budget) ==
    /\ p \in [0 .. Len(ranked) -> Seq(M)]
    /\ p[0] = <<>>
    /\ \A k \in 1 .. Len(ranked) :
          p[k] = TakeMemory(p[k - 1], ranked[k], subBudget, budget)
    /\ p[Len(ranked)] = SelectMemories(ranked, subBudget, budget)

LEMMA TakeMemorySteps ==
    ASSUME NEW M, NEW ranked \in Seq(M), NEW subBudget \in Nat, NEW budget \in Nat
    PROVE  \E p : MemorySteps(p, M, ranked, subBudget, budget)
<1> DEFINE Acc == Seq(M)
           first == <<>>
           n == Len(ranked)
           Take(chosen, i) == TakeMemory(chosen, ranked[i], subBudget, budget)
           Eq(c) == c = [S \in SUBSET (1 .. n) |->
                           IF S = {} THEN first ELSE Take(c[S \ {Max(S)}], Max(S))]
           F == [x \in Acc \X (1 .. n) |-> Take(x[1], x[2])]
           c == CHOOSE iter : Eq(iter)
<1>1. n \in Nat /\ DOMAIN ranked = 1 .. n
  BY LenProperties
<1>2. ASSUME NEW v \in Acc, NEW k \in 1 .. n PROVE Take(v, k) \in Acc
  <2>1. ranked[k] \in M
    BY ElementOfSeq
  <2>2. Append(v, ranked[k]) \in Acc
    BY <2>1
  <2> QED
    BY <2>2 DEF TakeMemory
<1> HIDE DEF n
<1>3. F \in [Acc \X (1 .. n) -> Acc] /\ first \in Acc
  <2>1. first \in Acc
    OBVIOUS
  <2> HIDE DEF Acc, Take, first
  <2> QED
    BY <1>2, <2>1
<1>4. \A v \in Acc : \A k \in 1 .. n : F[<<v, k>>] = Take(v, k)
  BY DEF Take
<1>5. SelectMemories(ranked, subBudget, budget) =
        FoldLeft(LAMBDA chosen, m : TakeMemory(chosen, m, subBudget, budget), first, ranked)
  BY DEF SelectMemories
<1> HIDE DEF F, Acc
<1>6. \A S \in SUBSET (1 .. n) : S # {} => Max(S) \in 1 .. n /\ S \ {Max(S)} \in SUBSET (1 .. n)
  BY <1>1, MaxOfSome
<1>7. \E iter : Eq(iter)
  <2> HIDE DEF first, Take
  <2>1. PICK iter \in [SUBSET (1 .. n) -> Acc] : FoldsBy(iter, F, first, n)
    BY <1>1, <1>3, FoldExists
  <2>2. Eq(iter)
    BY <1>4, <1>6, <2>1 DEF FoldsBy
  <2> QED
    BY <2>2
<1>8. Eq(c)
  BY <1>7
<1>9. SelectMemories(ranked, subBudget, budget) = c[1 .. n]
  BY <1>1, <1>5 DEF FoldLeft, MapThenFoldSet
<1> HIDE DEF c, first, Take
<1>10. Folds(c, Acc, first, F, n)
  <2>1. c[{}] = first
    BY <1>8
  <2>2. \A S \in SUBSET (1 .. n) : S # {} /\ c[S \ {Max(S)}] \in Acc =>
          c[S] = F[<<c[S \ {Max(S)}], Max(S)>>]
    BY <1>4, <1>6, <1>8
  <2> QED
    BY <2>1, <2>2 DEF Folds
<1>11. PICK p : Trail(p, c, Acc, first, F, n)
  BY <1>1, <1>3, <1>10, FoldSteps, Zenon
<1>12. \A k \in 1 .. n : k - 1 \in 0 .. n
  BY <1>1
<1>13. \A k \in 1 .. n : p[k] = Take(p[k - 1], k)
  BY <1>4, <1>11, <1>12 DEF Trail
<1> QED
  BY <1>9, <1>11, <1>13 DEF Trail, Acc, first, n, Take, MemorySteps

\* Some of the memories sent are better than m and come before it, the others
\* are worse, and m did not fit beside the better ones.
LeftOut(query, sent, m, subBudget, budget) ==
    \E j \in 0 .. Len(sent) :
        /\ \A i \in 1 .. Len(sent) : IF i <= j THEN Better(query, sent[i], m)
                                              ELSE Better(query, m, sent[i])
        /\ \/ MemoryCost(Append(SubSeq(sent, 1, j), m)) > subBudget
           \/ MemoryCost(Append(SubSeq(sent, 1, j), m)) > budget

\* An element at the end changes nothing of what is before.
LEMMA FrontOfLonger ==
    ASSUME NEW M, NEW sent \in Seq(M), NEW m \in M, NEW j \in 0 .. Len(sent)
    PROVE  SubSeq(Append(sent, m), 1, j) = SubSeq(sent, 1, j)
<1> DEFINE longer == Append(sent, m)
           n == Len(sent)
<1>1. /\ n \in Nat /\ longer \in Seq(M) /\ Len(longer) = n + 1
      /\ \A i \in 1 .. n : longer[i] = sent[i] /\ sent[i] \in M
  BY AppendProperties, LenProperties, ElementOfSeq
<1> HIDE DEF longer, n
<1>2. j \in Nat /\ j <= n /\ \A i \in 1 .. j : i \in 1 .. n
  BY <1>1 DEF n
<1>3. \A i \in 1 .. j : longer[i] = sent[i] /\ longer[i] \in M /\ sent[i] \in M
  BY <1>1, <1>2
<1>4. 1 \in Int /\ j \in Int
  BY <1>2
<1>5. /\ SubSeq(longer, 1, j) \in Seq(M)
      /\ Len(SubSeq(longer, 1, j)) = IF 1 <= j THEN j - 1 + 1 ELSE 0
      /\ \A i \in 1 .. j - 1 + 1 : SubSeq(longer, 1, j)[i] = longer[1 + i - 1]
  BY <1>3, <1>4, SubSeqProperties
<1>6. /\ SubSeq(sent, 1, j) \in Seq(M)
      /\ Len(SubSeq(sent, 1, j)) = IF 1 <= j THEN j - 1 + 1 ELSE 0
      /\ \A i \in 1 .. j - 1 + 1 : SubSeq(sent, 1, j)[i] = sent[1 + i - 1]
  BY <1>3, <1>4, SubSeqProperties
<1>7. /\ Len(SubSeq(longer, 1, j)) = j /\ Len(SubSeq(sent, 1, j)) = j
      /\ \A i \in 1 .. j : SubSeq(longer, 1, j)[i] = SubSeq(sent, 1, j)[i]
  BY <1>2, <1>3, <1>5, <1>6
<1> QED
  BY <1>5, <1>6, <1>7, SeqEqual DEF longer

\* A list is the whole of its front.
LEMMA WholeFront ==
    ASSUME NEW M, NEW sent \in Seq(M)
    PROVE  SubSeq(sent, 1, Len(sent)) = sent
<1> DEFINE n == Len(sent)
<1>1. n \in Nat /\ \A i \in 1 .. n : sent[i] \in M
  BY LenProperties, ElementOfSeq
<1>2. 1 \in Int /\ n \in Int
  BY <1>1
<1> HIDE DEF n
<1>3. /\ SubSeq(sent, 1, n) \in Seq(M)
      /\ Len(SubSeq(sent, 1, n)) = IF 1 <= n THEN n - 1 + 1 ELSE 0
      /\ \A i \in 1 .. n - 1 + 1 : SubSeq(sent, 1, n)[i] = sent[1 + i - 1]
  BY <1>1, <1>2, SubSeqProperties
<1>4. Len(SubSeq(sent, 1, n)) = n /\ \A i \in 1 .. n : SubSeq(sent, 1, n)[i] = sent[i]
  BY <1>1, <1>3
<1> QED
  BY <1>3, <1>4, SeqEqual DEF n

\* What was left out stays so when a worse memory is added.
LEMMA StaysOut ==
    ASSUME NEW M, NEW query, NEW sent \in Seq(M), NEW last \in M, NEW m,
           NEW subBudget, NEW budget, LeftOut(query, sent, m, subBudget, budget),
           Better(query, m, last)
    PROVE  LeftOut(query, Append(sent, last), m, subBudget, budget)
<1> DEFINE longer == Append(sent, last)
           Over(list) == \/ MemoryCost(Append(list, m)) > subBudget
                         \/ MemoryCost(Append(list, m)) > budget
           At(i, list, j) == IF i <= j THEN Better(query, list[i], m)
                                       ELSE Better(query, m, list[i])
<1>1. /\ Len(sent) \in Nat /\ Len(longer) = Len(sent) + 1
      /\ longer[Len(sent) + 1] = last
      /\ \A i \in 1 .. Len(sent) : longer[i] = sent[i]
  BY AppendProperties, LenProperties
<1>2. PICK j \in 0 .. Len(sent) :
        (\A i \in 1 .. Len(sent) : At(i, sent, j)) /\ Over(SubSeq(sent, 1, j))
  BY DEF LeftOut
<1>3. SubSeq(longer, 1, j) = SubSeq(sent, 1, j)
  BY FrontOfLonger
<1> HIDE DEF longer, Over
<1>4. Over(SubSeq(longer, 1, j)) /\ j \in 0 .. Len(longer)
  <2>1. Over(SubSeq(longer, 1, j))
    BY <1>2, <1>3, Zenon
  <2>2. j \in 0 .. Len(longer)
    BY <1>1
  <2> QED
    BY <2>1, <2>2
<1>5. ASSUME NEW i \in 1 .. Len(longer) PROVE At(i, longer, j)
  <2>1. CASE i \in 1 .. Len(sent)
    BY <1>1, <1>2, <2>1
  <2>2. CASE i \notin 1 .. Len(sent)
    <3>1. i = Len(sent) + 1 /\ ~(i <= j)
      BY <1>1, <2>2
    <3> QED
      BY <1>1, <3>1
  <2> QED
    BY <2>1, <2>2
<1> QED
  BY <1>4, <1>5 DEF LeftOut, longer, Over

\* The selected memories fit both budgets, keep the order of the ranking, and
\* one that is not among them did not fit beside the better ones that are.
LEMMA SelectMemoriesIs ==
    ASSUME NEW query, NEW M, \A m \in M : m.text \in Text, NEW ranked \in Seq(M),
           \A i, j \in 1 .. Len(ranked) : i < j => Better(query, ranked[i], ranked[j]),
           NEW subBudget \in Nat, NEW budget \in Nat
    PROVE  LET s == SelectMemories(ranked, subBudget, budget) IN
           /\ s \in Seq(M) /\ MemoryCost(s) \in Nat
           /\ MemoryCost(s) <= subBudget /\ MemoryCost(s) <= budget
           /\ \A i, j \in 1 .. Len(s) : i < j => Better(query, s[i], s[j])
           /\ \A l \in 1 .. Len(ranked) :
                 \/ \E i \in 1 .. Len(s) : s[i] = ranked[l]
                 \/ LeftOut(query, s, ranked[l], subBudget, budget)
<1> DEFINE n == Len(ranked)
<1>1. n \in Nat /\ \A i \in 1 .. n : ranked[i] \in M
  BY LenProperties
<1>2. PICK p : MemorySteps(p, M, ranked, subBudget, budget)
  BY TakeMemorySteps, Zenon
<1>3. /\ p \in [0 .. n -> Seq(M)] /\ p[0] = <<>>
      /\ \A k \in 1 .. n : p[k] = TakeMemory(p[k - 1], ranked[k], subBudget, budget)
      /\ p[n] = SelectMemories(ranked, subBudget, budget)
  BY <1>2 DEF MemorySteps
<1> HIDE DEF n
<1> DEFINE Fits(s)      == MemoryCost(s) <= subBudget /\ MemoryCost(s) <= budget
           From(s, k)   == \A i \in 1 .. Len(s) : \E l \in 1 .. k : s[i] = ranked[l]
           Sorted(s)    == \A i, j \in 1 .. Len(s) : i < j => Better(query, s[i], s[j])
           Has(s, m)    == \E i \in 1 .. Len(s) : s[i] = m
           Tried(s, k)  == \A l \in 1 .. k :
                              Has(s, ranked[l]) \/ LeftOut(query, s, ranked[l], subBudget, budget)
           Good(s, k)   == Fits(s) /\ From(s, k) /\ Sorted(s) /\ Tried(s, k)
           T            == {k \in Nat : Good(p[k], k)}
<1>4. 0 \in T
  <2>1. Fits(<<>>)
    BY DEF MemoryCost
  <2>2. From(<<>>, 0) /\ Sorted(<<>>) /\ Tried(<<>>, 0)
    OBVIOUS
  <2> HIDE DEF Fits, From, Sorted, Tried
  <2> QED
    BY <1>3, <2>1, <2>2
<1>5. ASSUME NEW k \in 1 .. n, k - 1 \in T PROVE k \in T
  <2> DEFINE s == p[k - 1]
             m == ranked[k]
             longer == Append(s, m)
  <2>1. k \in Nat /\ k - 1 \in Nat /\ k - 1 \in 0 .. n /\ s \in Seq(M) /\ m \in M
    <3>1. k \in Nat /\ k - 1 \in Nat /\ k - 1 \in 0 .. n
      BY <1>1
    <3> QED
      BY <1>1, <1>3, <3>1
  <2>2. Good(s, k - 1)
    BY <1>5
  <2>3. Len(s) \in Nat
    BY <2>1, LenProperties
  <2>4. p[k] = IF MemoryCost(longer) > subBudget \/ MemoryCost(longer) > budget THEN s ELSE longer
    BY <1>3 DEF TakeMemory
  <2>5. \A l \in 1 .. k - 1 : l \in 1 .. n /\ l \in 1 .. k /\ Better(query, ranked[l], m)
    <3>1. ASSUME NEW l \in 1 .. k - 1 PROVE l \in 1 .. n /\ l \in 1 .. k /\ l < k
      BY <1>1, <2>1
    <3> QED
      BY <3>1 DEF n
  <2>6. \A l \in 1 .. k : l \in 1 .. k - 1 \/ l = k
    BY <2>1
  <2> HIDE DEF s, m
  <2>7. /\ longer \in Seq(M) /\ Len(longer) = Len(s) + 1
        /\ \A i \in 1 .. Len(s) : longer[i] = s[i]
        /\ longer[Len(s) + 1] = m
    BY <2>1, AppendProperties
  <2>8. MemoryCost(longer) \in Nat
    BY <2>7, MemoryCostIsNat
  <2> HIDE DEF longer
  <2>9. \A i \in 1 .. Len(s) : Better(query, s[i], m)
    BY <2>2, <2>5
  <2>10. ASSUME ~Fits(longer) PROVE Good(p[k], k)
    <3>1. p[k] = s
      BY <2>4, <2>8, <2>10
    <3>2. From(s, k)
      BY <2>2, <2>5
    <3>3. LeftOut(query, s, m, subBudget, budget)
      <4>1. SubSeq(s, 1, Len(s)) = s
        BY <2>1, WholeFront
      <4>2. MemoryCost(longer) > subBudget \/ MemoryCost(longer) > budget
        BY <2>8, <2>10
      <4>3. MemoryCost(Append(SubSeq(s, 1, Len(s)), m)) > subBudget
            \/ MemoryCost(Append(SubSeq(s, 1, Len(s)), m)) > budget
        BY <4>1, <4>2 DEF longer
      <4>4. Len(s) \in 0 .. Len(s) /\ \A i \in 1 .. Len(s) : i <= Len(s)
        BY <2>3
      <4> QED
        BY <2>9, <4>3, <4>4 DEF LeftOut
    <3>4. Tried(s, k)
      <4> HIDE DEF Has
      <4> QED
        BY <2>2, <2>6, <3>3 DEF m
    <3> HIDE DEF Fits, From, Sorted, Tried
    <3> QED
      BY <2>2, <3>1, <3>2, <3>4
  <2>11. ASSUME Fits(longer) PROVE Good(p[k], k)
    <3>1. p[k] = longer
      BY <2>1, <2>4, <2>8, <2>11
    <3>2. \A i \in 1 .. Len(longer) : i \in 1 .. Len(s) \/ i = Len(s) + 1
      BY <2>3, <2>7
    <3>3. Len(s) + 1 \in 1 .. Len(longer) /\ \A i \in 1 .. Len(s) : i \in 1 .. Len(longer)
      BY <2>3, <2>7
    <3>4. From(longer, k)
      <4>1. ASSUME NEW i \in 1 .. Len(longer) PROVE \E l \in 1 .. k : longer[i] = ranked[l]
        <5>1. CASE i = Len(s) + 1
          <6>1. k \in 1 .. k
            BY <2>1
          <6> QED
            BY <2>7, <5>1, <6>1 DEF m
        <5>2. CASE i \in 1 .. Len(s)
          BY <2>2, <2>5, <2>7, <5>2
        <5> QED
          BY <3>2, <5>1, <5>2
      <4> QED
        BY <4>1
    <3>5. Sorted(longer)
      <4> SUFFICES ASSUME NEW i \in 1 .. Len(longer), NEW j \in 1 .. Len(longer), i < j
                   PROVE  Better(query, longer[i], longer[j])
        OBVIOUS
      <4>1. i \in 1 .. Len(s)
        BY <2>3, <3>2
      <4>2. CASE j \in 1 .. Len(s)
        BY <2>2, <2>7, <4>1, <4>2
      <4>3. CASE j = Len(s) + 1
        BY <2>7, <2>9, <4>1, <4>3
      <4> QED
        BY <3>2, <4>2, <4>3
    <3>6. Tried(longer, k)
      <4>1. SUFFICES ASSUME NEW l \in 1 .. k
                     PROVE  \/ Has(longer, ranked[l])
                            \/ LeftOut(query, longer, ranked[l], subBudget, budget)
        OBVIOUS
      <4>2. CASE l = k
        BY <2>7, <3>3, <4>2 DEF m
      <4>3. CASE l \in 1 .. k - 1
        <5>1. CASE Has(s, ranked[l])
          BY <2>7, <3>3, <5>1
        <5>2. CASE LeftOut(query, s, ranked[l], subBudget, budget)
          <6>1. Better(query, ranked[l], m)
            BY <2>5, <4>3
          <6> QED
            BY <2>1, <5>2, <6>1, StaysOut DEF longer
        <5>3. Has(s, ranked[l]) \/ LeftOut(query, s, ranked[l], subBudget, budget)
          BY <2>2, <4>3
        <5> QED
          BY <5>1, <5>2, <5>3
      <4> QED
        BY <2>6, <4>2, <4>3
    <3> HIDE DEF Fits, From, Sorted, Tried
    <3> QED
      BY <2>11, <3>1, <3>4, <3>5, <3>6
  <2> HIDE DEF Good, Fits
  <2> QED
    BY <2>1, <2>10, <2>11
<1>6. n \in T
  <2> HIDE DEF T
  <2>1. \A k \in 0 .. n : k \in T
    BY <1>1, <1>4, <1>5, UpTo
  <2> QED
    BY <1>1, <2>1
<1>7. p[n] \in Seq(M)
  BY <1>1, <1>3
<1>8. MemoryCost(p[n]) \in Nat
  BY <1>7, MemoryCostIsNat
<1>9. Good(p[n], n)
  <2> HIDE DEF Good
  <2> QED
    BY <1>6
<1> QED
  BY <1>3, <1>7, <1>8, <1>9 DEF n

-----------------------------------------------------------------------------
(* The history of a request                                                 *)

Turn == Seq(Message) \ {<<>>}

\* The history is grouped into turns of at least one message.
LEMMA GroupTurnsIs ==
    ASSUME NEW history \in Seq(Message)
    PROVE  GroupTurns(history) \in Seq(Turn)
<1> DEFINE Acc == Seq(Turn)
           first == <<>>
           n == Len(history)
           Eq(c) == c = [S \in SUBSET (1 .. n) |->
                           IF S = {} THEN first
                           ELSE AddToTurns(c[S \ {Max(S)}], history[Max(S)])]
           F == [x \in Acc \X (1 .. n) |-> AddToTurns(x[1], history[x[2]])]
           c == CHOOSE iter : Eq(iter)
<1>1. n \in Nat /\ DOMAIN history = 1 .. n
  BY LenProperties
<1>2. ASSUME NEW v \in Acc, NEW k \in 1 .. n PROVE AddToTurns(v, history[k]) \in Acc
  <2>1. history[k] \in Message
    BY ElementOfSeq
  <2>2. <<history[k]>> \in Turn
    BY <2>1 DEF Turn
  <2>3. Append(v, <<history[k]>>) \in Acc
    BY <2>2
  <2>4. ASSUME v # <<>>
        PROVE  [v EXCEPT ![Len(v)] = Append(v[Len(v)], history[k])] \in Acc
    <3>1. Len(v) \in 1 .. Len(v)
      BY <2>4, EmptySeq
    <3>2. v[Len(v)] \in Turn
      BY <3>1, ElementOfSeq
    <3>3. Append(v[Len(v)], history[k]) \in Turn
      <4>1. v[Len(v)] \in Seq(Message)
        BY <3>2 DEF Turn
      <4>2. /\ Append(v[Len(v)], history[k]) \in Seq(Message)
            /\ Append(v[Len(v)], history[k]) # <<>>
        BY <2>1, <4>1, AppendProperties
      <4> QED
        BY <4>2 DEF Turn
    <3> QED
      BY <3>1, <3>3, ExceptSeq
  <2> QED
    BY <2>3, <2>4 DEF AddToTurns
<1> HIDE DEF n
<1>3. F \in [Acc \X (1 .. n) -> Acc] /\ first \in Acc
  <2>1. first \in Acc
    OBVIOUS
  <2> HIDE DEF Acc, first
  <2> QED
    BY <1>2, <2>1
<1>4. \A v \in Acc : \A k \in 1 .. n : F[<<v, k>>] = AddToTurns(v, history[k])
  OBVIOUS
<1> HIDE DEF F, Acc
<1>5. \A S \in SUBSET (1 .. n) : S # {} => Max(S) \in 1 .. n /\ S \ {Max(S)} \in SUBSET (1 .. n)
  BY <1>1, MaxOfSome
<1>6. \E iter : Eq(iter)
  <2> HIDE DEF first
  <2>1. PICK iter \in [SUBSET (1 .. n) -> Acc] : FoldsBy(iter, F, first, n)
    BY <1>1, <1>3, FoldExists
  <2>2. Eq(iter)
    BY <1>4, <1>5, <2>1 DEF FoldsBy
  <2> QED
    BY <2>2
<1>7. Eq(c)
  BY <1>6
<1>8. GroupTurns(history) = c[1 .. n]
  BY <1>1 DEF GroupTurns, FoldLeft, MapThenFoldSet
<1> HIDE DEF c, first
<1>9. Folds(c, Acc, first, F, n)
  <2>1. c[{}] = first
    BY <1>7
  <2>2. \A S \in SUBSET (1 .. n) : S # {} /\ c[S \ {Max(S)}] \in Acc =>
          c[S] = F[<<c[S \ {Max(S)}], Max(S)>>]
    BY <1>4, <1>5, <1>7
  <2> QED
    BY <2>1, <2>2 DEF Folds
<1>10. PICK p : Trail(p, c, Acc, first, F, n)
  BY <1>1, <1>3, <1>9, FoldSteps, Zenon
<1>11. p[n] \in Acc /\ p[n] = c[1 .. n]
  BY <1>1, <1>10 DEF Trail
<1> QED
  BY <1>8, <1>11 DEF Acc

\* A turn that is sent, and what the selection keeps of the turns so far.
Sent == [messages : Turn, keep : BOOLEAN]
Taken == [turns : Seq(Sent), room : Nat, tokens : Nat, open : BOOLEAN]

LEMMA TakeTurnIs ==
    ASSUME NEW acc \in Taken, NEW turn \in Turn
    PROVE  LET Take(keep, cost) ==
                 [turns |-> <<[messages |-> turn, keep |-> keep]>> \o acc.turns,
                  room |-> acc.room - Len(turn), tokens |-> acc.tokens - cost,
                  open |-> acc.room > Len(turn)]
           IN /\ TakeTurn(acc, turn) \in Taken
              /\ \/ ~acc.open /\ TakeTurn(acc, turn) = acc
                 \/ /\ acc.open /\ TakeTurn(acc, turn) = [acc EXCEPT !.open = FALSE]
                    /\ Len(turn) > acc.room \/ TextOnlyCost(turn) > acc.tokens
                 \/ /\ acc.open /\ FullCost(turn) <= acc.tokens
                    /\ TakeTurn(acc, turn) = Take(TRUE, FullCost(turn))
                 \/ /\ acc.open /\ TextOnlyCost(turn) <= acc.tokens
                    /\ FullCost(turn) > acc.tokens
                    /\ TakeTurn(acc, turn) = Take(FALSE, TextOnlyCost(turn))
<1> DEFINE Take(keep, cost) ==
             [turns |-> <<[messages |-> turn, keep |-> keep]>> \o acc.turns,
              room |-> acc.room - Len(turn), tokens |-> acc.tokens - cost,
              open |-> acc.room > Len(turn)]
<1>1. /\ acc.turns \in Seq(Sent) /\ acc.room \in Nat /\ acc.tokens \in Nat /\ acc.open \in BOOLEAN
      /\ acc = [turns |-> acc.turns, room |-> acc.room, tokens |-> acc.tokens, open |-> acc.open]
  BY DEF Taken
<1>2. TextOnlyCost(turn) \in Nat /\ FullCost(turn) \in Nat /\ Len(turn) \in Nat
  BY TurnCosts, LenProperties DEF Turn
<1>3. ASSUME NEW keep \in BOOLEAN, NEW cost \in Nat, cost <= acc.tokens, Len(turn) <= acc.room
      PROVE  Take(keep, cost) \in Taken
  <2>1. [messages |-> turn, keep |-> keep] \in Sent
    BY DEF Sent
  <2>2. <<[messages |-> turn, keep |-> keep]>> \o acc.turns \in Seq(Sent)
    BY <1>1, <2>1, InFront
  <2> QED
    BY <1>1, <1>2, <1>3, <2>2 DEF Taken
<1>4. [acc EXCEPT !.open = FALSE] \in Taken
  BY DEF Taken
<1>5. CASE ~acc.open
  BY <1>5 DEF TakeTurn
<1>6. CASE acc.open /\ Len(turn) > acc.room
  BY <1>4, <1>6 DEF TakeTurn
<1>7. CASE acc.open /\ ~(Len(turn) > acc.room) /\ FullCost(turn) <= acc.tokens
  <2>1. TakeTurn(acc, turn) = Take(TRUE, FullCost(turn))
    BY <1>7 DEF TakeTurn
  <2>2. Len(turn) <= acc.room
    BY <1>1, <1>2, <1>7
  <2>3. Take(TRUE, FullCost(turn)) \in Taken
    BY <1>2, <1>3, <1>7, <2>2
  <2> HIDE DEF Take
  <2> QED
    BY <1>7, <2>1, <2>3 DEF Take
<1>8. CASE /\ acc.open /\ ~(Len(turn) > acc.room)
           /\ ~(FullCost(turn) <= acc.tokens) /\ TextOnlyCost(turn) <= acc.tokens
  <2>1. TakeTurn(acc, turn) = Take(FALSE, TextOnlyCost(turn))
    BY <1>8 DEF TakeTurn
  <2>2. Len(turn) <= acc.room /\ FullCost(turn) > acc.tokens
    BY <1>1, <1>2, <1>8
  <2>3. Take(FALSE, TextOnlyCost(turn)) \in Taken
    BY <1>2, <1>3, <1>8, <2>2
  <2> HIDE DEF Take
  <2> QED
    BY <1>8, <2>1, <2>2, <2>3 DEF Take
<1>9. CASE /\ acc.open /\ ~(Len(turn) > acc.room)
            /\ ~(FullCost(turn) <= acc.tokens) /\ ~(TextOnlyCost(turn) <= acc.tokens)
  <2>1. TakeTurn(acc, turn) = [acc EXCEPT !.open = FALSE]
    BY <1>9 DEF TakeTurn
  <2>2. TextOnlyCost(turn) > acc.tokens
    BY <1>1, <1>2, <1>9
  <2> QED
    BY <1>4, <1>9, <2>1, <2>2
<1> QED
  BY <1>5, <1>6, <1>7, <1>8, <1>9

LEMMA ListOf ==
    ASSUME NEW S, NEW n \in Nat, NEW f \in [1 .. n -> S]
    PROVE  f \in Seq(S) /\ Len(f) = n
OBVIOUS

LEMMA TurnCostIsNat ==
    ASSUME NEW x \in Sent
    PROVE  TurnCost(x) \in Nat /\ Len(x.messages) \in Nat \ {0} /\ x.messages \in Seq(Message)
<1>1. x.messages \in Seq(Message) /\ x.messages # <<>>
  BY DEF Sent, Turn
<1> QED
  BY <1>1, TurnCosts, EmptySeq DEF TurnCost

\* One more turn in front adds its cost and its messages.
LEMMA CostInFront ==
    ASSUME NEW x \in Sent, NEW turns \in Seq(Sent)
    PROVE  /\ CostOf(turns) \in Nat
           /\ CostOf(<<x>> \o turns) = TurnCost(x) + CostOf(turns)
<1> DEFINE more == <<x>> \o turns
           costs == [i \in DOMAIN turns |-> TurnCost(turns[i])]
           others == [i \in DOMAIN more |-> TurnCost(more[i])]
           a == TurnCost(x)
           n == Len(turns)
<1>1. n \in Nat /\ DOMAIN turns = 1 .. n
  BY LenProperties
<1>2. \A i \in 1 .. n : turns[i] \in Sent
  BY ElementOfSeq
<1>3. a \in Nat
  BY TurnCostIsNat
<1>4. costs \in Seq(Nat) /\ Len(costs) = n /\ \A i \in 1 .. n : costs[i] = TurnCost(turns[i])
  BY <1>1, <1>2, TurnCostIsNat
<1>5. /\ more \in Seq(Sent) /\ Len(more) = n + 1 /\ more[1] = x
      /\ \A k \in 1 .. n : more[k + 1] = turns[k]
  BY InFront
<1> HIDE DEF n, more
<1>6. DOMAIN more = 1 .. n + 1 /\ \A i \in 1 .. n + 1 : more[i] \in Sent
  <2>1. DOMAIN more = 1 .. Len(more) /\ \A i \in 1 .. Len(more) : more[i] \in Sent
    BY <1>5, LenProperties, ElementOfSeq
  <2> QED
    BY <1>5, <2>1
<1>7. n + 1 \in Nat
  BY <1>1
<1>8. others \in Seq(Nat) /\ Len(others) = n + 1 /\ \A i \in 1 .. n + 1 : others[i] = TurnCost(more[i])
  BY <1>6, <1>7, TurnCostIsNat
<1> HIDE DEF costs, others
<1>9. /\ <<a>> \o costs \in Seq(Nat) /\ Len(<<a>> \o costs) = n + 1 /\ (<<a>> \o costs)[1] = a
      /\ \A k \in 1 .. n : (<<a>> \o costs)[k + 1] = costs[k]
  BY <1>3, <1>4, InFront
<1> HIDE DEF a
<1>10. ASSUME NEW i \in 1 .. n + 1 PROVE others[i] = (<<a>> \o costs)[i]
  <2>1. CASE i = 1
    BY <1>5, <1>8, <1>9, <2>1 DEF a
  <2>2. CASE i # 1
    <3>1. i - 1 \in 1 .. n /\ (i - 1) + 1 = i
      BY <1>1, <2>2
    <3>2. others[i] = TurnCost(turns[i - 1])
      BY <1>5, <1>8, <3>1
    <3>3. (<<a>> \o costs)[i] = costs[i - 1]
      BY <1>9, <3>1
    <3> QED
      BY <1>4, <3>1, <3>2, <3>3
  <2> QED
    BY <2>1, <2>2
<1>11. others = <<a>> \o costs
  BY <1>8, <1>9, <1>10, SeqEqual
<1>12. Total(others) = a + Total(costs) /\ Total(costs) \in Nat
  BY <1>3, <1>4, <1>11, TotalInFront, TotalIsNat
<1> QED
  BY <1>12 DEF CostOf, costs, others, a, more

LEMMA MessagesInFront ==
    ASSUME NEW x \in Sent, NEW turns \in Seq(Sent)
    PROVE  /\ Len(Messages(turns)) \in Nat
           /\ Len(Messages(<<x>> \o turns)) = Len(x.messages) + Len(Messages(turns))
<1> DEFINE more == <<x>> \o turns
           one == [i \in DOMAIN turns |-> turns[i].messages]
           two == [i \in DOMAIN more |-> more[i].messages]
           lens == [i \in DOMAIN one |-> Len(one[i])]
           others == [i \in DOMAIN two |-> Len(two[i])]
           a == Len(x.messages)
           n == Len(turns)
<1>1. n \in Nat /\ DOMAIN turns = 1 .. n
  BY LenProperties
<1>2. \A i \in 1 .. n : turns[i] \in Sent
  BY ElementOfSeq
<1>3. a \in Nat
  BY TurnCostIsNat
<1>4. /\ more \in Seq(Sent) /\ Len(more) = n + 1 /\ more[1] = x
      /\ \A k \in 1 .. n : more[k + 1] = turns[k]
  BY InFront
<1> HIDE DEF n, more
<1>5. DOMAIN more = 1 .. n + 1 /\ n + 1 \in Nat /\ \A i \in 1 .. n + 1 : more[i] \in Sent
  <2>1. DOMAIN more = 1 .. Len(more) /\ \A i \in 1 .. Len(more) : more[i] \in Sent
    BY <1>4, LenProperties, ElementOfSeq
  <2> QED
    BY <1>1, <1>4, <2>1
<1>6. one \in Seq(Seq(Message)) /\ DOMAIN one = 1 .. n /\ \A i \in 1 .. n : one[i] = turns[i].messages
  BY <1>1, <1>2, TurnCostIsNat
<1>7. two \in Seq(Seq(Message)) /\ DOMAIN two = 1 .. n + 1
      /\ \A i \in 1 .. n + 1 : two[i] = more[i].messages
  <2>1. two \in [1 .. n + 1 -> Seq(Message)]
    BY <1>5, TurnCostIsNat
  <2>2. \A i \in 1 .. n + 1 : two[i] = more[i].messages
    BY <1>5
  <2> HIDE DEF two
  <2> QED
    BY <1>5, <2>1, <2>2, ListOf
<1> HIDE DEF one, two
<1>8. lens \in Seq(Nat) /\ Len(lens) = n /\ \A i \in 1 .. n : lens[i] = Len(turns[i].messages)
  BY <1>1, <1>2, <1>6, TurnCostIsNat
<1>9. others \in Seq(Nat) /\ Len(others) = n + 1
      /\ \A i \in 1 .. n + 1 : others[i] = Len(more[i].messages)
  <2>1. \A i \in 1 .. n + 1 : Len(more[i].messages) \in Nat
    BY <1>5, TurnCostIsNat
  <2>2. others \in [1 .. n + 1 -> Nat] /\ \A i \in 1 .. n + 1 : others[i] = Len(more[i].messages)
    BY <1>7, <2>1
  <2> HIDE DEF others
  <2> QED
    BY <1>5, <2>2, ListOf
<1> HIDE DEF lens, others
<1>10. /\ <<a>> \o lens \in Seq(Nat) /\ Len(<<a>> \o lens) = n + 1 /\ (<<a>> \o lens)[1] = a
       /\ \A k \in 1 .. n : (<<a>> \o lens)[k + 1] = lens[k]
  BY <1>3, <1>8, InFront
<1> HIDE DEF a
<1>11. ASSUME NEW i \in 1 .. n + 1 PROVE others[i] = (<<a>> \o lens)[i]
  <2>1. CASE i = 1
    BY <1>4, <1>9, <1>10, <2>1 DEF a
  <2>2. CASE i # 1
    <3>1. i - 1 \in 1 .. n /\ (i - 1) + 1 = i
      BY <1>1, <2>2
    <3>2. others[i] = Len(turns[i - 1].messages)
      BY <1>4, <1>9, <3>1
    <3>3. (<<a>> \o lens)[i] = lens[i - 1]
      BY <1>10, <3>1
    <3> QED
      BY <1>8, <3>1, <3>2, <3>3
  <2> QED
    BY <2>1, <2>2
<1>12. others = <<a>> \o lens
  BY <1>9, <1>10, <1>11, SeqEqual
<1>13. Total(others) = a + Total(lens) /\ Total(lens) \in Nat
  BY <1>3, <1>8, <1>12, TotalInFront, TotalIsNat
<1>14. Len(FlattenSeq(one)) = Total(lens) /\ Len(FlattenSeq(two)) = Total(others)
  BY <1>6, <1>7, FlattenLength DEF lens, others
<1> QED
  BY <1>13, <1>14 DEF Messages, one, two, a, more

\* p[k] is what is kept of the newest k turns.
TurnSteps(p, all, room, tokens) ==
    /\ p \in [0 .. Len(all) -> Taken]
    /\ p[0] = [turns |-> <<>>, room |-> room, tokens |-> tokens, open |-> TRUE]
    /\ \A k \in 1 .. Len(all) : p[k] = TakeTurn(p[k - 1], all[Len(all) - k + 1])
    /\ p[Len(all)].turns = SelectTurns(all, room, tokens)

LEMMA TakeTurnSteps ==
    ASSUME NEW all \in Seq(Turn), NEW room \in Nat, NEW tokens \in Nat
    PROVE  \E p : TurnSteps(p, all, room, tokens)
<1> DEFINE first == [turns |-> <<>>, room |-> room, tokens |-> tokens, open |-> TRUE]
           n == Len(all)
           rev == Reverse(all)
           Eq(c) == c = [S \in SUBSET (1 .. n) |->
                           IF S = {} THEN first ELSE TakeTurn(c[S \ {Max(S)}], rev[Max(S)])]
           F == [x \in Taken \X (1 .. n) |-> TakeTurn(x[1], rev[x[2]])]
           c == CHOOSE iter : Eq(iter)
<1>1. n \in Nat /\ DOMAIN all = 1 .. n /\ \A k \in 1 .. n : all[k] \in Turn
  BY LenProperties
<1>2. DOMAIN rev = 1 .. n /\ \A k \in 1 .. n : rev[k] = all[n - k + 1]
  BY DEF Reverse
<1> HIDE DEF n, rev
<1>3. ASSUME NEW v \in Taken, NEW k \in 1 .. n PROVE TakeTurn(v, rev[k]) \in Taken
  <2>1. n - k + 1 \in 1 .. n
    BY <1>1
  <2>2. rev[k] \in Turn
    BY <1>1, <1>2, <2>1
  <2> QED
    BY <2>2, TakeTurnIs
<1>4. F \in [Taken \X (1 .. n) -> Taken] /\ first \in Taken
  <2>1. first \in Taken
    BY DEF Taken
  <2> HIDE DEF first
  <2> QED
    BY <1>3, <2>1
<1>5. \A v \in Taken : \A k \in 1 .. n : F[<<v, k>>] = TakeTurn(v, rev[k])
  OBVIOUS
<1> HIDE DEF F
<1>6. \A S \in SUBSET (1 .. n) : S # {} => Max(S) \in 1 .. n /\ S \ {Max(S)} \in SUBSET (1 .. n)
  BY <1>1, MaxOfSome
<1>7. \E iter : Eq(iter)
  <2> HIDE DEF first
  <2>1. PICK iter \in [SUBSET (1 .. n) -> Taken] : FoldsBy(iter, F, first, n)
    BY <1>1, <1>4, FoldExists
  <2>2. Eq(iter)
    BY <1>5, <1>6, <2>1 DEF FoldsBy
  <2> QED
    BY <2>2
<1>8. Eq(c)
  BY <1>7
<1>9. SelectTurns(all, room, tokens) = c[1 .. n].turns
  BY <1>2 DEF SelectTurns, FoldLeft, MapThenFoldSet, rev
<1> HIDE DEF c, first
<1>10. Folds(c, Taken, first, F, n)
  <2>1. c[{}] = first
    BY <1>8
  <2>2. \A S \in SUBSET (1 .. n) : S # {} /\ c[S \ {Max(S)}] \in Taken =>
          c[S] = F[<<c[S \ {Max(S)}], Max(S)>>]
    BY <1>5, <1>6, <1>8
  <2> QED
    BY <2>1, <2>2 DEF Folds
<1>11. PICK p : Trail(p, c, Taken, first, F, n)
  BY <1>1, <1>4, <1>10, FoldSteps, Zenon
<1>12. \A k \in 1 .. n : k - 1 \in 0 .. n
  BY <1>1
<1>13. ASSUME NEW k \in 1 .. n PROVE p[k] = TakeTurn(p[k - 1], all[n - k + 1])
  <2>1. p[k - 1] \in Taken /\ p[k] = F[<<p[k - 1], k>>]
    BY <1>11, <1>12 DEF Trail
  <2> QED
    BY <1>2, <1>5, <2>1
<1> QED
  BY <1>9, <1>11, <1>13 DEF Trail, first, n, TurnSteps

\* What holds of the selection after the newest k turns: it is the newest turns,
\* each paid, all k while it goes on; where it has stopped, the next turn does
\* not fit; and a turn without its images had no room for them.
Newest(acc, all, k) ==
    LET t == Len(acc.turns) IN
    /\ t <= k /\ (acc.open => t = k)
    /\ \A i \in 1 .. t : acc.turns[i].messages = all[Len(all) - t + i]

Spent(acc, room, tokens) ==
    /\ acc.tokens = tokens - CostOf(acc.turns)
    /\ acc.room = room - Len(Messages(acc.turns))

Stopped(acc, all) ==
    ~acc.open /\ Len(acc.turns) < Len(all) =>
       LET next == all[Len(all) - Len(acc.turns)]
       IN  Len(next) > acc.room \/ TextOnlyCost(next) > acc.tokens

Images(turns, tokens) ==
    \A i \in 1 .. Len(turns) :
       \/ turns[i].keep
       \/ FullCost(turns[i].messages) + CostOf(SubSeq(turns, i + 1, Len(turns))) > tokens

Selected(acc, all, k, room, tokens) ==
    /\ Newest(acc, all, k) /\ Spent(acc, room, tokens) /\ Stopped(acc, all)
    /\ Images(acc.turns, tokens)

LEMMA SelectedFirst ==
    ASSUME NEW all \in Seq(Turn), NEW room \in Nat, NEW tokens \in Nat
    PROVE  Selected([turns |-> <<>>, room |-> room, tokens |-> tokens, open |-> TRUE],
                    all, 0, room, tokens)
<1>1. CostOf(<<>>) = 0
  <2>1. [i \in DOMAIN <<>> |-> TurnCost(<<>>[i])] = <<>>
    OBVIOUS
  <2> QED
    BY <2>1, TotalOfNone DEF CostOf
<1>2. Len(Messages(<<>>)) = 0
  <2>1. [i \in DOMAIN <<>> |-> <<>>[i].messages] = <<>>
    OBVIOUS
  <2> QED
    BY <2>1 DEF Messages, FlattenSeq
<1> QED
  BY <1>1, <1>2 DEF Selected, Newest, Spent, Stopped, Images

\* A turn in front of those taken, whole or without its images.
LEMMA SelectedMore ==
    ASSUME NEW all \in Seq(Turn), NEW room \in Nat, NEW tokens \in Nat,
           NEW k \in 1 .. Len(all), NEW acc \in Taken, acc.open,
           Selected(acc, all, k - 1, room, tokens),
           NEW keep \in BOOLEAN, NEW cost \in Nat, NEW new \in Taken,
           new = [turns |-> <<[messages |-> all[Len(all) - k + 1], keep |-> keep]>> \o acc.turns,
                  room |-> acc.room - Len(all[Len(all) - k + 1]),
                  tokens |-> acc.tokens - cost,
                  open |-> acc.room > Len(all[Len(all) - k + 1])],
           cost = IF keep THEN FullCost(all[Len(all) - k + 1])
                          ELSE TextOnlyCost(all[Len(all) - k + 1]),
           keep \/ FullCost(all[Len(all) - k + 1]) > acc.tokens
    PROVE  Selected(new, all, k, room, tokens)
<1> DEFINE n == Len(all)
           turn == all[Len(all) - k + 1]
           x == [messages |-> turn, keep |-> keep]
           old == acc.turns
           s == <<x>> \o old
<1>1. n \in Nat /\ k \in 1 .. n /\ n - k + 1 \in 1 .. n /\ \A i \in 1 .. n : all[i] \in Turn
  BY LenProperties
<1>2. /\ old \in Seq(Sent) /\ acc.room \in Nat /\ acc.tokens \in Nat
      /\ new.turns = s /\ new.room = acc.room - Len(turn) /\ new.tokens = acc.tokens - cost
      /\ new.open = (acc.room > Len(turn)) /\ new.room \in Nat /\ new.tokens \in Nat
  BY DEF Taken
<1>3. turn \in Turn
  BY <1>1
<1> HIDE DEF turn
<1>4. x \in Sent /\ x.messages = turn /\ x.keep = keep
  BY <1>3 DEF Sent
<1>5. TurnCost(x) = cost
  BY <1>4 DEF TurnCost, turn
<1> HIDE DEF x, old
<1>6. /\ s \in Seq(Sent) /\ Len(s) = Len(old) + 1 /\ s[1] = x
      /\ \A i \in 1 .. Len(old) : s[i + 1] = old[i]
  BY <1>2, <1>4, InFront
<1>7. /\ CostOf(old) \in Nat /\ CostOf(s) = cost + CostOf(old)
      /\ Len(Messages(old)) \in Nat /\ Len(Messages(s)) = Len(turn) + Len(Messages(old))
  BY <1>2, <1>4, <1>5, CostInFront, MessagesInFront
<1> HIDE DEF s
<1>8. Len(old) = k - 1 /\ Len(s) = k /\ \A i \in 1 .. k - 1 : s[i + 1] = old[i]
  BY <1>1, <1>6 DEF Selected, Newest, old
<1>9. \A i \in 1 .. k : i # 1 => i - 1 \in 1 .. k - 1 /\ (i - 1) + 1 = i
  BY <1>1
<1>10. Len(turn) \in Nat \ {0}
  BY <1>4, TurnCostIsNat
<1>11. Newest(new, all, k)
  <2>1. ASSUME NEW i \in 1 .. k PROVE s[i].messages = all[n - k + i]
    <3>1. CASE i = 1
      BY <1>4, <1>6, <3>1 DEF turn
    <3>2. CASE i # 1
      <4>1. s[i] = old[i - 1]
        BY <1>8, <1>9, <3>2
      <4>2. old[i - 1].messages = all[n - (k - 1) + (i - 1)]
        BY <1>8, <1>9, <3>2 DEF Selected, Newest, old
      <4>3. n - (k - 1) + (i - 1) = n - k + i
        BY <1>1
      <4> QED
        BY <4>1, <4>2, <4>3
    <3> QED
      BY <3>1, <3>2
  <2>2. Len(new.turns) = k
    BY <1>2, <1>8
  <2>3. \A i \in 1 .. k : new.turns[i].messages = all[n - k + i]
    BY <1>2, <2>1
  <2>4. k <= k
    BY <1>1
  <2> QED
    BY <2>2, <2>3, <2>4 DEF Newest
<1>12. Spent(new, room, tokens)
  <2>1. acc.tokens = tokens - CostOf(old) /\ acc.room = room - Len(Messages(old))
    BY DEF Selected, Spent, old
  <2>2. tokens - CostOf(old) - cost = tokens - CostOf(s)
    BY <1>7
  <2>3. room - Len(Messages(old)) - Len(turn) = room - Len(Messages(s))
    BY <1>7, <1>10
  <2> QED
    BY <1>2, <2>1, <2>2, <2>3 DEF Spent
<1>13. Stopped(new, all)
  <2> SUFFICES ASSUME ~new.open, k < n PROVE Len(all[n - k]) > new.room
    BY <1>2, <1>8 DEF Stopped
  <2>1. new.room = 0
    <3>1. ~(acc.room > Len(turn))
      BY <1>2
    <3> QED
      BY <1>2, <1>10, <3>1
  <2>2. n - k \in 1 .. n
    BY <1>1
  <2>3. Len(all[n - k]) \in Nat \ {0}
    BY <1>1, <2>2, EmptySeq DEF Turn
  <2> QED
    BY <2>1, <2>3
<1>14. Images(new.turns, tokens)
  <2> SUFFICES ASSUME NEW i \in 1 .. k, ~s[i].keep
               PROVE  FullCost(s[i].messages) + CostOf(SubSeq(s, i + 1, k)) > tokens
    BY <1>2, <1>8 DEF Images
  <2>1. CASE i = 1
    <3>1. SubSeq(s, 2, k) = old
      <4>1. \A j \in 2 .. k : s[j] \in Sent
        BY <1>1, <1>6, <1>8, ElementOfSeq
      <4>2. 2 \in Int /\ k \in Int /\ (IF 2 <= k THEN k - 2 + 1 ELSE 0) = k - 1
        BY <1>1
      <4>3. /\ SubSeq(s, 2, k) \in Seq(Sent) /\ Len(SubSeq(s, 2, k)) = k - 1
            /\ \A j \in 1 .. k - 2 + 1 : SubSeq(s, 2, k)[j] = s[2 + j - 1]
        BY <4>1, <4>2, SubSeqProperties
      <4>4. \A j \in 1 .. k - 1 : j \in 1 .. k - 2 + 1 /\ 2 + j - 1 = j + 1
        BY <1>1
      <4>5. \A j \in 1 .. k - 1 : SubSeq(s, 2, k)[j] = old[j]
        BY <1>8, <4>3, <4>4
      <4>6. old \in Seq(Sent) /\ Len(SubSeq(s, 2, k)) = Len(old)
        BY <1>2, <1>8, <4>3
      <4> QED
        BY <4>3, <4>5, <4>6, SeqEqual
    <3>2. FullCost(turn) > acc.tokens
      BY <1>4, <1>6, <2>1 DEF turn
    <3>3. acc.tokens = tokens - CostOf(old)
      BY DEF Selected, Spent, old
    <3>4. FullCost(turn) \in Nat
      BY <1>3, TurnCosts DEF Turn
    <3>5. FullCost(turn) + CostOf(old) > tokens
      BY <1>2, <1>7, <3>2, <3>3, <3>4
    <3>6. s[i].messages = turn /\ i + 1 = 2
      BY <1>4, <1>6, <2>1
    <3> QED
      BY <3>1, <3>5, <3>6
  <2>2. CASE i # 1
    <3>1. s[i] = old[i - 1] /\ i - 1 \in 1 .. Len(old)
      BY <1>8, <1>9, <2>2
    <3>2. FullCost(old[i - 1].messages) + CostOf(SubSeq(old, (i - 1) + 1, Len(old))) > tokens
      BY <3>1 DEF Selected, Images, old
    <3>3. SubSeq(s, i + 1, k) = SubSeq(old, (i - 1) + 1, Len(old))
      <4>1. \A j \in i + 1 .. k : s[j] \in Sent
        BY <1>1, <1>6, <1>8, ElementOfSeq
      <4>2. \A j \in i .. k - 1 : old[j] \in Sent
        BY <1>1, <1>2, <1>8, ElementOfSeq
      <4>3. /\ i \in Int /\ i + 1 \in Int /\ k \in Int /\ k - 1 \in Int
            /\ (IF i + 1 <= k THEN k - (i + 1) + 1 ELSE 0) = k - i
            /\ (IF i <= k - 1 THEN (k - 1) - i + 1 ELSE 0) = k - i
            /\ k - (i + 1) + 1 = k - i /\ (k - 1) - i + 1 = k - i
        BY <1>1
      <4>4. /\ SubSeq(s, i + 1, k) \in Seq(Sent) /\ Len(SubSeq(s, i + 1, k)) = k - i
            /\ \A j \in 1 .. k - i : SubSeq(s, i + 1, k)[j] = s[(i + 1) + j - 1]
        BY <4>1, <4>3, SubSeqProperties
      <4>5. /\ SubSeq(old, i, k - 1) \in Seq(Sent) /\ Len(SubSeq(old, i, k - 1)) = k - i
            /\ \A j \in 1 .. k - i : SubSeq(old, i, k - 1)[j] = old[i + j - 1]
        BY <4>2, <4>3, SubSeqProperties
      <4>6. ASSUME NEW j \in 1 .. k - i PROVE SubSeq(s, i + 1, k)[j] = SubSeq(old, i, k - 1)[j]
        <5>1. i + j - 1 \in 1 .. k - 1 /\ (i + 1) + j - 1 = (i + j - 1) + 1
          BY <1>1
        <5> QED
          BY <1>8, <4>4, <4>5, <5>1
      <4>7. SubSeq(s, i + 1, k) = SubSeq(old, i, k - 1)
        BY <4>4, <4>5, <4>6, SeqEqual
      <4> QED
        BY <1>8, <4>7, <4>3
    <3> QED
      BY <3>1, <3>2, <3>3
  <2> QED
    BY <2>1, <2>2
<1> QED
  BY <1>11, <1>12, <1>13, <1>14 DEF Selected

LEMMA SelectedStep ==
    ASSUME NEW all \in Seq(Turn), NEW room \in Nat, NEW tokens \in Nat,
           NEW k \in 1 .. Len(all), NEW acc \in Taken,
           Selected(acc, all, k - 1, room, tokens)
    PROVE  Selected(TakeTurn(acc, all[Len(all) - k + 1]), all, k, room, tokens)
<1> DEFINE n == Len(all)
           turn == all[Len(all) - k + 1]
           new == TakeTurn(acc, turn)
           Take(keep, cost) ==
             [turns |-> <<[messages |-> turn, keep |-> keep]>> \o acc.turns,
              room |-> acc.room - Len(turn), tokens |-> acc.tokens - cost,
              open |-> acc.room > Len(turn)]
<1>1. n \in Nat /\ k \in Nat /\ n - k + 1 \in 1 .. n /\ turn \in Turn
  BY LenProperties
<1>2. FullCost(turn) \in Nat /\ TextOnlyCost(turn) \in Nat
  BY <1>1, TurnCosts DEF Turn
<1>3. /\ new \in Taken
      /\ \/ ~acc.open /\ new = acc
         \/ /\ acc.open /\ new = [acc EXCEPT !.open = FALSE]
            /\ Len(turn) > acc.room \/ TextOnlyCost(turn) > acc.tokens
         \/ /\ acc.open /\ FullCost(turn) <= acc.tokens
            /\ new = Take(TRUE, FullCost(turn))
         \/ /\ acc.open /\ TextOnlyCost(turn) <= acc.tokens
            /\ FullCost(turn) > acc.tokens
            /\ new = Take(FALSE, TextOnlyCost(turn))
  BY <1>1, TakeTurnIs
<1> HIDE DEF new
<1>4. Len(acc.turns) \in Nat /\ Len(acc.turns) <= k - 1 /\ (acc.open => Len(acc.turns) = k - 1)
  <2>1. acc.turns \in Seq(Sent)
    BY DEF Taken
  <2> QED
    BY <2>1, LenProperties DEF Selected, Newest
<1>5. /\ Len(acc.turns) <= k
      /\ \A i \in 1 .. Len(acc.turns) : acc.turns[i].messages = all[Len(all) - Len(acc.turns) + i]
  <2>1. Len(acc.turns) <= k
    BY <1>1, <1>4
  <2> QED
    BY <2>1 DEF Selected, Newest
<1>6. CASE ~acc.open /\ new = acc
  <2>1. Newest(acc, all, k)
    BY <1>6, <1>5 DEF Newest
  <2> QED
    BY <1>6, <2>1 DEF Selected, new
<1>7. CASE /\ acc.open /\ new = [acc EXCEPT !.open = FALSE]
           /\ Len(turn) > acc.room \/ TextOnlyCost(turn) > acc.tokens
  <2>1. /\ new.turns = acc.turns /\ new.room = acc.room /\ new.tokens = acc.tokens
        /\ new.open = FALSE
    BY <1>7 DEF Taken
  <2>2. Newest(new, all, k)
    BY <1>5, <2>1 DEF Newest
  <2>3. Spent(new, room, tokens) /\ Images(new.turns, tokens)
    BY <2>1 DEF Selected, Spent
  <2>4. Stopped(new, all)
    <3>1. n - Len(acc.turns) = n - k + 1
      BY <1>1, <1>4, <1>7
    <3>2. all[Len(all) - Len(new.turns)] = turn
      BY <2>1, <3>1
    <3> HIDE DEF turn
    <3> QED
      BY <1>7, <2>1, <3>2 DEF Stopped
  <2> QED
    BY <2>2, <2>3, <2>4 DEF Selected, new
<1>8. CASE /\ acc.open /\ FullCost(turn) <= acc.tokens /\ new = Take(TRUE, FullCost(turn))
  BY <1>2, <1>3, <1>8, SelectedMore DEF new
<1>9. CASE /\ acc.open /\ FullCost(turn) > acc.tokens
           /\ new = Take(FALSE, TextOnlyCost(turn))
  BY <1>2, <1>3, <1>9, SelectedMore DEF new
<1> QED
  BY <1>3, <1>6, <1>7, <1>8, <1>9

LEMMA PaidTurns ==
    ASSUME NEW s \in Seq(Sent)
    PROVE  CostOf(s) \in Nat /\ Len(Messages(s)) \in Nat
<1> DEFINE msg == [role |-> "user", text |-> <<>>, images |-> 0]
           any == [messages |-> <<msg>>, keep |-> TRUE]
<1>1. msg \in Message
  BY DEF Text, Role, Message
<1> HIDE DEF msg
<1>2. <<msg>> \in Turn
  BY <1>1 DEF Turn
<1>3. any \in Sent
  BY <1>2 DEF Sent
<1> QED
  BY <1>3, CostInFront, MessagesInFront

\* The turns that are sent: the newest, as many as both limits allow.
LEMMA SelectTurnsIs ==
    ASSUME NEW all \in Seq(Turn), NEW room \in Nat, NEW tokens \in Nat
    PROVE  LET s == SelectTurns(all, room, tokens)
               t == Len(s)
           IN  /\ s \in Seq(Sent) /\ t <= Len(all)
               /\ \A i \in 1 .. t : s[i].messages = all[Len(all) - t + i]
               /\ CostOf(s) <= tokens /\ Len(Messages(s)) <= room
               /\ t < Len(all) => \/ Len(all[Len(all) - t]) > room - Len(Messages(s))
                                  \/ TextOnlyCost(all[Len(all) - t]) > tokens - CostOf(s)
               /\ Images(s, tokens)
<1> DEFINE n == Len(all)
           s == SelectTurns(all, room, tokens)
<1>1. n \in Nat
  BY LenProperties
<1>2. PICK p : TurnSteps(p, all, room, tokens)
  BY TakeTurnSteps, Zenon
<1>3. /\ \A k \in 0 .. n : p[k] \in Taken
      /\ p[0] = [turns |-> <<>>, room |-> room, tokens |-> tokens, open |-> TRUE]
      /\ \A k \in 1 .. n : p[k] = TakeTurn(p[k - 1], all[n - k + 1])
      /\ p[n].turns = s
  BY <1>2 DEF TurnSteps
<1> DEFINE T == {k \in Nat : Selected(p[k], all, k, room, tokens)}
<1> HIDE DEF s
<1>4. 0 \in T
  BY <1>3, SelectedFirst
<1>5. ASSUME NEW k \in 1 .. n, k - 1 \in T PROVE k \in T
  <2>1. k \in Nat /\ k - 1 \in 0 .. n
    BY <1>1
  <2>2. p[k - 1] \in Taken /\ p[k] = TakeTurn(p[k - 1], all[n - k + 1])
    BY <1>3, <2>1
  <2>3. Selected(p[k - 1], all, k - 1, room, tokens)
    BY <1>5
  <2>4. Selected(p[k], all, k, room, tokens)
    BY <2>2, <2>3, SelectedStep
  <2> QED
    BY <2>1, <2>4
<1>6. Selected(p[n], all, n, room, tokens)
  <2> HIDE DEF T, n
  <2>1. \A k \in 0 .. n : k \in T
    BY <1>1, <1>4, <1>5, UpTo
  <2> QED
    BY <1>1, <2>1 DEF T
<1>7. p[n] \in Taken
  BY <1>1, <1>3
<1> DEFINE a == p[n]
<1>8. a \in Taken /\ a.turns = s /\ Selected(a, all, n, room, tokens)
  BY <1>3, <1>6, <1>7
<1> HIDE DEF a
<1>9. s \in Seq(Sent) /\ a.room \in Nat /\ a.tokens \in Nat /\ a.open \in BOOLEAN
  BY <1>8 DEF Taken
<1>10. /\ Len(s) <= n /\ (a.open => Len(s) = n)
       /\ \A i \in 1 .. Len(s) : s[i].messages = all[n - Len(s) + i]
  BY <1>8 DEF Selected, Newest
<1>11. a.tokens = tokens - CostOf(s) /\ a.room = room - Len(Messages(s))
  BY <1>8 DEF Selected, Spent
<1>12. CostOf(s) \in Nat /\ Len(Messages(s)) \in Nat
  BY <1>9, PaidTurns
<1>13. CostOf(s) <= tokens /\ Len(Messages(s)) <= room
  BY <1>9, <1>11, <1>12
<1>14. Len(s) < n => Len(all[n - Len(s)]) > a.room \/ TextOnlyCost(all[n - Len(s)]) > a.tokens
  <2>1. Len(s) \in Nat
    BY <1>9, LenProperties
  <2>2. Len(s) < n => ~a.open
    BY <1>1, <1>10, <2>1
  <2> QED
    BY <1>8, <2>2 DEF Selected, Stopped
<1>15. Images(s, tokens)
  BY <1>8 DEF Selected
<1> QED
  BY <1>9, <1>10, <1>11, <1>13, <1>14, <1>15 DEF s

-----------------------------------------------------------------------------
(* The plan                                                                 *)

IsRequest(r) ==
    /\ r.system \in Text /\ r.current \in Message /\ r.history \in Seq(Message)
    /\ r.limit \in Nat /\ r.cap \in Nat /\ r.budget \in Nat /\ r.subBudget \in Nat
    /\ IsFiniteSet(r.query) /\ Memories(r.memories)

\* The candidates are what the search finds, but for those behind the limit.
LEMMA CandidatesAre ==
    ASSUME NEW r, IsRequest(r)
    PROVE  /\ Candidates(r) \in SUBSET r.memories /\ \A m \in Candidates(r) : m.text \in Text
           /\ Candidates(r) = {m \in Found(r.query, r.memories) :
                 Cardinality({b \in r.memories : Better(r.query, b, m)}) < r.limit}
<1>1. Memories(r.memories)
  BY DEF IsRequest
<1>2. \A a, b \in r.memories : Better(r.query, a, b) <=> Outranks(r.query, a, b)
  BY <1>1, BetterOutranks
<1>3. ASSUME NEW m \in r.memories
      PROVE  {b \in r.memories : Better(r.query, b, m)}
               = {b \in r.memories : Outranks(r.query, b, m)}
  BY <1>2
<1>4. /\ Found(r.query, r.memories) \in SUBSET r.memories
      /\ \A m \in r.memories : m \in Found(r.query, r.memories) <=>
                                  (r.query # {} /\ Relevant(r.query, m))
  BY DEF Found
<1>5. \A m \in r.memories : m.text \in Text
  BY <1>1 DEF Memories
<1> QED
  BY <1>3, <1>4, <1>5 DEF Candidates

\* What the memories of a plan are.
LEMMA PlanMemories ==
    ASSUME NEW r, IsRequest(r), NEW left \in Nat, NEW s,
           s = SelectMemories(RankMemories(r.query, r.memories, r.limit), r.subBudget, left)
    PROVE  /\ s \in Seq(Candidates(r))
           /\ MemoryCost(s) \in Nat /\ MemoryCost(s) <= r.subBudget /\ MemoryCost(s) <= left
           /\ \A i, j \in 1 .. Len(s) : i < j => Better(r.query, s[i], s[j])
           /\ \A m \in Candidates(r) :
                 (\E i \in 1 .. Len(s) : s[i] = m) \/ LeftOut(r.query, s, m, r.subBudget, left)
<1> DEFINE found == Found(r.query, r.memories)
           ranked == RankMemories(r.query, r.memories, r.limit)
           Behind(m) == Cardinality({b \in r.memories : Better(r.query, b, m)})
           M == Candidates(r)
<1>1. /\ IsFiniteSet(r.query) /\ Memories(r.memories) /\ r.limit \in Nat /\ r.subBudget \in Nat
  BY DEF IsRequest
<1>2. /\ ranked \in Seq(found)
      /\ \A i, j \in 1 .. Len(ranked) : i < j => Better(r.query, ranked[i], ranked[j])
      /\ \A m \in found : (\E i \in 1 .. Len(ranked) : ranked[i] = m) \/ Behind(m) >= r.limit
      /\ \A i \in 1 .. Len(ranked) : Behind(ranked[i]) < r.limit
  BY <1>1, RankMemoriesIs
<1>3. /\ \A m \in M : m.text \in Text
      /\ M \in SUBSET r.memories /\ M = {m \in found : Behind(m) < r.limit}
  BY CandidatesAre
<1>4. \A m \in r.memories : Behind(m) \in Nat
  <2>1. ASSUME NEW m \in r.memories PROVE Behind(m) \in Nat
    <3> DEFINE B == {b \in r.memories : Better(r.query, b, m)}
    <3>1. B \in SUBSET r.memories
      OBVIOUS
    <3> HIDE DEF B
    <3>2. Cardinality(B) \in Nat
      BY <1>1, <3>1, FS_Subset, FS_CardinalityType DEF Memories
    <3> QED
      BY <3>2 DEF B
  <2> QED
    BY <2>1
<1> HIDE DEF found, ranked, Behind, M
<1>5. ranked \in Seq(M)
  <2>1. \A i \in 1 .. Len(ranked) : ranked[i] \in M
    BY <1>2, <1>3, ElementOfSeq
  <2>2. Len(ranked) \in Nat /\ ranked \in [1 .. Len(ranked) -> M]
    BY <1>2, <2>1, LenProperties
  <2> QED
    BY <2>2, SeqDef
<1>6. \A m \in M : \E i \in 1 .. Len(ranked) : ranked[i] = m
  BY <1>1, <1>2, <1>3, <1>4
<1>7. /\ s \in Seq(M) /\ MemoryCost(s) \in Nat
      /\ MemoryCost(s) <= r.subBudget /\ MemoryCost(s) <= left
      /\ \A i, j \in 1 .. Len(s) : i < j => Better(r.query, s[i], s[j])
      /\ \A l \in 1 .. Len(ranked) :
            (\E i \in 1 .. Len(s) : s[i] = ranked[l])
              \/ LeftOut(r.query, s, ranked[l], r.subBudget, left)
  BY <1>1, <1>2, <1>3, <1>5, SelectMemoriesIs DEF ranked
<1>8. ASSUME NEW m \in M
      PROVE  (\E i \in 1 .. Len(s) : s[i] = m) \/ LeftOut(r.query, s, m, r.subBudget, left)
  BY <1>6, <1>7
<1> QED
  BY <1>7, <1>8 DEF M

\* What the turns of a plan are, for a room and tokens that are left for them.
LEMMA PlanTurns ==
    ASSUME NEW r, IsRequest(r), NEW room \in Nat, NEW tokens \in Nat, NEW s,
           s = SelectTurns(GroupTurns(r.history), room, tokens)
    PROVE  LET all == GroupTurns(r.history) IN
           /\ all \in Seq(Turn) /\ s \in Seq(Sent) /\ Len(s) <= Len(all)
           /\ Messages(s) = FlattenSeq(SubSeq(all, Len(all) - Len(s) + 1, Len(all)))
           /\ CostOf(s) <= tokens /\ Len(Messages(s)) <= room
           /\ Len(s) < Len(all) =>
                 \/ Len(all[Len(all) - Len(s)]) > room - Len(Messages(s))
                 \/ TextOnlyCost(all[Len(all) - Len(s)]) > tokens - CostOf(s)
           /\ Images(s, tokens)
<1> DEFINE all == GroupTurns(r.history)
           n == Len(all)
           t == Len(s)
<1>1. all \in Seq(Turn)
  BY GroupTurnsIs DEF IsRequest
<1> HIDE DEF all
<1>2. /\ s \in Seq(Sent) /\ t <= n /\ \A i \in 1 .. t : s[i].messages = all[n - t + i]
      /\ CostOf(s) <= tokens /\ Len(Messages(s)) <= room
      /\ t < n => \/ Len(all[n - t]) > room - Len(Messages(s))
                  \/ TextOnlyCost(all[n - t]) > tokens - CostOf(s)
      /\ Images(s, tokens)
  BY <1>1, SelectTurnsIs DEF all
<1>3. n \in Nat /\ t \in Nat /\ DOMAIN s = 1 .. t
  BY <1>1, <1>2, LenProperties
<1> DEFINE kept == [i \in DOMAIN s |-> s[i].messages]
           last == SubSeq(all, n - t + 1, n)
<1>4. kept \in Seq(Turn) /\ Len(kept) = t /\ \A i \in 1 .. t : kept[i] = all[n - t + i]
  <2>1. \A i \in 1 .. t : s[i] \in Sent
    BY <1>2, ElementOfSeq
  <2>2. \A i \in 1 .. t : s[i].messages \in Turn
    BY <2>1 DEF Sent
  <2>3. kept \in [1 .. t -> Turn] /\ \A i \in 1 .. t : kept[i] = s[i].messages
    BY <1>3, <2>2
  <2> HIDE DEF kept
  <2>4. kept \in Seq(Turn) /\ Len(kept) = t
    BY <1>3, <2>3, ListOf
  <2> QED
    BY <1>2, <2>3, <2>4
<1>5. last \in Seq(Turn) /\ Len(last) = t /\ \A i \in 1 .. t : last[i] = all[n - t + i]
  <2>1. /\ n - t + 1 \in Int /\ n \in Int
        /\ (IF n - t + 1 <= n THEN n - (n - t + 1) + 1 ELSE 0) = t
        /\ n - (n - t + 1) + 1 = t
        /\ \A i \in 1 .. t : (n - t + 1) + i - 1 = n - t + i
    BY <1>2, <1>3
  <2>2. \A i \in n - t + 1 .. n : all[i] \in Turn
    <3>1. \A i \in n - t + 1 .. n : i \in 1 .. n
      BY <1>2, <1>3
    <3> QED
      BY <1>1, <3>1, ElementOfSeq
  <2>3. /\ last \in Seq(Turn)
        /\ Len(last) = IF n - t + 1 <= n THEN n - (n - t + 1) + 1 ELSE 0
        /\ \A i \in 1 .. n - (n - t + 1) + 1 : last[i] = all[(n - t + 1) + i - 1]
    BY <2>1, <2>2, SubSeqProperties
  <2> HIDE DEF last
  <2> QED
    BY <2>1, <2>3
<1> HIDE DEF kept, last
<1>6. kept = last
  BY <1>4, <1>5, SeqEqual
<1>7. Messages(s) = FlattenSeq(last)
  BY <1>6 DEF Messages, kept
<1> QED
  BY <1>1, <1>2, <1>7 DEF last, all

LEMMA PlanIsSound ==
    ASSUME NEW r, IsRequest(r), Plan(r).status = "ok"
    PROVE  /\ WithinBudget(r, Plan(r)) /\ NewestTurns(r, Plan(r))
           /\ ImagesKept(r, Plan(r)) /\ BestMemories(r, Plan(r))
<1> DEFINE p == Plan(r)
           left == r.budget - Mandatory(r)
           memories == SelectMemories(RankMemories(r.query, r.memories, r.limit), r.subBudget, left)
           tokens == left - MemoryCost(memories)
           turns == SelectTurns(GroupTurns(r.history), r.cap - 1, tokens)
           all == GroupTurns(r.history)
<1>1. r.budget \in Nat /\ r.cap \in Nat /\ r.limit \in Nat /\ r.subBudget \in Nat
  BY DEF IsRequest
<1>2. Mandatory(r) \in Nat
  <2>1. <<r.current>> \in Seq(Message) /\ r.system \in Text
    BY DEF IsRequest
  <2> QED
    <3>1. FullCost(<<r.current>>) \in Nat
      BY <2>1, TurnCosts
    <3>2. TextCost(r.system) \in Nat
      BY <2>1, TextCostIsNat
    <3> QED
      BY <3>1, <3>2 DEF Mandatory
<1>3. ~(Mandatory(r) > r.budget \/ r.cap < 1)
  BY DEF Plan
<1>4. p = [status |-> "ok", memories |-> memories, turns |-> turns]
  BY <1>3 DEF Plan
<1>5. left \in Nat /\ r.cap - 1 \in Nat
  BY <1>1, <1>2, <1>3
<1>6. p.memories = memories /\ p.turns = turns
  BY <1>4
<1> HIDE DEF p, memories
<1>7. /\ memories \in Seq(Candidates(r))
      /\ MemoryCost(memories) \in Nat /\ MemoryCost(memories) <= r.subBudget
      /\ MemoryCost(memories) <= left
      /\ \A i, j \in 1 .. Len(memories) : i < j => Better(r.query, memories[i], memories[j])
      /\ \A m \in Candidates(r) :
            \/ \E i \in 1 .. Len(memories) : memories[i] = m
            \/ LeftOut(r.query, memories, m, r.subBudget, left)
  BY <1>5, PlanMemories DEF memories
<1>8. tokens \in Nat
  BY <1>5, <1>7
<1> HIDE DEF turns
<1>9. /\ all \in Seq(Turn) /\ turns \in Seq(Sent) /\ Len(turns) <= Len(all)
      /\ Messages(turns) = FlattenSeq(SubSeq(all, Len(all) - Len(turns) + 1, Len(all)))
      /\ CostOf(turns) <= tokens /\ Len(Messages(turns)) <= r.cap - 1
      /\ Len(turns) < Len(all) =>
            \/ Len(all[Len(all) - Len(turns)]) > (r.cap - 1) - Len(Messages(turns))
            \/ TextOnlyCost(all[Len(all) - Len(turns)]) > tokens - CostOf(turns)
      /\ Images(turns, tokens)
  BY <1>5, <1>8, PlanTurns DEF turns
<1> HIDE DEF all, tokens
<1>10. CostOf(turns) \in Nat /\ Len(Messages(turns)) \in Nat
  BY <1>9, PaidTurns
<1>11. tokens = r.budget - Mandatory(r) - MemoryCost(memories)
  BY DEF tokens
<1>12. WithinBudget(r, p)
  <2>1. Mandatory(r) + MemoryCost(memories) + CostOf(turns) <= r.budget
    <3>1. MemoryCost(memories) \in Nat /\ CostOf(turns) <= tokens
      BY <1>7, <1>9
    <3> QED
      BY <1>1, <1>2, <1>10, <1>11, <3>1
  <2>2. 1 + Len(Messages(turns)) <= r.cap
    BY <1>1, <1>9, <1>10
  <2> QED
    BY <1>6, <1>7, <2>1, <2>2 DEF WithinBudget
<1>13. NewestTurns(r, p)
  <2>1. ASSUME Len(turns) < Len(all)
        PROVE  LET next == all[Len(all) - Len(turns)] IN
               \/ Len(next) + Len(Messages(turns)) + 1 > r.cap
               \/ TextOnlyCost(next) + CostOf(turns) > r.budget - Mandatory(r) - MemoryCost(memories)
    <3> DEFINE next == all[Len(all) - Len(turns)]
    <3>1. next \in Seq(Message)
      <4>1. Len(all) - Len(turns) \in 1 .. Len(all)
        BY <1>9, <2>1, LenProperties
      <4> QED
        BY <1>9, <4>1, ElementOfSeq DEF Turn
    <3>2. Len(next) \in Nat /\ TextOnlyCost(next) \in Nat
      BY <3>1, LenProperties, TurnCosts
    <3>3. Len(next) > (r.cap - 1) - Len(Messages(turns)) \/ TextOnlyCost(next) > tokens - CostOf(turns)
      BY <1>9, <2>1
    <3> HIDE DEF next
    <3>4. \/ Len(next) + Len(Messages(turns)) + 1 > r.cap
          \/ TextOnlyCost(next) + CostOf(turns) > tokens
      BY <1>1, <1>8, <1>10, <3>2, <3>3
    <3> QED
      BY <1>11, <3>4 DEF next
  <2> QED
    BY <1>6, <1>9, <2>1 DEF NewestTurns, all
<1>14. ImagesKept(r, p)
  <2>1. DOMAIN turns = 1 .. Len(turns)
    BY <1>9, LenProperties
  <2> QED
    BY <1>6, <1>9, <1>11, <2>1 DEF ImagesKept, Images
<1>15. BestMemories(r, p)
  <2>1. /\ Candidates(r) \in SUBSET r.memories /\ Memories(r.memories)
        /\ \A m \in Candidates(r) : m.text \in Text
    BY CandidatesAre DEF IsRequest
  <2>2. \A i \in 1 .. Len(memories) : memories[i] \in Candidates(r)
    BY <1>7, ElementOfSeq
  <2>3. \A a, b \in r.memories : Better(r.query, a, b) <=> Outranks(r.query, a, b)
    BY <2>1, BetterOutranks
  <2>4. ASSUME NEW i \in 1 .. Len(memories), NEW j \in 1 .. Len(memories), i < j
        PROVE  Outranks(r.query, memories[i], memories[j])
    <3>1. memories[i] \in r.memories /\ memories[j] \in r.memories
      BY <2>1, <2>2
    <3>2. Better(r.query, memories[i], memories[j])
      BY <1>7, <2>4
    <3> QED
      BY <2>3, <3>1, <3>2
  <2>5. ASSUME NEW m \in Candidates(r), LeftOut(r.query, memories, m, r.subBudget, left)
        PROVE  NoRoomFor(r, memories, m)
    <3> DEFINE with(k) == MemoryCost(Append(SubSeq(memories, 1, k), m))
    <3>1. PICK k \in 0 .. Len(memories) :
            /\ \A i \in 1 .. Len(memories) : IF i <= k THEN Better(r.query, memories[i], m)
                                                       ELSE Better(r.query, m, memories[i])
            /\ with(k) > r.subBudget \/ with(k) > left
      BY <2>5 DEF LeftOut
    <3>2. \A i \in 1 .. Len(memories) : IF i <= k THEN Outranks(r.query, memories[i], m)
                                                  ELSE Outranks(r.query, m, memories[i])
      BY <2>1, <2>2, <2>3, <3>1
    <3>3. with(k) \in Nat
      <4>1. k \in Nat /\ Len(memories) \in Nat /\ \A i \in 1 .. k : i \in 1 .. Len(memories)
        BY <1>7, LenProperties
      <4>2. 1 \in Int /\ k \in Int /\ \A i \in 1 .. k : memories[i] \in Candidates(r)
        BY <2>2, <4>1
      <4>3. SubSeq(memories, 1, k) \in Seq(Candidates(r))
        BY <4>2, SubSeqProperties
      <4>4. Append(SubSeq(memories, 1, k), m) \in Seq(Candidates(r))
        BY <4>3, AppendProperties
      <4> QED
        BY <2>1, <4>4, MemoryCostIsNat
    <3> HIDE DEF with
    <3>4. with(k) > r.subBudget \/ Mandatory(r) + with(k) > r.budget
      <4>1. with(k) > left => Mandatory(r) + with(k) > r.budget
        BY <1>1, <1>2, <3>3
      <4> QED
        BY <3>1, <4>1
    <3> QED
      BY <3>2, <3>4 DEF NoRoomFor, with
  <2>6. \A m \in Candidates(r) :
           (\E i \in 1 .. Len(memories) : memories[i] = m) \/ NoRoomFor(r, memories, m)
    BY <1>7, <2>5
  <2> QED
    BY <1>6, <2>2, <2>4, <2>6 DEF BestMemories
<1> QED
  BY <1>12, <1>13, <1>14, <1>15 DEF p

-----------------------------------------------------------------------------
(* Cron expressions                                                         *)

LEMMA StrideStarts ==
    ASSUME NEW start \in Nat, NEW end \in Nat, start <= end, NEW step \in Nat, step >= 1
    PROVE  start \in Stride(start, end, step)
BY DEF Stride

\* An element is expanded unless it is illegal, and into what it names.
LEMMA ExpandIsLegal ==
    ASSUME NEW e \in Element, NEW lo \in Nat, NEW hi \in Nat, lo <= hi
    PROVE  Expand(e, lo, hi) # Error <=> Legal(e, lo, hi)
<1>1. CASE e.kind = "star"
  <2>0. e.step \in Nat /\ (e.step < 1 => ~ (e.step >= 1))
    BY DEF Element
  <2>1. e.step >= 1 => Expand(e, lo, hi) = Stride(lo, hi, e.step)
    <3>1. SUFFICES ASSUME e.step >= 1 PROVE Expand(e, lo, hi) = Stride(lo, hi, e.step)
      OBVIOUS
    <3>2. ~ (e.stepped /\ e.step < 1)
      BY <2>0, <3>1
    <3> QED
      BY <1>1, <3>2 DEF Expand
  <2>2. e.step = 0 => Expand(e, lo, hi) = Error
    BY <1>1 DEF Expand, Element
  <2>3. e.step >= 1 => lo \in Stride(lo, hi, e.step)
    BY StrideStarts DEF Element
  <2> QED
    BY <1>1, <2>1, <2>2, <2>3 DEF Legal, Element, Error
<1>2. CASE e.kind = "range"
  <2>1. Legal(e, lo, hi) <=> e.step >= 1 /\ lo <= e.a /\ e.a <= e.b /\ e.b <= hi
    BY <1>2 DEF Legal, Element
  <2>2. Legal(e, lo, hi) => Expand(e, lo, hi) = Stride(e.a, e.b, e.step)
    BY <1>2, <2>1 DEF Expand, Element, InBounds
  <2>3. ~Legal(e, lo, hi) => Expand(e, lo, hi) = Error
    <3>1. CASE e.step < 1
      <4>1. e.stepped
        BY <3>1 DEF Element
      <4> QED
        BY <1>2, <3>1, <4>1 DEF Expand
    <3>2. CASE e.step >= 1
      <4>1. ~ (e.stepped /\ e.step < 1)
        BY <3>2 DEF Element
      <4>2. ~Legal(e, lo, hi) =>
              ~ (InBounds(e.a, lo, hi) /\ InBounds(e.b, lo, hi) /\ e.a <= e.b)
        BY <2>1, <3>2 DEF InBounds
      <4> QED
        BY <1>2, <4>1, <4>2 DEF Expand
    <3> QED
      BY <3>1, <3>2 DEF Element
  <2>4. Legal(e, lo, hi) => e.a \in Stride(e.a, e.b, e.step)
    BY <2>1, StrideStarts DEF Element
  <2> QED
    BY <2>2, <2>3, <2>4 DEF Error
<1>3. CASE e.kind = "value"
  BY <1>3 DEF Expand, Legal, Element, InBounds, Error
<1>4. CASE e.kind = "junk"
  BY <1>4 DEF Expand, Legal, Element, Error
<1> QED
  BY <1>1, <1>2, <1>3, <1>4 DEF Element

LEMMA ExpandIsNamed ==
    ASSUME NEW e \in Element, NEW lo \in Nat, NEW hi \in Nat, lo <= hi, Legal(e, lo, hi),
           NEW v \in lo .. hi
    PROVE  v \in Expand(e, lo, hi) <=> NamedBy(e, lo, v)
<1>0. ~ (e.stepped /\ e.step < 1)
  BY DEF Element, Legal
<1>2. CASE e.kind = "star"
  BY <1>0, <1>2 DEF Expand, Legal, Element, Stride, NamedBy
<1>3. CASE e.kind = "range"
  <2>1. Expand(e, lo, hi) = Stride(e.a, e.b, e.step)
    <3>1. InBounds(e.a, lo, hi) /\ InBounds(e.b, lo, hi) /\ e.a <= e.b
      BY <1>3 DEF Legal, InBounds, Element
    <3> QED
      BY <1>0, <1>3, <3>1 DEF Expand
  <2>2. NamedBy(e, lo, v) <=> e.a <= v /\ v <= e.b /\ (v - e.a) % e.step = 0
    BY <1>3 DEF NamedBy
  <2> QED
    BY <2>1, <2>2 DEF Stride, Element
<1>4. CASE e.kind = "value"
  <2>1. Expand(e, lo, hi) = {e.a}
    <3>1. InBounds(e.a, lo, hi) /\ ~e.stepped
      BY <1>4 DEF Legal, InBounds, Element
    <3> QED
      BY <1>0, <1>4, <3>1 DEF Expand
  <2>2. NamedBy(e, lo, v) <=> v = e.a
    BY <1>4 DEF NamedBy
  <2> QED
    BY <2>1, <2>2
<1> QED
  BY <1>2, <1>3, <1>4 DEF Element, Legal

LEMMA ExpandInBounds ==
    ASSUME NEW e \in Element, NEW lo \in Nat, NEW hi \in Nat, lo <= hi
    PROVE  Expand(e, lo, hi) \subseteq lo .. hi
<1>1. CASE Expand(e, lo, hi) = Error
  BY <1>1 DEF Error
<1>2. CASE Expand(e, lo, hi) # Error
  <2>0. Legal(e, lo, hi) /\ ~ (e.stepped /\ e.step < 1)
    BY <1>2, ExpandIsLegal DEF Legal, Element
  <2>1. CASE e.kind = "star"
    <3>1. Expand(e, lo, hi) = Stride(lo, hi, e.step)
      BY <2>0, <2>1 DEF Expand
    <3> QED
      BY <3>1 DEF Stride
  <2>2. CASE e.kind = "range"
    <3>1. InBounds(e.a, lo, hi) /\ InBounds(e.b, lo, hi) /\ e.a <= e.b
      BY <2>0, <2>2 DEF Legal, InBounds, Element
    <3>2. Expand(e, lo, hi) = Stride(e.a, e.b, e.step)
      BY <2>0, <2>2, <3>1 DEF Expand
    <3> QED
      BY <3>1, <3>2 DEF Stride, InBounds, Element
  <2>3. CASE e.kind = "value"
    <3>1. InBounds(e.a, lo, hi) /\ ~e.stepped
      BY <2>0, <2>3 DEF Legal, InBounds, Element
    <3>2. Expand(e, lo, hi) = {e.a}
      BY <2>0, <2>3, <3>1 DEF Expand
    <3> QED
      BY <3>1, <3>2 DEF InBounds, Element
  <2> QED
    BY <2>0, <2>1, <2>2, <2>3 DEF Legal, Element
<1> QED
  BY <1>1, <1>2

\* A field is parsed unless it is empty or has an illegal element, and into the
\* values it names.
LEMMA FieldMeans ==
    ASSUME NEW field \in Seq(Element), NEW lo \in Nat, NEW hi \in Nat, lo <= hi
    PROVE  /\ ParseField(field, lo, hi) \subseteq lo .. hi
           /\ ParseField(field, lo, hi) # Error <=>
                field # <<>> /\ \A j \in DOMAIN field : Legal(field[j], lo, hi)
           /\ ParseField(field, lo, hi) # Error =>
                \A v \in lo .. hi : v \in ParseField(field, lo, hi) <=> Names(field, lo, v)
<1>0. \A j \in DOMAIN field : field[j] \in Element
  OBVIOUS
<1> DEFINE P(j) == Expand(field[j], lo, hi)
<1>1. \A j \in DOMAIN field : P(j) \subseteq lo .. hi /\ (P(j) # Error <=> Legal(field[j], lo, hi))
  BY <1>0, ExpandIsLegal, ExpandInBounds
<1>2. ASSUME NEW j \in DOMAIN field, Legal(field[j], lo, hi), NEW v \in lo .. hi
      PROVE  v \in P(j) <=> NamedBy(field[j], lo, v)
  BY <1>0, <1>2, ExpandIsNamed
<1>3. ParseField(field, lo, hi) =
        IF \E j \in DOMAIN field : P(j) = Error THEN Error ELSE UNION {P(j) : j \in DOMAIN field}
  BY DEF ParseField
<1>4. field # <<>> <=> DOMAIN field # {}
  <2>1. DOMAIN field = 1 .. Len(field) /\ Len(field) \in Nat
    OBVIOUS
  <2>2. field # <<>> <=> Len(field) # 0
    BY EmptySeq
  <2> QED
    BY <2>1, <2>2
<1> HIDE DEF P
<1>5. CASE \E j \in DOMAIN field : P(j) = Error
  BY <1>1, <1>3, <1>5 DEF Error
<1>6. CASE \A j \in DOMAIN field : P(j) # Error
  <2>1. ParseField(field, lo, hi) = UNION {P(j) : j \in DOMAIN field}
    BY <1>3, <1>6
  <2>2. ParseField(field, lo, hi) # Error <=> field # <<>>
    BY <2>1, <1>4, <1>6 DEF Error
  <2>3. \A v \in lo .. hi : v \in ParseField(field, lo, hi) <=> Names(field, lo, v)
    BY <2>1, <1>1, <1>2, <1>6 DEF Names
  <2> QED
    BY <1>1, <1>6, <2>1, <2>2, <2>3
<1> QED
  BY <1>5, <1>6

LEMMA FieldInBounds ==
    ASSUME NEW field \in Seq(Element), NEW lo \in Nat, NEW hi \in Nat, lo <= hi
    PROVE  ParseField(field, lo, hi) \subseteq lo .. hi
BY FieldMeans

LEMMA FieldNames ==
    ASSUME NEW field \in Seq(Element), NEW lo \in Nat, NEW hi \in Nat, lo <= hi,
           ParseField(field, lo, hi) # Error
    PROVE  \A v \in lo .. hi : v \in ParseField(field, lo, hi) <=> Names(field, lo, v)
BY FieldMeans

\* A bare * names every value.
LEMMA StarNamesAll ==
    ASSUME NEW lo \in Nat, NEW v \in Nat, lo <= v
    PROVE  Names(<<Star>>, lo, v)
<1>1. Star.kind = "star" /\ Star.step = 1
  BY DEF Star
<1>2. (v - lo) % 1 = 0
  OBVIOUS
<1>3. NamedBy(Star, lo, v)
  BY <1>1, <1>2 DEF NamedBy
<1> QED
  BY <1>3 DEF Names

\* The values of a parsed expression, one set a field.
ParsedAs(expr, spec) ==
    /\ spec.minutes \subseteq 0 .. 59
    /\ spec.hours \subseteq 0 .. 23
    /\ \A mi \in 0 .. 59 : mi \in spec.minutes <=> Names(expr[1], 0, mi)
    /\ \A h \in 0 .. 23 : h \in spec.hours <=> Names(expr[2], 0, h)
    /\ \A m \in 1 .. 12 : m \in spec.months <=> Names(expr[4], 1, m)
    /\ \A d \in 1 .. 31 : d \in spec.days <=> Names(expr[3], 1, d)
    /\ \A w \in 0 .. 6 : w \in spec.weekdays <=>
                           Names(expr[5], 0, w) \/ (w = 0 /\ Names(expr[5], 0, 7))
    /\ spec.domStar = Literal(expr[3])
    /\ spec.dowStar = Literal(expr[5])

\* parse_cron takes the legal expressions, and gives each field what it names;
\* 7 and 0 are the same day of the week.
LEMMA CronParses ==
    ASSUME NEW expr \in Seq(Seq(Element))
    PROVE  /\ ParseCron(expr).ok \in BOOLEAN
           /\ ParseCron(expr).ok <=> LegalCron(expr)
           /\ ParseCron(expr).ok => ParsedAs(expr, ParseCron(expr))
<1>1. CASE Len(expr) # 5
  BY <1>1 DEF ParseCron, LegalCron
<1>2. CASE Len(expr) = 5
  <2> DEFINE V(i) == ParseField(expr[i], Bounds[i][1], Bounds[i][2])
  <2>1. DOMAIN expr = 1 .. 5 /\ \A i \in 1 .. 5 : expr[i] \in Seq(Element)
    <3>1. DOMAIN expr = 1 .. Len(expr) /\ \A i \in 1 .. Len(expr) : expr[i] \in Seq(Element)
      BY ElementOfSeq, LenProperties
    <3> QED
      BY <1>2, <3>1
  <2>2. \A i \in 1 .. 5 : Bounds[i][1] \in Nat /\ Bounds[i][2] \in Nat /\ Bounds[i][1] <= Bounds[i][2]
    BY DEF Bounds
  <2>3. \A i \in 1 .. 5 :
          /\ V(i) \subseteq Bounds[i][1] .. Bounds[i][2]
          /\ V(i) # Error <=> expr[i] # <<>> /\
                \A j \in DOMAIN expr[i] : Legal(expr[i][j], Bounds[i][1], Bounds[i][2])
          /\ V(i) # Error =>
                \A v \in Bounds[i][1] .. Bounds[i][2] : v \in V(i) <=> Names(expr[i], Bounds[i][1], v)
    BY <2>1, <2>2, FieldMeans
  <2>4. ParseCron(expr) =
          IF \E i \in 1 .. 5 : V(i) = Error THEN [ok |-> FALSE]
          ELSE [ok |-> TRUE, minutes |-> V(1), hours |-> V(2), days |-> V(3), months |-> V(4),
                weekdays |-> {v % 7 : v \in V(5)},
                domStar |-> Literal(expr[3]), dowStar |-> Literal(expr[5])]
    BY <1>2, <2>1 DEF ParseCron
  <2>5. /\ Bounds[1][1] = 0 /\ Bounds[1][2] = 59 /\ Bounds[2][1] = 0 /\ Bounds[2][2] = 23
        /\ Bounds[3][1] = 1 /\ Bounds[3][2] = 31 /\ Bounds[4][1] = 1 /\ Bounds[4][2] = 12
        /\ Bounds[5][1] = 0 /\ Bounds[5][2] = 7
    BY DEF Bounds
  <2> HIDE DEF V
  <2>6. LegalCron(expr) <=> \A i \in 1 .. 5 : V(i) # Error
    BY <1>2, <2>3 DEF LegalCron
  <2>7. CASE \E i \in 1 .. 5 : V(i) = Error
    BY <2>4, <2>6, <2>7
  <2>8. CASE \A i \in 1 .. 5 : V(i) # Error
    <3>1. ParseCron(expr) =
            [ok |-> TRUE, minutes |-> V(1), hours |-> V(2), days |-> V(3), months |-> V(4),
             weekdays |-> {v % 7 : v \in V(5)},
             domStar |-> Literal(expr[3]), dowStar |-> Literal(expr[5])]
      BY <2>4, <2>8
    <3>0. \A i \in 1 .. 5 : expr[i] \in Seq(Element)
      BY <2>1
    <3>2. V(1) \subseteq 0 .. 59 /\ \A v \in 0 .. 59 : v \in V(1) <=> Names(expr[1], 0, v)
      <4>1. V(1) = ParseField(expr[1], 0, 59)
        BY <2>5 DEF V
      <4>2. expr[1] \in Seq(Element) /\ ParseField(expr[1], 0, 59) # Error
        BY <2>8, <3>0, <4>1
      <4>3. 0 \in Nat /\ 59 \in Nat /\ 0 <= 59
        OBVIOUS
      <4>4. \A v \in 0 .. 59 :
              v \in ParseField(expr[1], 0, 59) <=> Names(expr[1], 0, v)
        BY <4>2, <4>3, FieldNames, Zenon
      <4>5. ParseField(expr[1], 0, 59) \subseteq 0 .. 59
        BY <4>2, <4>3, FieldInBounds, Zenon
      <4> QED
        BY <4>1, <4>4, <4>5
    <3>3. V(2) \subseteq 0 .. 23 /\ \A v \in 0 .. 23 : v \in V(2) <=> Names(expr[2], 0, v)
      <4>1. V(2) = ParseField(expr[2], 0, 23)
        BY <2>5 DEF V
      <4>2. expr[2] \in Seq(Element) /\ ParseField(expr[2], 0, 23) # Error
        BY <2>8, <3>0, <4>1
      <4>3. 0 \in Nat /\ 23 \in Nat /\ 0 <= 23
        OBVIOUS
      <4>4. \A v \in 0 .. 23 :
              v \in ParseField(expr[2], 0, 23) <=> Names(expr[2], 0, v)
        BY <4>2, <4>3, FieldNames, Zenon
      <4>5. ParseField(expr[2], 0, 23) \subseteq 0 .. 23
        BY <4>2, <4>3, FieldInBounds, Zenon
      <4> QED
        BY <4>1, <4>4, <4>5
    <3>4. \A v \in 1 .. 31 : v \in V(3) <=> Names(expr[3], 1, v)
      <4>1. V(3) = ParseField(expr[3], 1, 31)
        BY <2>5 DEF V
      <4>2. expr[3] \in Seq(Element) /\ ParseField(expr[3], 1, 31) # Error
        BY <2>8, <3>0, <4>1
      <4>3. 1 \in Nat /\ 31 \in Nat /\ 1 <= 31
        OBVIOUS
      <4>4. \A v \in 1 .. 31 :
              v \in ParseField(expr[3], 1, 31) <=> Names(expr[3], 1, v)
        BY <4>2, <4>3, FieldNames, Zenon
      <4> QED
        BY <4>1, <4>4
    <3>5. \A v \in 1 .. 12 : v \in V(4) <=> Names(expr[4], 1, v)
      <4>1. V(4) = ParseField(expr[4], 1, 12)
        BY <2>5 DEF V
      <4>2. expr[4] \in Seq(Element) /\ ParseField(expr[4], 1, 12) # Error
        BY <2>8, <3>0, <4>1
      <4>3. 1 \in Nat /\ 12 \in Nat /\ 1 <= 12
        OBVIOUS
      <4>4. \A v \in 1 .. 12 :
              v \in ParseField(expr[4], 1, 12) <=> Names(expr[4], 1, v)
        BY <4>2, <4>3, FieldNames, Zenon
      <4> QED
        BY <4>1, <4>4
    <3>6. V(5) \subseteq 0 .. 7 /\ \A v \in 0 .. 7 : v \in V(5) <=> Names(expr[5], 0, v)
      <4>1. V(5) = ParseField(expr[5], 0, 7)
        BY <2>5 DEF V
      <4>2. expr[5] \in Seq(Element) /\ ParseField(expr[5], 0, 7) # Error
        BY <2>8, <3>0, <4>1
      <4>3. 0 \in Nat /\ 7 \in Nat /\ 0 <= 7
        OBVIOUS
      <4>4. \A v \in 0 .. 7 :
              v \in ParseField(expr[5], 0, 7) <=> Names(expr[5], 0, v)
        BY <4>2, <4>3, FieldNames, Zenon
      <4>5. ParseField(expr[5], 0, 7) \subseteq 0 .. 7
        BY <4>2, <4>3, FieldInBounds, Zenon
      <4> QED
        BY <4>1, <4>4, <4>5
    <3>7. ASSUME NEW w \in 0 .. 6
          PROVE  w \in {v % 7 : v \in V(5)} <=> Names(expr[5], 0, w) \/ (w = 0 /\ Names(expr[5], 0, 7))
      <4>1. \A v \in 0 .. 7 : v % 7 = w <=> v = w \/ (v = 7 /\ w = 0)
        OBVIOUS
      <4>2. w \in 0 .. 7 /\ 7 \in 0 .. 7
        OBVIOUS
      <4>3. w \in {v % 7 : v \in V(5)} <=> \E v \in V(5) : v % 7 = w
        OBVIOUS
      <4> QED
        BY <3>6, <4>1, <4>2, <4>3
    <3>8. ParsedAs(expr, ParseCron(expr))
      <4> DEFINE spec == ParseCron(expr)
      <4>1. /\ spec.minutes = V(1) /\ spec.hours = V(2) /\ spec.days = V(3) /\ spec.months = V(4)
            /\ spec.weekdays = {v % 7 : v \in V(5)}
            /\ spec.domStar = Literal(expr[3]) /\ spec.dowStar = Literal(expr[5])
        BY <3>1
      <4> HIDE DEF spec
      <4>2. ParsedAs(expr, spec)
        BY <3>2, <3>3, <3>4, <3>5, <3>7, <4>1 DEF ParsedAs
      <4> QED
        BY <4>2 DEF spec
    <3> QED
      BY <2>6, <2>8, <3>1, <3>8
  <2> QED
    BY <2>7, <2>8
<1> QED
  BY <1>1, <1>2

\* A day is matched when the expression means it: a bare * gives way to the other
\* day field, and of two restricted fields either is enough.
LEMMA DayIsMeant ==
    ASSUME NEW expr, NEW spec, ParsedAs(expr, spec),
           NEW day \in [month : 1 .. 12, dom : 1 .. 31, dow : 0 .. 6]
    PROVE  DayMatches(spec, day) <=> MeansDay(expr, day)
<1> DEFINE dom == Names(expr[3], 1, day.dom)
           dow == Names(expr[5], 0, day.dow) \/ (day.dow = 0 /\ Names(expr[5], 0, 7))
<1>1. day.dom \in spec.days <=> dom
  BY DEF ParsedAs
<1>2. day.dow \in spec.weekdays <=> dow
  BY DEF ParsedAs
<1>3. spec.domStar = Literal(expr[3]) /\ spec.dowStar = Literal(expr[5])
  BY DEF ParsedAs
<1>4. Literal(expr[3]) => dom
  BY StarNamesAll DEF Literal
<1>5. Literal(expr[5]) => dow
  BY StarNamesAll DEF Literal
<1>6. MeansDay(expr, day) <=>
        IF Literal(expr[3]) \/ Literal(expr[5]) THEN dom /\ dow ELSE dom \/ dow
  BY DEF MeansDay
<1> HIDE DEF dom, dow
<1>7. CASE Literal(expr[3]) /\ Literal(expr[5])
  <2>1. DayMatches(spec, day) <=> TRUE
    BY <1>3, <1>7 DEF DayMatches
  <2> QED
    BY <2>1, <1>4, <1>5, <1>6, <1>7
<1>8. CASE Literal(expr[3]) /\ ~Literal(expr[5])
  <2>1. DayMatches(spec, day) <=> day.dow \in spec.weekdays
    BY <1>3, <1>8 DEF DayMatches
  <2> QED
    BY <2>1, <1>2, <1>4, <1>6, <1>8
<1>9. CASE ~Literal(expr[3]) /\ Literal(expr[5])
  <2>1. DayMatches(spec, day) <=> day.dom \in spec.days
    BY <1>3, <1>9 DEF DayMatches
  <2> QED
    BY <2>1, <1>1, <1>5, <1>6, <1>9
<1>10. CASE ~Literal(expr[3]) /\ ~Literal(expr[5])
  <2>1. DayMatches(spec, day) <=> day.dom \in spec.days \/ day.dow \in spec.weekdays
    BY <1>3, <1>10 DEF DayMatches
  <2> QED
    BY <2>1, <1>1, <1>2, <1>6, <1>10
<1> QED
  BY <1>7, <1>8, <1>9, <1>10

\* next_fire gives the first moment after the given one that the expression means.
LEMMA FireIsFirst ==
    ASSUME NEW expr, NEW spec, ParsedAs(expr, spec), NEW after \in Moment
    PROVE  FirstMeant(expr, after, NextFire(spec, after))
<1> DEFINE Days == {d \in Searched(after) :
                      /\ Calendar[d].month \in spec.months
                      /\ DayMatches(spec, Calendar[d])
                      /\ HoursLeft(spec, d, after) # {}}
           Hours(d) == HoursLeft(spec, d, after)
           Minutes(d, h) == {mi \in spec.minutes : Later(<<d, h, mi>>, after)}
           Met(d) == Names(expr[4], 1, Calendar[d].month) /\ MeansDay(expr, Calendar[d])
<1>0. after[1] \in Nat /\ after[2] \in Nat /\ after[3] \in Nat
  BY DEF Moment
<1>1. \A d \in Searched(after) :
        d \in Nat /\ Calendar[d] \in [month : 1 .. 12, dom : 1 .. 31, dow : 0 .. 6]
  <2>1. \A d \in DOMAIN Calendar : d \in 1 .. Len(Calendar) /\ Len(Calendar) \in Nat
    BY CalendarAssumption, LenProperties
  <2> DEFINE Day == [month : 1 .. 12, dom : 1 .. 31, dow : 0 .. 6]
  <2>2. Calendar \in Seq(Day)
    BY CalendarAssumption
  <2> HIDE DEF Day
  <2>3. \A d \in 1 .. Len(Calendar) : Calendar[d] \in Day
    BY <2>2, ElementOfSeq
  <2>4. Searched(after) \subseteq DOMAIN Calendar
    BY DEF Searched
  <2>5. \A d \in Searched(after) : d \in Nat /\ Calendar[d] \in Day
    BY <2>1, <2>3, <2>4
  <2> QED
    BY <2>5 DEF Day
<1>2. \A d \in Searched(after) :
        Calendar[d].month \in spec.months /\ DayMatches(spec, Calendar[d]) <=> Met(d)
  <2>1. ASSUME NEW d \in Searched(after)
        PROVE  Calendar[d].month \in spec.months <=> Names(expr[4], 1, Calendar[d].month)
    <3>1. Calendar[d].month \in 1 .. 12
      BY <1>1
    <3> QED
      BY <3>1 DEF ParsedAs
  <2>2. ASSUME NEW d \in Searched(after)
        PROVE  DayMatches(spec, Calendar[d]) <=> MeansDay(expr, Calendar[d])
    BY <1>1, DayIsMeant
  <2> QED
    BY <2>1, <2>2
<1>3. \A d \in Searched(after) : \A h \in 0 .. 23 : \A mi \in 0 .. 59 :
        Names(expr[2], 0, h) /\ Names(expr[1], 0, mi) /\ Later(<<d, h, mi>>, after) =>
          mi \in Minutes(d, h) /\ h \in Hours(d)
  BY DEF HoursLeft, ParsedAs
<1>4. \A d \in Searched(after) : d \in Days <=> Met(d) /\ Hours(d) # {}
  BY <1>2
<1>5. \A d : Hours(d) \subseteq 0 .. 23 /\ \A h \in Hours(d) : Minutes(d, h) # {}
  BY DEF HoursLeft, ParsedAs
<1>6. \A d, h : Minutes(d, h) \subseteq 0 .. 59
  BY DEF ParsedAs
<1>7. NextFire(spec, after) =
        IF Days = {} THEN Never
        ELSE <<Min(Days), Min(Hours(Min(Days))), Min(Minutes(Min(Days), Min(Hours(Min(Days)))))>>
  BY DEF NextFire
<1>8. \A d, h : \A mi \in Minutes(d, h) : mi \in spec.minutes /\ Later(<<d, h, mi>>, after)
  OBVIOUS
<1>9. \A d : \A h \in Hours(d) : h \in spec.hours
  BY DEF HoursLeft
<1>10. Days \subseteq Searched(after)
  OBVIOUS
<1> HIDE DEF Days, Hours, Minutes
<1>11. CASE Days = {}
  <2>1. NextFire(spec, after) = Never
    BY <1>7, <1>11
  <2>2. \A d \in Searched(after) : Met(d) =>
          \A h \in 0 .. 23 : Names(expr[2], 0, h) =>
            \A mi \in 0 .. 59 : Names(expr[1], 0, mi) => ~Later(<<d, h, mi>>, after)
    BY <1>3, <1>4, <1>11
  <2> QED
    BY <2>1, <2>2 DEF FirstMeant
<1>12. CASE Days # {}
  <2> DEFINE d0 == Min(Days)
             h0 == Min(Hours(d0))
             m0 == Min(Minutes(d0, h0))
             fire == <<d0, h0, m0>>
  <2>1. d0 \in Days /\ \A d \in Days : d0 <= d
    <3>1. Days \in SUBSET Nat
      BY <1>1, <1>10
    <3> QED
      BY <3>1, <1>12, MinIsLeast
  <2>2. d0 \in Searched(after) /\ Met(d0) /\ Hours(d0) # {} /\ d0 \in Nat
    BY <2>1, <1>1, <1>4, <1>10
  <2> HIDE DEF d0
  <2>3. h0 \in Hours(d0) /\ h0 \in 0 .. 23 /\ \A h \in Hours(d0) : h0 <= h
    <3>1. Hours(d0) \in SUBSET Nat
      BY <1>5
    <3> QED
      BY <3>1, <2>2, <1>5, MinIsLeast
  <2> HIDE DEF h0
  <2>4. m0 \in Minutes(d0, h0) /\ m0 \in 0 .. 59 /\ \A mi \in Minutes(d0, h0) : m0 <= mi
    <3>1. Minutes(d0, h0) \in SUBSET Nat /\ Minutes(d0, h0) # {}
      BY <1>5, <1>6, <2>3
    <3> QED
      BY <3>1, <1>6, MinIsLeast
  <2> HIDE DEF m0
  <2>5. NextFire(spec, after) = fire
    BY <1>7, <1>12 DEF d0, h0, m0
  <2>6. fire # Never
    BY DEF Never
  <2>7. Later(fire, after)
    BY <1>8, <2>4
  <2>8. Names(expr[2], 0, h0) /\ Names(expr[1], 0, m0)
    BY <1>8, <1>9, <2>3, <2>4 DEF ParsedAs
  <2>9. Means(expr, fire)
    BY <2>2, <2>8 DEF Means
  <2>10. ASSUME NEW d \in Searched(after), d <= fire[1], Met(d),
                NEW h \in 0 .. 23, Names(expr[2], 0, h),
                NEW mi \in 0 .. 59, Names(expr[1], 0, mi), Later(<<d, h, mi>>, after)
         PROVE  ~Later(fire, <<d, h, mi>>)
    <3>1. mi \in Minutes(d, h) /\ h \in Hours(d)
      BY <1>3, <2>10
    <3>2. d \in Days /\ d \in Nat
      BY <1>1, <1>4, <2>10, <3>1
    <3>3. d = d0
      BY <2>1, <2>2, <2>10, <3>2
    <3>4. h0 <= h
      BY <2>3, <3>1, <3>3
    <3>5. h = h0 => m0 <= mi
      BY <2>4, <3>1, <3>3
    <3> QED
      BY <2>2, <2>3, <2>4, <3>3, <3>4, <3>5 DEF Later
  <2> HIDE DEF fire
  <2>11. FirstMeant(expr, after, fire)
    BY <2>6, <2>7, <2>9, <2>10 DEF FirstMeant
  <2> QED
    BY <2>5, <2>11
<1> QED
  BY <1>11, <1>12

\* Whatever is asked, it is one of the questions the constants give.
Asked ==
    \/ asked = None
    \/ \E r \in Requests : asked = [about |-> "plan", input |-> r]
    \/ \E f \in Fires : asked = [about |-> "fire", input |-> f]
    \/ \E c \in Setups : asked = [about |-> "config", input |-> c]

LEMMA AskedAlways == Spec => []Asked
<1>1. Init => Asked
  BY DEF Init, Asked
<1>2. Asked /\ [Next]_asked => Asked'
  BY DEF Asked, Next, AskPlan, AskFire, AskConfig
<1> QED
  BY <1>1, <1>2, PTL DEF Spec

\* Whatever may be asked, what is sent fits, ends with the newest turns, has lost
\* images only for want of room, and carries each memory among the limit best of
\* the scope unless it did not fit beside the better ones that are sent:
\* process_message's planning is PlanSound for every request, cost and limit.
THEOREM PlansSound == Spec => []PlanSound
<1>1. Asked => PlanSound
  <2> SUFFICES ASSUME Asked, asked.about = "plan", Plan(asked.input).status = "ok"
               PROVE  /\ WithinBudget(asked.input, Plan(asked.input))
                      /\ NewestTurns(asked.input, Plan(asked.input))
                      /\ ImagesKept(asked.input, Plan(asked.input))
                      /\ BestMemories(asked.input, Plan(asked.input))
    BY DEF PlanSound
  <2>1. asked.input \in Requests
    BY DEF Asked, None
  <2>2. IsRequest(asked.input)
    BY <2>1, RequestsAssumption DEF IsRequest, Memories
  <2> QED
    BY <2>2, PlanIsSound
<1> QED
  BY <1>1, AskedAlways, PTL

\* parse_cron takes exactly the legal expressions, and next_fire gives the first
\* minute after the given one that the expression means (automation/cron.py).
THEOREM FiresFirst == Spec => []FiresNext
<1>1. Asked => FiresNext
  <2> SUFFICES ASSUME Asked, asked.about = "fire"
               PROVE  LET spec == ParseCron(asked.input.expr)
                      IN  /\ spec.ok <=> LegalCron(asked.input.expr)
                          /\ spec.ok => FirstMeant(asked.input.expr, asked.input.after,
                                                   NextFire(spec, asked.input.after))
    BY DEF FiresNext
  <2>1. PICK f \in Fires : asked.input = f
    BY DEF Asked, None
  <2>2. f.expr \in Seq(Seq(Element)) /\ f.after \in Moment
    BY FiresAssumption
  <2>3. ParseCron(f.expr).ok <=> LegalCron(f.expr)
    BY <2>2, CronParses
  <2>4. ParseCron(f.expr).ok => FirstMeant(f.expr, f.after, NextFire(ParseCron(f.expr), f.after))
    BY <2>2, CronParses, FireIsFirst
  <2> QED
    BY <2>1, <2>3, <2>4
<1> QED
  BY <1>1, AskedAlways, PTL

-----------------------------------------------------------------------------
(* Configurations                                                           *)

\* Names that differ are as many as the entries that carry them.
LEMMA NamesCount ==
    ASSUME NEW list, IsList(list), NamedApart(list)
    PROVE  Cardinality({list[i].name : i \in DOMAIN list}) = Len(list)
<1> DEFINE n == Len(list)
           f == [i \in 1 .. n |-> list[i].name]
           N == {list[i].name : i \in DOMAIN list}
<1>1. n \in Nat /\ DOMAIN list = 1 .. n
  BY LenProperties DEF IsList
<1>2. \A i, j \in 1 .. n : list[i].name = list[j].name => i = j
  BY <1>1 DEF NamedApart
<1> HIDE DEF n
<1>3. f \in Bijection(1 .. n, N)
  <2>1. f \in [1 .. n -> N]
    BY <1>1
  <2>2. \A i, j \in 1 .. n : f[i] = f[j] => i = j
    BY <1>2
  <2>3. \A b \in N : \E i \in 1 .. n : f[i] = b
    BY <1>1
  <2> QED
    BY <2>1, <2>2, <2>3 DEF Bijection, Injection, Surjection, IsInjective
<1>4. ExistsBijection(1 .. n, N)
  BY <1>3 DEF ExistsBijection
<1> QED
  BY <1>1, <1>4, FS_CountingElements DEF n

LEMMA SchedulesAreRun ==
    ASSUME NEW list, IsList(list), SchedulesAccepted(list),
           \A i \in DOMAIN list : list[i].cron \in Seq(Seq(Element))
    PROVE  SchedulesRun(list)
<1>1. ASSUME NEW i \in DOMAIN list
      PROVE  ScopeOf(list[i]) = "ok" /\ LegalCron(list[i].cron)
  <2>1. IdentityServed(list[i]) /\ ParseCron(list[i].cron).ok
    BY DEF SchedulesAccepted, ScheduleAccepted
  <2>2. ScopeOf(list[i]) = "ok"
    BY <2>1 DEF IdentityServed, ScopeOf
  <2>3. LegalCron(list[i].cron)
    BY <2>1, CronParses
  <2> QED
    BY <2>2, <2>3
<1>2. Cardinality({list[i].name : i \in DOMAIN list}) = Len(list)
  BY NamesCount DEF SchedulesAccepted
<1> QED
  BY <1>1, <1>2 DEF SchedulesRun

LEMMA ServersAreReached ==
    ASSUME NEW list, NEW insecure, ServersAccepted(list, insecure)
    PROVE  ServersConnect(list, insecure)
<1> SUFFICES ASSUME NEW i \in DOMAIN list
    PROVE  LET s == list[i] IN
           /\ (s.transport = "stdio") = (s.command # "absent")
           /\ (s.transport # "stdio") = (s.url # "absent")
           /\ s.url = "http" => insecure
           /\ ~(s.bearer # "absent" /\ s.auth = "oauth")
           /\ s.auth = "oauth" => s.transport # "stdio" /\ s.provider # "absent"
  BY DEF ServersConnect
<1> DEFINE s == list[i]
<1>1. ServerAccepted(s, insecure)
  BY DEF ServersAccepted
<1> HIDE DEF s
<1>2. CASE s.transport \in {"absent", "http"} /\ HttpAccepted(s, insecure)
  <2>1. s.command = "absent"
    <3>1. s.command \in {s.command, s.args, s.env, s.cwd}
      OBVIOUS
    <3> QED
      BY <1>2, <3>1 DEF HttpAccepted
  <2>2. s.url \in {"https", "http"} /\ (s.url = "http" => insecure)
    BY <1>2 DEF HttpAccepted, UrlAccepted
  <2>3. AuthAccepted(s)
    BY <1>2 DEF HttpAccepted
  <2>4. s.auth = "oauth" => s.bearer = "absent" /\ s.provider # "absent"
    <3>1. SUFFICES ASSUME s.auth = "oauth" PROVE s.bearer = "absent" /\ s.provider # "absent"
      OBVIOUS
    <3>2. s.provider \notin {"absent", "bad"} /\ s.bearer = "absent"
      BY <2>3, <3>1 DEF AuthAccepted
    <3> QED
      BY <3>2
  <2> QED
    BY <1>2, <2>1, <2>2, <2>4 DEF s
<1>3. CASE s.transport = "stdio" /\ StdioAccepted(s)
  <2>1. s.command = "text"
    BY <1>3 DEF StdioAccepted
  <2>2. s.url = "absent" /\ s.bearer = "absent" /\ s.auth = "absent"
    <3>1. s.url \in {s.url, s.bearer, s.auth} /\ s.bearer \in {s.url, s.bearer, s.auth}
            /\ s.auth \in {s.url, s.bearer, s.auth}
      OBVIOUS
    <3>2. {s.url, s.bearer, s.auth} = {"absent"}
      BY <1>3 DEF StdioAccepted
    <3> QED
      BY <3>1, <3>2
  <2> QED
    BY <1>3, <2>1, <2>2 DEF s
<1> QED
  BY <1>1, <1>2, <1>3 DEF ServerAccepted

LEMMA SourceDecides ==
    ASSUME NEW s \in Source, ListSource(s) # "refused"
    PROVE  /\ s.explicit # "absent" => ListSource(s) = "explicit"
           /\ s.explicit = "absent" /\ s.default # "missing" => ListSource(s) = "default"
<1>1. s.explicit \in {"absent", "missing", "blank", "text"}
        /\ s.default \in {"missing", "blank", "text"}
  BY DEF Source
<1>2. CASE s.explicit = "text"
  <2>1. ListSource(s) = "explicit"
    BY <1>2 DEF ListSource
  <2> QED
    BY <1>2, <2>1
<1>3. CASE s.explicit = "missing"
  <2>1. ListSource(s) = "refused"
    BY <1>3 DEF ListSource
  <2> QED
    BY <2>1
<1>4. CASE s.explicit = "blank"
  <2>1. ListSource(s) = "refused"
    BY <1>4 DEF ListSource
  <2> QED
    BY <2>1
<1>5. CASE s.explicit = "absent"
  <2>1. s.default = "text" => ListSource(s) = "default"
    BY <1>5 DEF ListSource
  <2>2. s.default = "blank" => ListSource(s) = "refused"
    BY <1>5 DEF ListSource
  <2> QED
    BY <1>1, <1>5, <2>1, <2>2
<1> QED
  BY <1>1, <1>2, <1>3, <1>4, <1>5

LEMMA NothingIsIgnored ==
    ASSUME NEW c, Accepted(c),
           {c.scheduleSource, c.targetSource, c.serverSource} \subseteq Source
    PROVE  NothingIgnored(c)
<1>1. c.scheduleSource \in Source /\ c.targetSource \in Source /\ c.serverSource \in Source
  OBVIOUS
<1>2. ASSUME NEW s \in {c.scheduleSource, c.targetSource}
      PROVE  /\ s.explicit # "absent" => ListSource(s) = "explicit"
             /\ s.explicit = "absent" /\ s.default # "missing" => ListSource(s) = "default"
  <2>1. s \in Source /\ ListSource(s) # "refused"
    BY <1>1 DEF Accepted
  <2> QED
    BY <2>1, SourceDecides
<1>3. c.serverSource.explicit # "absent" => ServerSource(c.serverSource) = "explicit"
  <2> DEFINE t == [c.serverSource EXCEPT !.default = "missing"]
  <2>1. t \in Source /\ t.explicit = c.serverSource.explicit
    BY <1>1 DEF Source
  <2>2. ListSource(t) # "refused"
    BY DEF Accepted, ServerSource
  <2> HIDE DEF t
  <2>3. t.explicit # "absent" => ListSource(t) = "explicit"
    BY <2>1, <2>2, SourceDecides
  <2> QED
    BY <2>1, <2>3 DEF ServerSource, t
<1>4. c.permissions = "bad" => ~c.knobs.tools
  BY DEF Accepted, PermissionsAccepted
<1> QED
  BY <1>2, <1>3, <1>4 DEF NothingIgnored

\* The composition root can use whatever load_config accepts (config.py, main.py).
THEOREM AcceptedUsable == Spec => []AcceptedIsUsable
<1>1. Asked => AcceptedIsUsable
  <2> SUFFICES ASSUME Asked, asked.about = "config", Accepted(asked.input)
               PROVE  /\ SchedulesRun(asked.input.schedules)
                      /\ ServersConnect(asked.input.servers, asked.input.insecure)
                      /\ TargetsRegister(asked.input.targets)
                      /\ LimitsNest(asked.input.knobs)
                      /\ NothingIgnored(asked.input)
    BY DEF AcceptedIsUsable
  <2>1. PICK c \in Setups : asked.input = c
    BY DEF Asked, None
  <2>2. Accepted(c)
    BY <2>1
  <2>3. SchedulesRun(c.schedules)
    BY <2>2, SetupsAssumption, SchedulesAreRun DEF Accepted
  <2>4. ServersConnect(c.servers, c.insecure)
    BY <2>2, ServersAreReached DEF Accepted
  <2>5. TargetsRegister(c.targets)
    <3>1. TargetsAccepted(c.targets) /\ IsList(c.targets)
      BY <2>2, SetupsAssumption DEF Accepted
    <3>2. \A i \in DOMAIN c.targets : c.targets[i].knownHosts = "text"
      <4>1. \A i \in DOMAIN c.targets : TargetAccepted(c.targets[i])
        BY <3>1 DEF TargetsAccepted
      <4>2. \A t : TargetAccepted(t) => t.knownHosts = "text"
        BY DEF TargetAccepted, FileAccepted
      <4> QED
        BY <4>1, <4>2
    <3>3. Cardinality({c.targets[i].name : i \in DOMAIN c.targets}) = Len(c.targets)
      BY <3>1, NamesCount DEF TargetsAccepted
    <3> QED
      BY <3>2, <3>3 DEF TargetsRegister
  <2>6. LimitsNest(c.knobs)
    BY <2>2 DEF Accepted, KnobsAccepted, ToolKnobsAccepted, LimitsNest
  <2>7. NothingIgnored(c)
    BY <2>2, SetupsAssumption, NothingIsIgnored
  <2> QED
    BY <2>1, <2>3, <2>4, <2>5, <2>6, <2>7
<1> QED
  BY <1>1, AskedAlways, PTL
=============================================================================
