----------------------------- MODULE ListsProofs -----------------------------
(***************************************************************************)
(* Facts about lists and folds that the proofs of TabManager and of        *)
(* WorkspaceLayout share.  They rest on induction over the naturals, in a  *)
(* form that takes a set and not a predicate: the least element of a set   *)
(* exists because < is well founded.                                       *)
(***************************************************************************)
EXTENDS Lists, FiniteSetTheorems, SequenceTheorems, WellFoundedInduction, TLAPS

\* A set of numbers has a least one.
LEMMA LeastNumber ==
  ASSUME NEW T \in SUBSET Nat, T # {}
  PROVE  \E x \in T : \A y \in T : x <= y
<1> DEFINE R == OpToRel(<, Nat)
<1>1. IsWellFoundedOn(R, Nat)
  BY NatLessThanWellFounded
<1>2. \A x, y \in Nat : <<x, y>> \in R <=> x < y
  BY DEF OpToRel
<1> HIDE DEF R
<1>3. PICK x \in T : \A y \in T : ~ (<<y, x>> \in R)
  BY <1>1, WFMin
<1>4. ASSUME NEW y \in T PROVE x <= y
  <2>1. x \in Nat /\ y \in Nat
    OBVIOUS
  <2>2. ~ (y < x)
    BY <1>2, <1>3, <2>1, Zenon
  <2> QED BY <2>1, <2>2
<1> QED BY <1>4

\* Induction: a set with 0 and every successor holds every number.
LEMMA Induct ==
  ASSUME NEW T, 0 \in T, \A n \in Nat : n \in T => n + 1 \in T
  PROVE  Nat \subseteq T
<1> SUFFICES ASSUME Nat \ T # {} PROVE FALSE
  OBVIOUS
<1>1. PICK x \in Nat \ T : \A y \in Nat \ T : x <= y
  BY LeastNumber
<1>2. x # 0 /\ x - 1 \in Nat
  OBVIOUS
<1>3. x - 1 \in T
  BY <1>1, <1>2
<1> QED BY <1>2, <1>3

\* Min and Max of the community modules, of sets of numbers.
LEMMA MinOf ==
  ASSUME NEW T \in SUBSET Nat, T # {}
  PROVE  Min(T) \in T /\ \A y \in T : Min(T) <= y
<1>1. \E x \in T : \A y \in T : x <= y
  BY LeastNumber
<1> QED BY <1>1 DEF Min

LEMMA MaxOf ==
  ASSUME NEW n \in Nat, NEW T \in SUBSET (0 .. n), T # {}
  PROVE  Max(T) \in T /\ \A y \in T : y <= Max(T)
<1> DEFINE U == {n - y : y \in T}
<1>1. U \in SUBSET Nat /\ U # {}
  <2>1. \A y \in T : n - y \in Nat
    OBVIOUS
  <2> QED BY <2>1
<1>2. PICK u \in U : \A v \in U : u <= v
  BY <1>1, LeastNumber
<1>3. PICK x \in T : u = n - x
  OBVIOUS
<1>4. ASSUME NEW y \in T PROVE y <= x
  <2>1. n - y \in U /\ y \in Nat /\ x \in Nat
    OBVIOUS
  <2> QED BY <1>2, <1>3, <2>1
<1>5. \E z \in T : \A y \in T : z >= y
  BY <1>4
<1>6. Max(T) \in T /\ \A y \in T : Max(T) >= y
  BY <1>5 DEF Max
<1> QED BY <1>6

\* it gives, for each set of indices of s, the fold of G over the elements at those
\* indices in increasing order.
IsFold(it, N, A, base, s, G) ==
  /\ it \in [SUBSET (1 .. N) -> A]
  /\ \A t \in SUBSET (1 .. N) :
       it[t] = IF t = {} THEN base ELSE G[<<it[t \ {Max(t)}], s[Max(t)]>>]

\* A fold from the left exists: the community modules define it by recursion over the
\* sets of indices, so the induction is on the largest index.
LEMMA FoldExists ==
  ASSUME NEW N \in Nat, NEW A, NEW B, NEW base \in A, NEW s \in [1 .. N -> B],
         NEW G \in [A \X B -> A]
  PROVE  \E it : IsFold(it, N, A, base, s, G)
<1> DEFINE Rule(it, t) ==
             it[t] = IF t = {} THEN base ELSE G[<<it[t \ {Max(t)}], s[Max(t)]>>]
           P(n) == \E it \in [SUBSET (1 .. n) -> A] : \A t \in SUBSET (1 .. n) : Rule(it, t)
<1>1. P(0)
  <2> DEFINE it == [t \in SUBSET (1 .. 0) |-> base]
  <2>1. \A t \in SUBSET (1 .. 0) : t = {}
    OBVIOUS
  <2>2. it \in [SUBSET (1 .. 0) -> A] /\ \A t \in SUBSET (1 .. 0) : Rule(it, t)
    BY <2>1
  <2> QED BY <2>2
<1>2. ASSUME NEW n \in Nat, n + 1 <= N, P(n) PROVE P(n + 1)
  <2>1. PICK it \in [SUBSET (1 .. n) -> A] : \A t \in SUBSET (1 .. n) : Rule(it, t)
    BY <1>2
  <2> DEFINE ex == [t \in SUBSET (1 .. (n + 1)) |->
                      IF n + 1 \in t THEN G[<<it[t \ {n + 1}], s[n + 1]>>] ELSE it[t]]
  <2>2. n + 1 \in 1 .. N
    BY <1>2
  <2>3. ASSUME NEW t \in SUBSET (1 .. (n + 1)), n + 1 \in t
        PROVE  /\ t \ {n + 1} \in SUBSET (1 .. n) /\ Max(t) = n + 1
               /\ ex[t] = G[<<it[t \ {n + 1}], s[n + 1]>>]
    <3>1. t \ {n + 1} \in SUBSET (1 .. n)
      OBVIOUS
    <3>2. Max(t) \in t /\ \A y \in t : y <= Max(t)
      <4>1. t \in SUBSET (0 .. (n + 1)) /\ t # {} /\ n + 1 \in Nat
        BY <2>3
      <4> QED BY <4>1, MaxOf
    <3>3. Max(t) = n + 1
      <4>1. Max(t) \in 1 .. (n + 1) /\ n + 1 <= Max(t)
        BY <2>3, <3>2
      <4> QED BY <4>1
    <3> QED BY <2>3, <3>1, <3>3
  <2>4. ASSUME NEW t \in SUBSET (1 .. (n + 1)), n + 1 \notin t
        PROVE  t \in SUBSET (1 .. n) /\ ex[t] = it[t]
    BY <2>4
  <2>5. ASSUME NEW t \in SUBSET (1 .. (n + 1)) PROVE ex[t] \in A
    <3>1. CASE n + 1 \in t
      BY <2>2, <2>3, <3>1
    <3>2. CASE n + 1 \notin t
      BY <2>4, <3>2
    <3> QED BY <3>1, <3>2
  <2>6. ex \in [SUBSET (1 .. (n + 1)) -> A]
    BY <2>5
  <2>7. ASSUME NEW t \in SUBSET (1 .. (n + 1)) PROVE Rule(ex, t)
    <3>1. CASE n + 1 \in t
      <4>1. ex[t \ {n + 1}] = it[t \ {n + 1}]
        BY <2>3, <3>1
      <4> HIDE DEF ex
      <4> QED BY <2>3, <3>1, <4>1
    <3>2. CASE n + 1 \notin t
      <4>1. t \in SUBSET (1 .. n) /\ ex[t] = it[t]
        BY <2>4, <3>2
      <4>2. CASE t = {}
        BY <2>1, <4>1, <4>2
      <4>3. CASE t # {}
        <5>1. it[t] = G[<<it[t \ {Max(t)}], s[Max(t)]>>]
          BY <2>1, <4>1, <4>3
        <5>2. t \ {Max(t)} \in SUBSET (1 .. (n + 1)) /\ n + 1 \notin t \ {Max(t)}
          BY <3>2
        <5>3. ex[t \ {Max(t)}] = it[t \ {Max(t)}]
          BY <2>4, <5>2
        <5> HIDE DEF ex
        <5> QED BY <4>1, <4>3, <5>1, <5>3
      <4> QED BY <4>2, <4>3
    <3> QED BY <3>1, <3>2
  <2> HIDE DEF ex
  <2> QED BY <2>6, <2>7
<1> DEFINE T == {n \in Nat : n <= N => P(n)}
<1>3. N \in T
  <2> HIDE DEF P
  <2>1. 0 \in T /\ \A n \in Nat : n \in T => n + 1 \in T
    BY <1>1, <1>2
  <2> HIDE DEF T
  <2> QED BY <2>1, Induct
<1>4. P(N)
  <2> HIDE DEF P
  <2>1. N <= N
    OBVIOUS
  <2> QED BY <1>3, <2>1
<1> QED BY <1>4 DEF IsFold

LEMMA InitialSegment ==
  ASSUME NEW n \in Nat \ {0}
  PROVE  Max(1 .. n) = n /\ (1 .. n) \ {n} = 1 .. (n - 1)
<1>1. Max(1 .. n) \in 1 .. n /\ \A y \in 1 .. n : y <= Max(1 .. n)
  <2>1. 1 .. n \in SUBSET (0 .. n) /\ 1 .. n # {}
    OBVIOUS
  <2> QED BY <2>1, MaxOf
<1> QED BY <1>1

-----------------------------------------------------------------------------
(* Retain.                                                                  *)

\* r is s without the elements that are not in K: increasing indices h give the place
\* each element had, and no element of K is missing.
IsRetained(s, K, n, r) ==
  \E h \in [1 .. Len(r) -> 1 .. n] :
    /\ \A i \in 1 .. Len(r) : r[i] = s[h[i]] /\ s[h[i]] \in K
    /\ \A i, j \in 1 .. Len(r) : i < j => h[i] < h[j]
    /\ \A m \in 1 .. n : s[m] \in K => \E i \in 1 .. Len(r) : h[i] = m

LEMMA RetainedStep ==
  ASSUME NEW S, NEW s \in Seq(S), NEW K, NEW n \in Nat, n + 1 <= Len(s),
         NEW r \in Seq(S), IsRetained(s, K, n, r)
  PROVE  IsRetained(s, K, n + 1, IF s[n + 1] \in K THEN Append(r, s[n + 1]) ELSE r)
<1>1. PICK h \in [1 .. Len(r) -> 1 .. n] :
        /\ \A i \in 1 .. Len(r) : r[i] = s[h[i]] /\ s[h[i]] \in K
        /\ \A i, j \in 1 .. Len(r) : i < j => h[i] < h[j]
        /\ \A m \in 1 .. n : s[m] \in K => \E i \in 1 .. Len(r) : h[i] = m
  BY DEF IsRetained
<1>2. Len(r) \in Nat /\ s[n + 1] \in S
  OBVIOUS
<1>3. CASE s[n + 1] \in K
  <2> DEFINE a == Append(r, s[n + 1])
             L == Len(r) + 1
             g == [i \in 1 .. L |-> IF i = L THEN n + 1 ELSE h[i]]
  <2>1. Len(a) = L /\ a[L] = s[n + 1] /\ \A i \in 1 .. Len(r) : a[i] = r[i]
    BY <1>2
  <2>2. \A i \in 1 .. L : i # L => i \in 1 .. Len(r) /\ g[i] = h[i] /\ h[i] \in 1 .. n
    BY <1>2
  <2>3. g[L] = n + 1 /\ L \in 1 .. L
    BY <1>2
  <2>4. g \in [1 .. L -> 1 .. (n + 1)]
    <3>1. \A i \in 1 .. L : (IF i = L THEN n + 1 ELSE h[i]) \in 1 .. (n + 1)
      BY <2>2, <1>2
    <3> QED BY <3>1
  <2> HIDE DEF g, a
  <2>5. \A i \in 1 .. L : a[i] = s[g[i]] /\ s[g[i]] \in K
    BY <1>1, <1>3, <2>1, <2>2, <2>3
  <2>6. \A i, j \in 1 .. L : i < j => g[i] < g[j]
    <3> SUFFICES ASSUME NEW i \in 1 .. L, NEW j \in 1 .. L, i < j PROVE g[i] < g[j]
      OBVIOUS
    <3>1. i # L
      BY <1>2
    <3> QED BY <1>1, <1>2, <2>2, <2>3, <3>1
  <2>7. \A m \in 1 .. (n + 1) : s[m] \in K => \E i \in 1 .. L : g[i] = m
    <3> SUFFICES ASSUME NEW m \in 1 .. (n + 1), s[m] \in K PROVE \E i \in 1 .. L : g[i] = m
      OBVIOUS
    <3>1. CASE m = n + 1
      BY <2>3, <3>1
    <3>2. CASE m # n + 1
      <4>1. PICK i \in 1 .. Len(r) : h[i] = m
        BY <1>1, <3>2
      <4>2. i \in 1 .. L /\ i # L
        BY <1>2
      <4> QED BY <2>2, <4>1, <4>2
    <3> QED BY <3>1, <3>2
  <2>8. IsRetained(s, K, n + 1, a)
    <3> DEFINE M == Len(a)
    <3>1. M = L
      BY <2>1
    <3> HIDE DEF L
    <3>2. /\ g \in [1 .. M -> 1 .. (n + 1)]
          /\ \A i \in 1 .. M : a[i] = s[g[i]] /\ s[g[i]] \in K
          /\ \A i, j \in 1 .. M : i < j => g[i] < g[j]
          /\ \A m \in 1 .. (n + 1) : s[m] \in K => \E i \in 1 .. M : g[i] = m
      BY <2>4, <2>5, <2>6, <2>7, <3>1
    <3> QED BY <3>2 DEF IsRetained
  <2> QED BY <1>3, <2>8 DEF a
<1>4. CASE s[n + 1] \notin K
  <2>1. h \in [1 .. Len(r) -> 1 .. (n + 1)]
    BY <1>2
  <2>2. \A m \in 1 .. (n + 1) : s[m] \in K => \E i \in 1 .. Len(r) : h[i] = m
    BY <1>1, <1>4
  <2>3. IsRetained(s, K, n + 1, r)
    BY <1>1, <2>1, <2>2 DEF IsRetained
  <2> QED BY <1>4, <2>3
<1> QED BY <1>3, <1>4

LEMMA RetainIs ==
  ASSUME NEW S, NEW s \in Seq(S), NEW K
  PROVE  Retain(s, K) \in Seq(S) /\ IsRetained(s, K, Len(s), Retain(s, K))
<1> DEFINE N    == Len(s)
           G    == [x \in Seq(S) \X S |-> IF x[2] \in K THEN Append(x[1], x[2]) ELSE x[1]]
           Is(it) == it = [t \in SUBSET (1 .. N) |->
                             IF t = {} THEN <<>>
                             ELSE IF s[Max(t)] \in K THEN Append(it[t \ {Max(t)}], s[Max(t)])
                                  ELSE it[t \ {Max(t)}]]
           f    == CHOOSE it : Is(it)
<1>1. N \in Nat /\ s \in [1 .. N -> S] /\ DOMAIN s = 1 .. N
  OBVIOUS
<1>2. Retain(s, K) = f[1 .. N]
  BY <1>1 DEF Retain, FoldLeft, MapThenFoldSet
<1>3. \E it : Is(it)
  <2>1. G \in [Seq(S) \X S -> Seq(S)]
    OBVIOUS
  <2>2. <<>> \in Seq(S)
    OBVIOUS
  <2> HIDE DEF G
  <2>3. PICK it \in [SUBSET (1 .. N) -> Seq(S)] :
          \A t \in SUBSET (1 .. N) :
            it[t] = IF t = {} THEN <<>> ELSE G[<<it[t \ {Max(t)}], s[Max(t)]>>]
    <3> DEFINE A == Seq(S)
               base == <<>>
    <3>1. G \in [A \X S -> A] /\ base \in A /\ N \in Nat /\ s \in [1 .. N -> S]
      BY <1>1, <2>1, <2>2
    <3> HIDE DEF N, A, base
    <3>2. \E it : IsFold(it, N, A, base, s, G)
      BY <3>1, FoldExists
    <3> QED BY <3>2 DEF A, base, IsFold
  <2>4. ASSUME NEW t \in SUBSET (1 .. N), t # {}
        PROVE  G[<<it[t \ {Max(t)}], s[Max(t)]>>] =
                 IF s[Max(t)] \in K THEN Append(it[t \ {Max(t)}], s[Max(t)])
                 ELSE it[t \ {Max(t)}]
    <3>1. Max(t) \in t
      <4>1. t \in SUBSET (0 .. N)
        OBVIOUS
      <4> QED BY <1>1, <2>4, <4>1, MaxOf
    <3>2. s[Max(t)] \in S /\ it[t \ {Max(t)}] \in Seq(S)
      BY <1>1, <2>3, <3>1
    <3> QED BY <3>2 DEF G
  <2>5. Is(it)
    BY <2>3, <2>4
  <2> HIDE DEF Is
  <2> QED BY <2>5
<1>4. Is(f)
  <2> HIDE DEF Is
  <2> QED BY <1>3
<1> DEFINE P(n) == f[1 .. n] \in Seq(S) /\ IsRetained(s, K, n, f[1 .. n])
<1>5. P(0)
  <2>1. f[1 .. 0] = <<>>
    <3> HIDE DEF f
    <3>1. 1 .. 0 = {} /\ 1 .. 0 \in SUBSET (1 .. N)
      OBVIOUS
    <3> QED BY <1>4, <3>1
  <2> HIDE DEF f
  <2>2. IsRetained(s, K, 0, <<>>)
    <3> DEFINE e == [i \in {} |-> 0]
    <3>1. e \in [1 .. 0 -> 1 .. 0] /\ Len(<<>>) = 0
      OBVIOUS
    <3>2. \A i \in 1 .. 0 : FALSE
      OBVIOUS
    <3> HIDE DEF e
    <3>3. \E h \in [1 .. 0 -> 1 .. 0] : TRUE
      BY <3>1
    <3> QED BY <3>1, <3>2 DEF IsRetained
  <2> QED BY <2>1, <2>2
<1>6. ASSUME NEW n \in Nat, n + 1 <= N, P(n) PROVE P(n + 1)
  <2> HIDE DEF f
  <2>1. 1 .. (n + 1) \in SUBSET (1 .. N) /\ 1 .. (n + 1) # {} /\ n + 1 \in 1 .. N
    BY <1>1, <1>6
  <2>2. Max(1 .. (n + 1)) = n + 1 /\ (1 .. (n + 1)) \ {n + 1} = 1 .. n
    BY InitialSegment
  <2>3. f[1 .. (n + 1)] = IF s[n + 1] \in K THEN Append(f[1 .. n], s[n + 1]) ELSE f[1 .. n]
    BY <1>4, <2>1, <2>2
  <2>4. s[n + 1] \in S
    BY <1>1, <2>1
  <2> QED BY <1>6, <2>3, <2>4, RetainedStep
<1> HIDE DEF f, P, Is
<1> DEFINE T == {n \in Nat : n <= N => P(n)}
<1>7. 0 \in T /\ \A n \in Nat : n \in T => n + 1 \in T
  BY <1>1, <1>5, <1>6
<1>8. N \in T
  <2> HIDE DEF T
  <2> QED BY <1>1, <1>7, Induct
<1>9. P(N)
  BY <1>1, <1>8
<1> QED BY <1>2, <1>9 DEF P

\* What is kept is what was there and is in K, each element once if it was there once.
LEMMA RetainFacts ==
  ASSUME NEW S, NEW s \in Seq(S), NEW K
  PROVE  /\ Retain(s, K) \in Seq(S)
         /\ ToSet(Retain(s, K)) = ToSet(s) \cap K
         /\ IsInjective(s) => IsInjective(Retain(s, K))
<1> DEFINE r == Retain(s, K)
<1>1. r \in Seq(S) /\ IsRetained(s, K, Len(s), r)
  BY RetainIs
<1> HIDE DEF r
<1>2. PICK h \in [1 .. Len(r) -> 1 .. Len(s)] :
        /\ \A i \in 1 .. Len(r) : r[i] = s[h[i]] /\ s[h[i]] \in K
        /\ \A i, j \in 1 .. Len(r) : i < j => h[i] < h[j]
        /\ \A m \in 1 .. Len(s) : s[m] \in K => \E i \in 1 .. Len(r) : h[i] = m
  BY <1>1 DEF IsRetained
<1>3. DOMAIN r = 1 .. Len(r) /\ DOMAIN s = 1 .. Len(s) /\ Len(r) \in Nat /\ Len(s) \in Nat
  BY <1>1
<1>4. ToSet(r) = ToSet(s) \cap K
  <2>1. ToSet(r) \subseteq ToSet(s) \cap K
    BY <1>2, <1>3 DEF ToSet
  <2>2. ASSUME NEW x \in ToSet(s) \cap K PROVE x \in ToSet(r)
    <3>1. PICK m \in 1 .. Len(s) : x = s[m]
      BY <1>3 DEF ToSet
    <3>2. PICK i \in 1 .. Len(r) : h[i] = m
      BY <1>2, <3>1
    <3> QED BY <1>2, <1>3, <3>1, <3>2 DEF ToSet
  <2> QED BY <2>1, <2>2
<1>5. ASSUME IsInjective(s) PROVE IsInjective(r)
  <2>1. SUFFICES ASSUME NEW i \in 1 .. Len(r), NEW j \in 1 .. Len(r), r[i] = r[j] PROVE i = j
    BY <1>3 DEF IsInjective
  <2>2. h[i] = h[j]
    <3>1. s[h[i]] = s[h[j]] /\ h[i] \in DOMAIN s /\ h[j] \in DOMAIN s
      BY <1>2, <1>3, <2>1
    <3> QED BY <1>5, <3>1 DEF IsInjective
  <2>3. ~ (i < j) /\ ~ (j < i)
    <3>1. h[i] \in Nat /\ h[j] \in Nat
      BY <1>3
    <3> QED BY <1>2, <2>2, <3>1
  <2> QED BY <1>3, <2>3
<1> QED BY <1>1, <1>4, <1>5 DEF r

-----------------------------------------------------------------------------
(* Vec::insert and Vec::remove.                                             *)

LEMMA SliceIs ==
  ASSUME NEW S, NEW s \in Seq(S), NEW m \in 1 .. (Len(s) + 1), NEW n \in (m - 1) .. Len(s)
  PROVE  /\ SubSeq(s, m, n) \in Seq(S)
         /\ Len(SubSeq(s, m, n)) = n - m + 1
         /\ \A j \in 1 .. (n - m + 1) : SubSeq(s, m, n)[j] = s[m + j - 1]
<1>1. Len(s) \in Nat /\ \A j \in 1 .. Len(s) : s[j] \in S
  OBVIOUS
<1>2. m \in Int /\ n \in Int /\ \A j \in m .. n : s[j] \in S
  BY <1>1
<1>3. /\ SubSeq(s, m, n) \in Seq(S)
      /\ Len(SubSeq(s, m, n)) = IF m <= n THEN n - m + 1 ELSE 0
      /\ \A j \in 1 .. n - m + 1 : SubSeq(s, m, n)[j] = s[m + j - 1]
  BY <1>2, SubSeqProperties
<1> QED BY <1>1, <1>3

LEMMA InsertAtIs ==
  ASSUME NEW S, NEW s \in Seq(S), NEW i \in 1 .. (Len(s) + 1), NEW e \in S
  PROVE  /\ InsertAt(s, i, e) \in Seq(S)
         /\ Len(InsertAt(s, i, e)) = Len(s) + 1
         /\ \A j \in 1 .. (Len(s) + 1) :
              InsertAt(s, i, e)[j] = IF j < i THEN s[j] ELSE IF j = i THEN e ELSE s[j - 1]
         /\ ToSet(InsertAt(s, i, e)) = ToSet(s) \cup {e}
<1> DEFINE a == SubSeq(s, 1, i - 1)
           b == SubSeq(s, i, Len(s))
           r == (a \o <<e>>) \o b
           n == Len(s)
<1>1. n \in Nat /\ DOMAIN s = 1 .. n /\ \A j \in 1 .. n : s[j] \in S
  OBVIOUS
<1>2. a \in Seq(S) /\ Len(a) = i - 1 /\ \A j \in 1 .. (i - 1) : a[j] = s[j]
  BY <1>1
<1>3. b \in Seq(S) /\ Len(b) = n - i + 1 /\ \A j \in 1 .. (n - i + 1) : b[j] = s[i + j - 1]
  <2>1. i \in 1 .. (Len(s) + 1) /\ Len(s) \in (i - 1) .. Len(s)
    BY <1>1
  <2> QED BY <2>1, SliceIs
<1> HIDE DEF a, b
<1>4. /\ a \o <<e>> \in Seq(S) /\ Len(a \o <<e>>) = i
      /\ \A j \in 1 .. i : (a \o <<e>>)[j] = IF j < i THEN s[j] ELSE e
  BY <1>1, <1>2
<1> DEFINE c == a \o <<e>>
<1>8. /\ r \in Seq(S) /\ Len(r) = i + Len(b)
      /\ \A j \in 1 .. i + Len(b) : r[j] = IF j <= i THEN c[j] ELSE b[j - i]
  <2>1. c \in Seq(S) /\ Len(c) = i
    BY <1>4
  <2> HIDE DEF c
  <2>2. /\ c \o b \in Seq(S) /\ Len(c \o b) = Len(c) + Len(b)
        /\ \A j \in 1 .. Len(c) + Len(b) : (c \o b)[j] = IF j <= Len(c) THEN c[j] ELSE b[j - Len(c)]
    BY <1>3, <2>1, ConcatProperties
  <2> QED BY <2>1, <2>2 DEF c
<1>5. r \in Seq(S) /\ Len(r) = n + 1
  BY <1>1, <1>3, <1>8
<1>6. ASSUME NEW j \in 1 .. (n + 1)
      PROVE  r[j] = IF j < i THEN s[j] ELSE IF j = i THEN e ELSE s[j - 1]
  <2>1. CASE j <= i
    BY <1>1, <1>3, <1>4, <1>8, <2>1
  <2>2. CASE j > i
    <3>1. r[j] = b[j - i] /\ j - i \in 1 .. (n - i + 1)
      BY <1>1, <1>3, <1>8, <2>2
    <3>2. i + (j - i) - 1 = j - 1 /\ ~ (j < i) /\ j # i
      BY <1>1, <2>2
    <3> QED BY <1>3, <3>1, <3>2
  <2>3. j <= i \/ j > i
    BY <1>1
  <2> HIDE DEF r
  <2> QED BY <2>1, <2>2, <2>3
<1> HIDE DEF r
<1>7. ToSet(r) = ToSet(s) \cup {e}
  <2>1. DOMAIN r = 1 .. (n + 1)
    BY <1>5
  <2>2. ASSUME NEW j \in 1 .. (n + 1) PROVE r[j] \in ToSet(s) \cup {e}
    <3>1. CASE j < i
      BY <1>1, <1>6, <3>1 DEF ToSet
    <3>2. CASE j = i
      BY <1>6, <3>2
    <3>3. CASE j > i
      <4>1. r[j] = s[j - 1] /\ j - 1 \in 1 .. n
        BY <1>1, <1>6, <3>3
      <4> QED BY <1>1, <4>1 DEF ToSet
    <3> QED BY <1>1, <3>1, <3>2, <3>3
  <2>3. ASSUME NEW j \in 1 .. n PROVE s[j] \in ToSet(r)
    <3>1. CASE j < i
      BY <1>1, <1>6, <2>1, <3>1 DEF ToSet
    <3>2. CASE j >= i
      <4>1. r[j + 1] = s[j] /\ j + 1 \in 1 .. (n + 1)
        BY <1>1, <1>6, <3>2
      <4> QED BY <2>1, <4>1 DEF ToSet
    <3> QED BY <1>1, <3>1, <3>2
  <2>4. e \in ToSet(r)
    BY <1>1, <1>6, <2>1 DEF ToSet
  <2> QED BY <1>1, <2>1, <2>2, <2>3, <2>4 DEF ToSet
<1> QED BY <1>5, <1>6, <1>7 DEF r, a, b, InsertAt

LEMMA RemoveAtIs ==
  ASSUME NEW S, NEW s \in Seq(S), NEW i \in 1 .. Len(s)
  PROVE  /\ RemoveAt(s, i) \in Seq(S)
         /\ Len(RemoveAt(s, i)) = Len(s) - 1
         /\ \A j \in 1 .. (Len(s) - 1) :
              RemoveAt(s, i)[j] = IF j < i THEN s[j] ELSE s[j + 1]
         /\ ToSet(RemoveAt(s, i)) = {s[j] : j \in (1 .. Len(s)) \ {i}}
<1> DEFINE a == SubSeq(s, 1, i - 1)
           b == SubSeq(s, i + 1, Len(s))
           r == a \o b
           n == Len(s)
<1>1. n \in Nat /\ DOMAIN s = 1 .. n /\ \A j \in 1 .. n : s[j] \in S
  OBVIOUS
<1>2. a \in Seq(S) /\ Len(a) = i - 1 /\ \A j \in 1 .. (i - 1) : a[j] = s[j]
  BY <1>1
<1>3. b \in Seq(S) /\ Len(b) = n - i /\ \A j \in 1 .. (n - i) : b[j] = s[i + j]
  <2>1. i + 1 \in 1 .. (Len(s) + 1) /\ Len(s) \in ((i + 1) - 1) .. Len(s)
    BY <1>1
  <2>2. /\ b \in Seq(S) /\ Len(b) = Len(s) - (i + 1) + 1
        /\ \A j \in 1 .. (Len(s) - (i + 1) + 1) : b[j] = s[(i + 1) + j - 1]
    BY <2>1, SliceIs
  <2>3. n - (i + 1) + 1 = n - i /\ \A j \in 1 .. (n - i) : (i + 1) + j - 1 = i + j
    BY <1>1
  <2> HIDE DEF b
  <2> QED BY <1>1, <2>2, <2>3
<1> HIDE DEF a, b
<1>4. /\ r \in Seq(S) /\ Len(r) = Len(a) + Len(b)
      /\ \A j \in 1 .. Len(a) + Len(b) : r[j] = IF j <= Len(a) THEN a[j] ELSE b[j - Len(a)]
  BY <1>2, <1>3, ConcatProperties
<1>5. r \in Seq(S) /\ Len(r) = n - 1
  BY <1>1, <1>2, <1>3, <1>4
<1>6. ASSUME NEW j \in 1 .. (n - 1) PROVE r[j] = IF j < i THEN s[j] ELSE s[j + 1]
  <2>1. CASE j < i
    BY <1>1, <1>2, <1>3, <1>4, <2>1
  <2>2. CASE j >= i
    <3>1. r[j] = b[j - (i - 1)] /\ j - (i - 1) \in 1 .. (n - i)
      BY <1>1, <1>2, <1>3, <1>4, <2>2
    <3>2. i + (j - (i - 1)) = j + 1 /\ ~ (j < i)
      BY <1>1, <2>2
    <3> QED BY <1>3, <3>1, <3>2
  <2>3. j < i \/ j >= i
    BY <1>1
  <2> HIDE DEF r
  <2> QED BY <2>1, <2>2, <2>3
<1> HIDE DEF r
<1>7. ToSet(r) = {s[j] : j \in (1 .. n) \ {i}}
  <2>1. DOMAIN r = 1 .. (n - 1)
    BY <1>1, <1>5
  <2>2. ASSUME NEW j \in 1 .. (n - 1) PROVE r[j] \in {s[m] : m \in (1 .. n) \ {i}}
    <3>1. CASE j < i
      <4>1. r[j] = s[j] /\ j \in (1 .. n) \ {i}
        BY <1>1, <1>6, <3>1
      <4> QED BY <4>1
    <3>2. CASE j >= i
      <4>1. r[j] = s[j + 1] /\ j + 1 \in (1 .. n) \ {i}
        BY <1>1, <1>6, <3>2
      <4> QED BY <4>1
    <3> QED BY <1>1, <3>1, <3>2
  <2>3. ASSUME NEW j \in (1 .. n) \ {i} PROVE s[j] \in ToSet(r)
    <3>1. CASE j < i
      <4>1. r[j] = s[j] /\ j \in 1 .. (n - 1)
        BY <1>1, <1>6, <3>1
      <4> QED BY <2>1, <4>1 DEF ToSet
    <3>2. CASE j > i
      <4>1. r[j - 1] = s[j] /\ j - 1 \in 1 .. (n - 1)
        BY <1>1, <1>6, <3>2
      <4> QED BY <2>1, <4>1 DEF ToSet
    <3> QED BY <1>1, <3>1, <3>2
  <2> QED BY <2>1, <2>2, <2>3 DEF ToSet
<1> QED BY <1>5, <1>6, <1>7 DEF r, a, b, RemoveAt

\* Neither brings an element twice.
LEMMA InsertInjective ==
  ASSUME NEW S, NEW s \in Seq(S), IsInjective(s), NEW i \in 1 .. (Len(s) + 1),
         NEW e \in S, e \notin ToSet(s)
  PROVE  IsInjective(InsertAt(s, i, e))
<1> DEFINE n == Len(s)
           r == InsertAt(s, i, e)
<1>1. n \in Nat /\ DOMAIN s = 1 .. n /\ i \in Int
  OBVIOUS
<1>2. r \in Seq(S) /\ Len(r) = n + 1
      /\ \A j \in 1 .. (n + 1) : r[j] = IF j < i THEN s[j] ELSE IF j = i THEN e ELSE s[j - 1]
  BY InsertAtIs
<1> HIDE DEF r
<1>3. \A m \in 1 .. n : s[m] # e
  BY <1>1 DEF ToSet
<1>4. \A j, k \in 1 .. n : s[j] = s[k] => j = k
  BY <1>1 DEF IsInjective
<1>5. DOMAIN r = 1 .. (n + 1)
  BY <1>1, <1>2
<1>6. SUFFICES ASSUME NEW j \in 1 .. (n + 1), NEW k \in 1 .. (n + 1), r[j] = r[k] PROVE j = k
  BY <1>5 DEF IsInjective, r
<1>7. ASSUME NEW m \in 1 .. (n + 1)
      PROVE  \/ m < i /\ m \in 1 .. n /\ r[m] = s[m] /\ r[m] # e
             \/ m = i /\ r[m] = e
             \/ m > i /\ m - 1 \in 1 .. n /\ r[m] = s[m - 1] /\ r[m] # e
  <2>1. CASE m < i
    BY <1>1, <1>2, <1>3, <2>1
  <2>2. CASE m = i
    BY <1>1, <1>2, <2>2
  <2>3. CASE m > i
    <3>1. m - 1 \in 1 .. n /\ ~ (m < i) /\ m # i
      BY <1>1, <2>3
    <3> QED BY <1>2, <1>3, <2>3, <3>1
  <2> QED BY <1>1, <2>1, <2>2, <2>3
<1>8. j \in Int /\ k \in Int
  BY <1>1
<1> HIDE DEF n
<1>9. CASE j < i
  BY <1>1, <1>4, <1>6, <1>7, <1>8, <1>9
<1>10. CASE j = i
  BY <1>1, <1>4, <1>6, <1>7, <1>8, <1>10
<1>11. CASE j > i
  BY <1>1, <1>4, <1>6, <1>7, <1>8, <1>11
<1> QED BY <1>1, <1>8, <1>9, <1>10, <1>11

LEMMA RemoveInjective ==
  ASSUME NEW S, NEW s \in Seq(S), IsInjective(s), NEW i \in 1 .. Len(s)
  PROVE  /\ IsInjective(RemoveAt(s, i))
         /\ ToSet(RemoveAt(s, i)) = ToSet(s) \ {s[i]}
<1> DEFINE n == Len(s)
           r == RemoveAt(s, i)
<1>1. n \in Nat /\ DOMAIN s = 1 .. n /\ i \in Int
  OBVIOUS
<1>2. /\ r \in Seq(S) /\ Len(r) = n - 1
      /\ \A j \in 1 .. (n - 1) : r[j] = IF j < i THEN s[j] ELSE s[j + 1]
      /\ ToSet(r) = {s[j] : j \in (1 .. n) \ {i}}
  <2>1. /\ r \in Seq(S) /\ Len(r) = Len(s) - 1
        /\ \A j \in 1 .. (Len(s) - 1) : r[j] = IF j < i THEN s[j] ELSE s[j + 1]
        /\ ToSet(r) = {s[j] : j \in (1 .. Len(s)) \ {i}}
    BY RemoveAtIs
  <2> QED BY <2>1
<1> HIDE DEF r
<1>3. \A j, k \in 1 .. n : s[j] = s[k] => j = k
  BY <1>1 DEF IsInjective
<1>4. IsInjective(r)
  <2>1. DOMAIN r = 1 .. (n - 1)
    BY <1>1, <1>2
  <2>2. SUFFICES ASSUME NEW j \in 1 .. (n - 1), NEW k \in 1 .. (n - 1), r[j] = r[k] PROVE j = k
    BY <2>1 DEF IsInjective
  <2>3. /\ j \in 1 .. n /\ j + 1 \in 1 .. n /\ k \in 1 .. n /\ k + 1 \in 1 .. n
        /\ j \in Int /\ k \in Int /\ i \in Int
    BY <1>1
  <2> HIDE DEF n
  <2>4. CASE j < i /\ k < i
    BY <1>1, <1>2, <1>3, <2>2, <2>3, <2>4
  <2>5. CASE j < i /\ ~ (k < i)
    BY <1>1, <1>2, <1>3, <2>2, <2>3, <2>5
  <2>6. CASE ~ (j < i) /\ k < i
    BY <1>1, <1>2, <1>3, <2>2, <2>3, <2>6
  <2>7. CASE ~ (j < i) /\ ~ (k < i)
    BY <1>1, <1>2, <1>3, <2>2, <2>3, <2>7
  <2> QED BY <2>4, <2>5, <2>6, <2>7
<1>5. ToSet(r) = ToSet(s) \ {s[i]}
  <2>1. ToSet(s) = {s[j] : j \in 1 .. n}
    BY <1>1 DEF ToSet
  <2> HIDE DEF n
  <2>2. \A j \in 1 .. n : s[j] \in ToSet(s) \ {s[i]} <=> j # i
    BY <1>1, <1>3, <2>1
  <2>3. ToSet(r) \subseteq ToSet(s) \ {s[i]}
    BY <1>2, <2>1, <2>2
  <2>4. ToSet(s) \ {s[i]} \subseteq ToSet(r)
    BY <1>2, <2>1, <2>2
  <2> QED BY <2>3, <2>4
<1> QED BY <1>4, <1>5 DEF r

-----------------------------------------------------------------------------
(* Pieces of a list put together.                                           *)

LEMMA ConcatInjective ==
  ASSUME NEW S, NEW a \in Seq(S), NEW b \in Seq(S)
  PROVE  /\ a \o b \in Seq(S) /\ ToSet(a \o b) = ToSet(a) \cup ToSet(b)
         /\ IsInjective(a) /\ IsInjective(b) /\ ToSet(a) \cap ToSet(b) = {} => IsInjective(a \o b)
<1> DEFINE c == a \o b
           m == Len(a)
           n == Len(b)
<1>1. m \in Nat /\ n \in Nat /\ DOMAIN a = 1 .. m /\ DOMAIN b = 1 .. n
  OBVIOUS
<1>2. /\ c \in Seq(S) /\ Len(c) = m + n
      /\ \A i \in 1 .. (m + n) : c[i] = IF i <= m THEN a[i] ELSE b[i - m]
  BY ConcatProperties
<1> HIDE DEF c, m, n
<1>3. DOMAIN c = 1 .. (m + n)
  BY <1>1, <1>2
<1>4. ASSUME NEW i \in 1 .. (m + n)
      PROVE  \/ i <= m /\ i \in 1 .. m /\ c[i] = a[i]
             \/ i > m /\ i - m \in 1 .. n /\ c[i] = b[i - m]
  BY <1>1, <1>2
<1>5. ToSet(c) = ToSet(a) \cup ToSet(b)
  <2>1. \A i \in 1 .. (m + n) : c[i] \in ToSet(a) \cup ToSet(b)
    BY <1>1, <1>4 DEF ToSet
  <2>2. ASSUME NEW i \in 1 .. m PROVE a[i] \in ToSet(c)
    <3>1. i \in 1 .. (m + n) /\ c[i] = a[i]
      BY <1>1, <1>2
    <3> QED BY <1>3, <3>1 DEF ToSet
  <2>3. ASSUME NEW i \in 1 .. n PROVE b[i] \in ToSet(c)
    <3>1. m + i \in 1 .. (m + n) /\ ~ (m + i <= m) /\ (m + i) - m = i
      BY <1>1
    <3>2. c[m + i] = b[i]
      BY <1>2, <3>1
    <3> QED BY <1>3, <3>1, <3>2 DEF ToSet
  <2> QED BY <1>1, <1>3, <2>1, <2>2, <2>3 DEF ToSet
<1>6. ASSUME IsInjective(a), IsInjective(b), ToSet(a) \cap ToSet(b) = {}
      PROVE  IsInjective(c)
  <2>1. /\ \A i, j \in 1 .. m : a[i] = a[j] => i = j
        /\ \A i, j \in 1 .. n : b[i] = b[j] => i = j
        /\ \A i \in 1 .. m, j \in 1 .. n : a[i] # b[j]
    BY <1>1, <1>6 DEF IsInjective, ToSet
  <2>2. SUFFICES ASSUME NEW i \in 1 .. (m + n), NEW j \in 1 .. (m + n), c[i] = c[j] PROVE i = j
    BY <1>3 DEF IsInjective
  <2>3. i \in Int /\ j \in Int /\ m \in Int
    BY <1>1
  <2>4. CASE i <= m
    BY <1>4, <2>1, <2>2, <2>3, <2>4
  <2>5. CASE i > m
    BY <1>4, <2>1, <2>2, <2>3, <2>5
  <2> QED BY <2>3, <2>4, <2>5
<1> QED BY <1>2, <1>5, <1>6 DEF c

LEMMA SliceInjective ==
  ASSUME NEW S, NEW s \in Seq(S), NEW m \in 1 .. (Len(s) + 1), NEW n \in (m - 1) .. Len(s)
  PROVE  /\ ToSet(SubSeq(s, m, n)) = {s[j] : j \in m .. n}
         /\ IsInjective(s) => IsInjective(SubSeq(s, m, n))
<1> DEFINE r == SubSeq(s, m, n)
           k == n - m + 1
<1>1. r \in Seq(S) /\ Len(r) = k /\ \A j \in 1 .. k : r[j] = s[m + j - 1]
  BY SliceIs
<1>2. /\ Len(s) \in Nat /\ DOMAIN s = 1 .. Len(s) /\ m \in Int /\ n \in Int /\ k \in Nat
      /\ \A j \in 1 .. k : m + j - 1 \in m .. n /\ m + j - 1 \in 1 .. Len(s)
      /\ \A j \in m .. n : j - m + 1 \in 1 .. k /\ m + (j - m + 1) - 1 = j
  OBVIOUS
<1> HIDE DEF r, k
<1>3. DOMAIN r = 1 .. k
  BY <1>1, <1>2
<1>4. ToSet(r) = {s[j] : j \in m .. n}
  <2>1. \A j \in 1 .. k : r[j] \in {s[i] : i \in m .. n}
    BY <1>1, <1>2
  <2>2. ASSUME NEW j \in m .. n PROVE s[j] \in ToSet(r)
    <3>1. r[j - m + 1] = s[j] /\ j - m + 1 \in 1 .. k
      BY <1>1, <1>2
    <3> QED BY <1>3, <3>1 DEF ToSet
  <2> QED BY <1>3, <2>1, <2>2 DEF ToSet
<1>5. ASSUME IsInjective(s) PROVE IsInjective(r)
  <2>1. SUFFICES ASSUME NEW i \in 1 .. k, NEW j \in 1 .. k, r[i] = r[j] PROVE i = j
    BY <1>3 DEF IsInjective
  <2>2. m + i - 1 = m + j - 1
    <3>1. s[m + i - 1] = s[m + j - 1]
      BY <1>1, <2>1
    <3>2. m + i - 1 \in DOMAIN s /\ m + j - 1 \in DOMAIN s
      BY <1>2
    <3> QED BY <1>5, <3>1, <3>2 DEF IsInjective
  <2> QED BY <1>2, <2>2
<1> QED BY <1>4, <1>5 DEF r

\* A list cut in two, with another list between the halves.
LEMMA BetweenIs ==
  ASSUME NEW S, NEW s \in Seq(S), NEW b \in Seq(S), NEW i \in 1 .. (Len(s) + 1),
         IsInjective(s), IsInjective(b), ToSet(s) \cap ToSet(b) = {}
  PROVE  LET r == SubSeq(s, 1, i - 1) \o b \o SubSeq(s, i, Len(s))
         IN  r \in Seq(S) /\ ToSet(r) = ToSet(s) \cup ToSet(b) /\ IsInjective(r)
<1> DEFINE x == SubSeq(s, 1, i - 1)
           y == SubSeq(s, i, Len(s))
<1>1. /\ 1 \in 1 .. (Len(s) + 1) /\ i - 1 \in (1 - 1) .. Len(s)
      /\ Len(s) \in (i - 1) .. Len(s) /\ Len(s) \in Nat /\ DOMAIN s = 1 .. Len(s)
  OBVIOUS
<1>2. x \in Seq(S) /\ ToSet(x) = {s[j] : j \in 1 .. (i - 1)} /\ IsInjective(x)
  BY <1>1, SliceIs, SliceInjective
<1>3. y \in Seq(S) /\ ToSet(y) = {s[j] : j \in i .. Len(s)} /\ IsInjective(y)
  BY <1>1, SliceIs, SliceInjective
<1> HIDE DEF x, y
<1>4. ToSet(s) = {s[j] : j \in 1 .. Len(s)} /\ \A j, k \in 1 .. Len(s) : s[j] = s[k] => j = k
  BY <1>1 DEF ToSet, IsInjective
<1>5. ToSet(x) \cup ToSet(y) = ToSet(s)
  BY <1>1, <1>2, <1>3, <1>4
<1>6. ToSet(x) \cap ToSet(y) = {}
  BY <1>1, <1>2, <1>3, <1>4
<1>7. x \o b \in Seq(S) /\ ToSet(x \o b) = ToSet(x) \cup ToSet(b) /\ IsInjective(x \o b)
  BY <1>2, <1>5, ConcatInjective
<1> DEFINE z == x \o b
<1>8. z \in Seq(S) /\ IsInjective(z) /\ ToSet(z) \cap ToSet(y) = {}
  BY <1>5, <1>6, <1>7
<1> HIDE DEF z
<1>9. z \o y \in Seq(S) /\ ToSet(z \o y) = ToSet(z) \cup ToSet(y) /\ IsInjective(z \o y)
  BY <1>3, <1>8, ConcatInjective
<1>10. ToSet(z) \cup ToSet(y) = ToSet(s) \cup ToSet(b)
  BY <1>5, <1>7 DEF z
<1> QED BY <1>9, <1>10 DEF x, y, z
=============================================================================
