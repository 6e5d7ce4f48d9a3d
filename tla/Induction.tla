------------------------------- MODULE Induction -------------------------------
(* Induction over the natural numbers in the form of facts about sets,     *)
(* which every prover of these proofs can use; and what ends when followed *)
(* from part to part.                                                      *)
EXTENDS WellFoundedInduction, FiniteSetTheorems, TLAPS

LEMMA LeastNumber ==
    ASSUME NEW S \in SUBSET Nat, S # {}
    PROVE  \E m \in S : \A k \in S : m <= k
<1>1. PICK m \in S : \A k \in S : <<k, m>> \notin OpToRel(<, Nat)
  <2> DEFINE R == OpToRel(<, Nat)
  <2>1. IsWellFoundedOn(R, Nat)
    BY NatLessThanWellFounded
  <2> HIDE DEF R
  <2>2. \E x \in S : \A y \in S : ~(<<y, x>> \in R)
    BY <2>1, WFMin
  <2> QED  BY <2>2 DEF R
<1>2. \A k \in S : ~(k < m)
  BY <1>1 DEF OpToRel
<1> QED  BY <1>2

LEMMA InductionOnNat ==
    ASSUME NEW S, 0 \in S, \A n \in Nat : n \in S => n + 1 \in S
    PROVE  Nat \subseteq S
<1> SUFFICES ASSUME Nat \ S # {} PROVE FALSE
  OBVIOUS
<1>1. PICK m \in Nat \ S : \A k \in Nat \ S : m <= k
  BY LeastNumber
<1>2. m # 0 /\ m - 1 \in Nat
  BY <1>1
<1>3. m - 1 \in S
  BY <1>1, <1>2
<1> QED  BY <1>1, <1>2, <1>3

(* A number is reached from all the smaller ones.                          *)
LEMMA StrongInduction ==
    ASSUME NEW S, \A n \in Nat : (\A k \in Nat : k < n => k \in S) => n \in S
    PROVE  Nat \subseteq S
<1> SUFFICES ASSUME Nat \ S # {} PROVE FALSE
  OBVIOUS
<1>1. PICK m \in Nat \ S : \A k \in Nat \ S : m <= k
  BY LeastNumber
<1>2. \A k \in Nat : k < m => k \in S
  BY <1>1
<1> QED  BY <1>1, <1>2

(* The sequence of the iterates of a function exists.                      *)
Iteration(c, D, F, a, N) ==
    c \in [0..N -> D] /\ c[0] = a /\ \A n \in 1..N : c[n] = F[c[n - 1]]

LEMMA Iterates ==
    ASSUME NEW D, NEW F \in [D -> D], NEW a \in D, NEW N \in Nat
    PROVE  \E c : Iteration(c, D, F, a, N)
<1> DEFINE Iterated(c, m) == c[0] = a /\ \A n \in 1..m : c[n] = F[c[n - 1]]
           S == {m \in Nat : \E c \in [0..m -> D] : Iterated(c, m)}
<1>1. 0 \in S
  <2>1. [n \in 0..0 |-> a] \in [0..0 -> D] /\ Iterated([n \in 0..0 |-> a], 0)
    OBVIOUS
  <2> QED  BY <2>1
<1>2. ASSUME NEW m \in Nat, m \in S PROVE m + 1 \in S
  <2>1. PICK c \in [0..m -> D] : Iterated(c, m)
    BY <1>2
  <2> DEFINE d == [n \in 0..(m + 1) |-> IF n = m + 1 THEN F[c[m]] ELSE c[n]]
  <2>2. d[m + 1] = F[c[m]] /\ \A n \in 0..m : d[n] = c[n]
    OBVIOUS
  <2>3. d \in [0..(m + 1) -> D]
    OBVIOUS
  <2> HIDE DEF d
  <2>4. ASSUME NEW n \in 1..(m + 1) PROVE d[n] = F[d[n - 1]]
    <3>1. CASE n = m + 1
      BY <3>1, <2>2
    <3>2. CASE n \in 1..m
      <4>1. n \in 0..m /\ n - 1 \in 0..m
        BY <3>2
      <4> QED  BY <3>2, <4>1, <2>1, <2>2
    <3> QED  BY <3>1, <3>2
  <2>5. Iterated(d, m + 1)
    BY <2>1, <2>2, <2>4
  <2> QED  BY <2>3, <2>5
<1>3. Nat \subseteq S
  BY <1>1, <1>2, InductionOnNat
<1> QED  BY <1>3 DEF Iteration

-----------------------------------------------------------------------------
(* P maps each thing to its parts.  A thing ends when every descent from   *)
(* it does: it lies in every set that holds whatever has its parts there.  *)
Progressive(P, X) == \A v \in DOMAIN P : P[v] \subseteq X => v \in X
Ends(P, u) == \A X \in SUBSET DOMAIN P : Progressive(P, X) => u \in X

(* v is below u: in every set that holds the parts of u and, with anything, *)
(* its parts.                                                              *)
ClosedUnder(P, K) == \A v \in K : P[v] \subseteq K
IsBelow(P, v, u) == \A K \in SUBSET DOMAIN P : P[u] \subseteq K /\ ClosedUnder(P, K) => v \in K

LEMMA EndsByParts ==
    ASSUME NEW P, NEW u \in DOMAIN P, \A v \in P[u] : Ends(P, v)
    PROVE  Ends(P, u)
  BY DEF Ends, Progressive

(* Taking parts away keeps what ends.                                      *)
LEMMA EndsWithFewer ==
    ASSUME NEW P, NEW Q, DOMAIN Q = DOMAIN P, \A v \in DOMAIN P : Q[v] \subseteq P[v],
           NEW u, Ends(P, u)
    PROVE  Ends(Q, u)
<1> SUFFICES ASSUME NEW X \in SUBSET DOMAIN Q, Progressive(Q, X) PROVE u \in X
  BY DEF Ends
<1>1. Progressive(P, X)
  BY DEF Progressive
<1> QED  BY <1>1 DEF Ends

(* What ends is not below itself.                                          *)
LEMMA EndsNotBelowItself ==
    ASSUME NEW V, NEW P \in [V -> SUBSET V], NEW u \in V, Ends(P, u)
    PROVE  ~IsBelow(P, u, u)
<1> DEFINE X == {v \in V : ~IsBelow(P, v, v)}
<1>1. ASSUME NEW v \in V, P[v] \subseteq X, IsBelow(P, v, v) PROVE FALSE
  <2> DEFINE K == {w \in V : w \in P[v] \/ \E p \in P[v] : IsBelow(P, w, p)}
  <2>1. P[v] \subseteq K
    OBVIOUS
  <2>2. ASSUME NEW w \in K, NEW x \in P[w] PROVE x \in K
    <3>1. x \in V /\ w \in V
      OBVIOUS
    <3>2. CASE w \in P[v]
      <4>1. IsBelow(P, x, w)
        BY DEF IsBelow
      <4> QED  BY <3>1, <3>2, <4>1
    <3>3. ASSUME NEW p \in P[v], IsBelow(P, w, p) PROVE x \in K
      <4>1. IsBelow(P, x, p)
        BY <3>3 DEF IsBelow, ClosedUnder
      <4> QED  BY <3>1, <4>1
    <3> QED  BY <3>2, <3>3
  <2>3. ClosedUnder(P, K)
    BY <2>2 DEF ClosedUnder
  <2>4. K \in SUBSET DOMAIN P
    OBVIOUS
  <2> HIDE DEF K
  <2>5. v \in K
    BY <1>1, <2>1, <2>3, <2>4 DEF IsBelow
  <2>6. v \notin P[v]
    BY <1>1
  <2>7. PICK p \in P[v] : IsBelow(P, v, p)
    BY <2>5, <2>6 DEF K
  <2>8. IsBelow(P, p, p)
    BY <2>7 DEF IsBelow, ClosedUnder
  <2> QED  BY <1>1, <2>8
<1>2. Progressive(P, X)
  BY <1>1 DEF Progressive
<1>3. X \in SUBSET DOMAIN P
  OBVIOUS
<1> QED  BY <1>2, <1>3 DEF Ends

-----------------------------------------------------------------------------
(* What is reached from the things of A in some number of steps: G maps    *)
(* each thing to what it leads to.                                         *)
Onward(G, S) == S \cup UNION {G[u] : u \in S \cap DOMAIN G}

Spreads(G, A, N, c) ==
    /\ DOMAIN c = 0..N /\ c[0] = A
    /\ \A n \in 1..N : c[n] = Onward(G, c[n - 1])

LEMMA SpreadExists ==
    ASSUME NEW G, NEW A, NEW N \in Nat
    PROVE  \E c : Spreads(G, A, N, c) /\ c = [n \in 0..N |-> c[n]]
<1> DEFINE W == A \cup UNION {G[u] : u \in DOMAIN G}
           D == SUBSET W
           F == [S \in D |-> Onward(G, S)]
<1>1. F \in [D -> D] /\ A \in D
  BY DEF Onward
<1> HIDE DEF D
<1>2. PICK c : Iteration(c, D, F, A, N)
  <2> HIDE DEF F
  <2> QED  BY <1>1, Iterates
<1>3. c \in [0..N -> D] /\ c[0] = A /\ \A n \in 1..N : c[n] = F[c[n - 1]]
  BY <1>2 DEF Iteration
<1>4. \A n \in 1..N : n - 1 \in 0..N
  OBVIOUS
<1>5. \A n \in 1..N : c[n] = Onward(G, c[n - 1])
  BY <1>3, <1>4
<1>6. DOMAIN c = 0..N /\ c = [n \in 0..N |-> c[n]]
  BY <1>3
<1> QED  BY <1>3, <1>5, <1>6 DEF Spreads

(* It stays within every set that holds A and what its members lead to.    *)
LEMMA SpreadWithin ==
    ASSUME NEW G, NEW A, NEW N \in Nat, NEW c, Spreads(G, A, N, c),
           NEW K, A \subseteq K, \A v \in K \cap DOMAIN G : G[v] \subseteq K
    PROVE  \A n \in 0..N : c[n] \subseteq K
<1> DEFINE S == {n \in Nat : n \in 0..N => c[n] \subseteq K}
<1>1. 0 \in S
  BY DEF Spreads
<1>2. ASSUME NEW n \in Nat, n \in S PROVE n + 1 \in S
  <2> SUFFICES ASSUME n + 1 \in 0..N PROVE c[n + 1] \subseteq K
    OBVIOUS
  <2>1. n \in 0..N /\ n + 1 \in 1..N /\ (n + 1) - 1 = n
    OBVIOUS
  <2>2. c[n + 1] = Onward(G, c[n]) /\ c[n] \subseteq K
    BY <1>2, <2>1 DEF Spreads
  <2> QED  BY <2>2 DEF Onward
<1>3. Nat \subseteq S
  BY <1>1, <1>2, InductionOnNat
<1> QED  BY <1>3

LEMMA SpreadGrows ==
    ASSUME NEW G, NEW A, NEW N \in Nat, NEW c, Spreads(G, A, N, c), NEW m \in 0..N
    PROVE  \A n \in m..N : c[m] \subseteq c[n]
<1> DEFINE S == {n \in Nat : n \in m..N => c[m] \subseteq c[n]}
<1>1. 0 \in S
  OBVIOUS
<1>2. ASSUME NEW n \in Nat, n \in S PROVE n + 1 \in S
  <2> SUFFICES ASSUME n + 1 \in m..N PROVE c[m] \subseteq c[n + 1]
    OBVIOUS
  <2>1. CASE n + 1 = m
    BY <2>1
  <2>2. CASE n + 1 # m
    <3>1. n \in m..N /\ n + 1 \in 1..N /\ (n + 1) - 1 = n
      BY <2>2
    <3>2. c[n + 1] = Onward(G, c[n]) /\ c[m] \subseteq c[n]
      BY <1>2, <3>1 DEF Spreads
    <3> QED  BY <3>2 DEF Onward
  <2> QED  BY <2>1, <2>2
<1>3. Nat \subseteq S
  BY <1>1, <1>2, InductionOnNat
<1> QED  BY <1>3

LEMMA SpreadFollows ==
    ASSUME NEW G, NEW A, NEW N \in Nat, NEW c, Spreads(G, A, N, c),
           NEW n \in 1..N, NEW u \in DOMAIN G, u \in c[n - 1], NEW v \in G[u]
    PROVE  v \in c[n]
  BY DEF Spreads, Onward

-----------------------------------------------------------------------------
(* What is below something is part of it, or below one of its parts.       *)
LEMMA BelowUnfolds ==
    ASSUME NEW V, NEW P \in [V -> SUBSET V], NEW u \in V, NEW v \in V, IsBelow(P, v, u)
    PROVE  v \in P[u] \/ \E w \in P[u] : IsBelow(P, v, w)
<1> DEFINE K == {x \in V : x \in P[u] \/ \E w \in P[u] : IsBelow(P, x, w)}
<1>1. P[u] \subseteq K
  OBVIOUS
<1>2. ASSUME NEW x \in K, NEW y \in P[x] PROVE y \in K
  <2>1. x \in V /\ y \in V
    OBVIOUS
  <2>2. CASE x \in P[u]
    <3>1. IsBelow(P, y, x)
      BY DEF IsBelow
    <3> QED  BY <2>1, <2>2, <3>1
  <2>3. ASSUME NEW w \in P[u], IsBelow(P, x, w) PROVE y \in K
    <3>1. IsBelow(P, y, w)
      BY <2>3 DEF IsBelow, ClosedUnder
    <3> QED  BY <2>1, <3>1
  <2> QED  BY <2>2, <2>3
<1>3. K \in SUBSET DOMAIN P /\ ClosedUnder(P, K)
  BY <1>2 DEF ClosedUnder
<1> HIDE DEF K
<1>4. v \in K
  BY <1>1, <1>3 DEF IsBelow
<1> QED  BY <1>4 DEF K

LEMMA PartIsBelow ==
    ASSUME NEW P, NEW u, NEW v \in P[u]
    PROVE  IsBelow(P, v, u)
  BY DEF IsBelow

LEMMA BelowBelow ==
    ASSUME NEW V, NEW P \in [V -> SUBSET V], NEW u \in V, NEW v \in V, NEW w \in V,
           IsBelow(P, v, u), IsBelow(P, w, v)
    PROVE  IsBelow(P, w, u)
  BY DEF IsBelow, ClosedUnder

LEMMA BelowWithMore ==
    ASSUME NEW P, NEW Q, DOMAIN Q = DOMAIN P, \A x \in DOMAIN P : Q[x] \subseteq P[x],
           NEW u \in DOMAIN P, NEW v, IsBelow(Q, v, u)
    PROVE  IsBelow(P, v, u)
<1> SUFFICES ASSUME NEW K \in SUBSET DOMAIN P, P[u] \subseteq K, ClosedUnder(P, K) PROVE v \in K
  BY DEF IsBelow
<1>1. Q[u] \subseteq K /\ ClosedUnder(Q, K)
  BY DEF ClosedUnder
<1> QED  BY <1>1 DEF IsBelow

-----------------------------------------------------------------------------
(* A walk of n steps from part to part.                                    *)
Walk(P, p, n, u, v) ==
    /\ p \in [0..n -> DOMAIN P] /\ p[0] = u /\ p[n] = v
    /\ \A i \in 1..n : p[i] \in P[p[i - 1]]

LEMMA WalkOn ==
    ASSUME NEW V, NEW P \in [V -> SUBSET V], NEW u \in V, NEW v \in V, NEW n \in Nat, NEW p, Walk(P, p, n, u, v),
           NEW w \in P[v]
    PROVE  \E q : Walk(P, q, n + 1, u, w)
<1> DEFINE q == [i \in 0..(n + 1) |-> IF i = n + 1 THEN w ELSE p[i]]
<1>1. p \in [0..n -> V] /\ p[0] = u /\ p[n] = v /\ \A i \in 1..n : p[i] \in P[p[i - 1]]
  BY DEF Walk
<1>2. q[n + 1] = w /\ \A i \in 0..n : q[i] = p[i]
  OBVIOUS
<1>3. q \in [0..(n + 1) -> V]
  BY <1>1
<1> HIDE DEF q
<1>4. ASSUME NEW i \in 1..(n + 1) PROVE q[i] \in P[q[i - 1]]
  <2>1. CASE i = n + 1
    <3>1. i - 1 = n /\ n \in 0..n
      BY <2>1
    <3> QED  BY <1>1, <1>2, <2>1, <3>1
  <2>2. CASE i # n + 1
    <3>1. i \in 1..n /\ i \in 0..n /\ i - 1 \in 0..n
      BY <2>2
    <3> QED  BY <1>1, <1>2, <3>1
  <2> QED  BY <2>1, <2>2
<1>5. q[0] = u
  BY <1>1, <1>2
<1> QED  BY <1>2, <1>3, <1>4, <1>5 DEF Walk

LEMMA BelowWalks ==
    ASSUME NEW V, NEW P \in [V -> SUBSET V], NEW u \in V, NEW v \in V, IsBelow(P, v, u)
    PROVE  \E n \in Nat \ {0} : \E p : Walk(P, p, n, u, v)
<1> DEFINE K == {x \in V : \E n \in Nat \ {0} : \E p : Walk(P, p, n, u, x)}
<1>1. ASSUME NEW x \in P[u] PROVE x \in K
  <2> DEFINE p == [i \in 0..0 |-> u]
  <2>1. Walk(P, p, 0, u, u)
    BY DEF Walk
  <2> HIDE DEF p
  <2>2. \E q : Walk(P, q, 0 + 1, u, x)
    BY <2>1, WalkOn
  <2> QED  BY <2>2
<1>2. ASSUME NEW x \in K, NEW y \in P[x] PROVE y \in K
  <2>1. PICK n \in Nat \ {0} : \E p : Walk(P, p, n, u, x)
    OBVIOUS
  <2>2. PICK p : Walk(P, p, n, u, x)
    BY <2>1
  <2>3. \E q : Walk(P, q, n + 1, u, y)
    BY <2>2, WalkOn
  <2>4. n + 1 \in Nat \ {0} /\ y \in V
    OBVIOUS
  <2> QED  BY <2>3, <2>4
<1>3. K \in SUBSET DOMAIN P /\ ClosedUnder(P, K) /\ P[u] \subseteq K
  BY <1>1, <1>2 DEF ClosedUnder
<1> HIDE DEF K
<1>4. v \in K
  BY <1>3 DEF IsBelow
<1> QED  BY <1>4 DEF K

(* What a walk comes by is below where it began.                           *)
LEMMA WalkIsBelow ==
    ASSUME NEW V, NEW P \in [V -> SUBSET V], NEW u \in V, NEW v \in V, NEW n \in Nat, NEW p, Walk(P, p, n, u, v)
    PROVE  \A i \in 1..n : IsBelow(P, p[i], u)
<1>1. p \in [0..n -> V] /\ p[0] = u /\ \A i \in 1..n : p[i] \in P[p[i - 1]]
  BY DEF Walk
<1> DEFINE S == {i \in Nat : i \in 1..n => IsBelow(P, p[i], u)}
<1>2. 0 \in S
  OBVIOUS
<1>3. ASSUME NEW i \in Nat, i \in S PROVE i + 1 \in S
  <2> SUFFICES ASSUME i + 1 \in 1..n PROVE IsBelow(P, p[i + 1], u)
    OBVIOUS
  <2>1. (i + 1) - 1 = i /\ i \in 0..n
    OBVIOUS
  <2>2. p[i + 1] \in P[p[i]] /\ p[i] \in V /\ p[i + 1] \in V
    BY <1>1, <2>1
  <2>3. IsBelow(P, p[i + 1], p[i])
    BY <2>2, PartIsBelow
  <2>4. CASE i = 0
    BY <1>1, <2>3, <2>4
  <2>5. CASE i # 0
    <3>1. IsBelow(P, p[i], u)
      BY <1>3, <2>1, <2>5
    <3> QED  BY <2>2, <2>3, <3>1, BelowBelow
  <2> QED  BY <2>4, <2>5
<1>4. Nat \subseteq S
  BY <1>2, <1>3, InductionOnNat
<1> QED  BY <1>4

(* What is below another is on a walk no longer than there are things.     *)
LEMMA ShortWalk ==
    ASSUME NEW V, IsFiniteSet(V), NEW P \in [V -> SUBSET V], NEW u \in V, NEW v \in V, IsBelow(P, v, u)
    PROVE  \E n \in 1..Cardinality(V) : \E p : Walk(P, p, n, u, v)
<1> DEFINE L == {n \in Nat \ {0} : \E p : Walk(P, p, n, u, v)}
<1>1. PICK n \in L : \A k \in L : n <= k
  <2>1. L \in SUBSET Nat /\ L # {}
    BY BelowWalks
  <2> HIDE DEF L
  <2> QED  BY <2>1, LeastNumber
<1>2. PICK p : Walk(P, p, n, u, v)
  OBVIOUS
<1>3. p \in [0..n -> V] /\ p[0] = u /\ p[n] = v /\ \A i \in 1..n : p[i] \in P[p[i - 1]]
  BY <1>2 DEF Walk
<1>4. ASSUME NEW i \in 1..n, NEW j \in 1..n, i < j, p[i] = p[j] PROVE FALSE
  <2> DEFINE d == j - i
             m == n - d
             q == [k \in 0..m |-> IF k <= i THEN p[k] ELSE p[k + d]]
  <2>1. d \in 1..n /\ m \in 1..(n - 1) /\ i <= m /\ i + d = j /\ m + d = n
    <3>1. n \in Nat \ {0}
      OBVIOUS
    <3> QED  BY ONLY <3>1, <1>4, i \in 1..n, j \in 1..n
  <2> HIDE DEF d, m
  <2>2. \A k \in 0..m : k \in 0..n /\ k + d \in 0..n
    BY <2>1
  <2>3. q \in [0..m -> V] /\ \A k \in 0..m : q[k] = IF k <= i THEN p[k] ELSE p[k + d]
    BY <1>3, <2>2
  <2> HIDE DEF q
  <2>4. q[0] = u /\ q[m] = v
    <3>1. 0 \in 0..m /\ m \in 0..m /\ 0 <= i /\ (m <= i => m = i /\ j = n)
      BY <2>1
    <3> QED  BY <1>3, <1>4, <2>1, <2>3, <3>1
  <2>5. ASSUME NEW k \in 1..m PROVE q[k] \in P[q[k - 1]]
    <3>1. k \in 0..m /\ k - 1 \in 0..m /\ k \in 1..n /\ k + d \in 1..n /\ (k + d) - 1 = (k - 1) + d
      BY <2>1
    <3>2. CASE k <= i
      <4>1. k - 1 <= i
        BY <3>2
      <4> QED  BY <1>3, <2>3, <3>1, <3>2, <4>1
    <3>3. CASE k = i + 1
      <4>1. k - 1 <= i /\ ~(k <= i) /\ k - 1 = i /\ (k + d) - 1 = j
        BY <2>1, <3>3
      <4>2. q[k] = p[k + d] /\ q[k - 1] = p[i]
        BY <2>3, <3>1, <4>1
      <4> QED  BY <1>3, <1>4, <3>1, <4>1, <4>2
    <3>4. CASE k > i + 1
      <4>1. ~(k - 1 <= i) /\ ~(k <= i)
        BY <3>4
      <4>2. q[k] = p[k + d] /\ q[k - 1] = p[(k - 1) + d]
        BY <2>3, <3>1, <4>1
      <4> QED  BY <1>3, <3>1, <4>2
    <3> QED  BY <3>2, <3>3, <3>4
  <2>6. Walk(P, q, m, u, v)
    BY <2>3, <2>4, <2>5 DEF Walk
  <2>7. m \in L /\ ~(n <= m)
    BY <2>1, <2>6
  <2> QED  BY <1>1, <2>7
<1>5. n <= Cardinality(V)
  <2> DEFINE f == [i \in 1..n |-> p[i]]
             D == 1..n
  <2>1. f \in [D -> V]
    BY <1>3
  <2>2. \A i, j \in D : i # j => f[i] # f[j]
    <3>1. \A i, j \in D : i # j => i < j \/ j < i
      OBVIOUS
    <3> QED  BY <1>4, <3>1
  <2>3. IsFiniteSet(D) /\ Cardinality(D) = n /\ Cardinality(V) \in Nat
    <3>1. Cardinality(1..n) = (IF 1 > n THEN 0 ELSE n - 1 + 1) /\ IsFiniteSet(1..n)
      BY FS_Interval
    <3> QED  BY <3>1, FS_CardinalityType
  <2> HIDE DEF D, f
  <2>4. ~(Cardinality(V) < Cardinality(D))
    BY <2>1, <2>2, <2>3, FS_PigeonHole
  <2> QED  BY <2>3, <2>4
<1>6. Cardinality(V) \in Nat
  BY FS_CardinalityType
<1> QED  BY <1>2, <1>5, <1>6

(* Whoever is on a walk from u is found when spreading from u.             *)
LEMMA WalkSpreads ==
    ASSUME NEW G, NEW u \in DOMAIN G, NEW N \in Nat, NEW c, Spreads(G, G[u], N, c),
           NEW Q, DOMAIN Q = DOMAIN G, \A x \in DOMAIN G : Q[x] \subseteq G[x],
           NEW v, NEW n \in 1..N, NEW p, Walk(Q, p, n, u, v)
    PROVE  v \in c[N]
<1>1. p \in [0..n -> DOMAIN G] /\ p[0] = u /\ p[n] = v /\ \A i \in 1..n : p[i] \in G[p[i - 1]]
  <2>1. p \in [0..n -> DOMAIN G] /\ p[0] = u /\ p[n] = v /\ \A i \in 1..n : p[i] \in Q[p[i - 1]]
    BY DEF Walk
  <2>2. \A i \in 1..n : i - 1 \in 0..n
    OBVIOUS
  <2> QED  BY <2>1, <2>2
<1> DEFINE S == {k \in Nat : k + 1 <= n => p[k + 1] \in c[k]}
<1>2. 0 \in S
  <2>1. 1 \in 1..n /\ 1 - 1 = 0 /\ 0 + 1 = 1
    OBVIOUS
  <2>2. p[1] \in c[0]
    BY <1>1, <2>1 DEF Spreads
  <2> QED  BY <2>1, <2>2
<1>3. ASSUME NEW k \in Nat, k \in S PROVE k + 1 \in S
  <2> DEFINE m == k + 1
             j == m + 1
  <2> SUFFICES ASSUME j <= n PROVE p[j] \in c[m]
    OBVIOUS
  <2>1. m \in 1..N /\ m - 1 = k /\ j \in 1..n /\ j - 1 = m /\ m <= n /\ m \in 0..n
    OBVIOUS
  <2>2. p[m] \in c[k]
    BY <1>3, <2>1
  <2> HIDE DEF m, j
  <2>3. p[j] \in G[p[m]] /\ p[m] \in DOMAIN G
    BY <1>1, <2>1
  <2>4. c[m] = Onward(G, c[m - 1])
    BY <2>1 DEF Spreads
  <2> QED  BY ONLY <2>1, <2>2, <2>3, <2>4 DEF Onward
<1>4. Nat \subseteq S
  BY <1>2, <1>3, InductionOnNat
<1> DEFINE k == n - 1
<1>5. k \in Nat /\ k + 1 = n /\ k \in 0..N /\ N \in k..N
  OBVIOUS
<1> HIDE DEF k
<1>6. v \in c[k]
  BY <1>1, <1>4, <1>5
<1>7. \A i \in k..N : c[k] \subseteq c[i]
  BY <1>5, SpreadGrows
<1> QED  BY <1>5, <1>6, <1>7

-----------------------------------------------------------------------------
(* A function that ends in a call of itself is defined whether or not the  *)
(* calls come to an end: those that do not may have any one value.         *)
LEMMA TailRecursion ==
    ASSUME NEW D, NEW stop \in SUBSET D, NEW step \in [D \ stop -> D], NEW value
    PROVE  \E f : f = [x \in D |-> IF x \in stop THEN value[x] ELSE f[step[x]]]
<1> DEFINE V == {value[x] : x \in stop}
           Holds(R) == /\ \A x \in stop : <<x, value[x]>> \in R
                       /\ \A x \in D \ stop : \A v \in V : <<step[x], v>> \in R => <<x, v>> \in R
           G == {p \in D \X V : \A R \in SUBSET (D \X V) : Holds(R) => p \in R}
           W(x) == {v \in V : <<x, v>> \in G}
           f == [x \in D |-> CHOOSE v : v \in W(x)]
<1>1. Holds(G) /\ G \subseteq D \X V
  OBVIOUS
<1>2. ASSUME NEW R \in SUBSET (D \X V), Holds(R) PROVE G \subseteq R
  BY <1>2
<1>3. ASSUME NEW x \in stop, NEW v \in V, <<x, v>> \in G PROVE v = value[x]
  <2> SUFFICES ASSUME v # value[x] PROVE FALSE
    OBVIOUS
  <2>1. Holds(G \ {<<x, v>>})
    BY <1>1
  <2>2. G \ {<<x, v>>} \in SUBSET (D \X V)
    BY <1>1
  <2> HIDE DEF G, Holds
  <2>3. G \subseteq G \ {<<x, v>>}
    BY <2>1, <2>2, <1>2
  <2> QED  BY <1>3, <2>3
<1>4. ASSUME NEW x \in D \ stop, NEW v \in V, <<x, v>> \in G PROVE <<step[x], v>> \in G
  <2> SUFFICES ASSUME <<step[x], v>> \notin G PROVE FALSE
    OBVIOUS
  <2>1. Holds(G \ {<<x, v>>})
    <3>1. \A y \in stop : <<y, value[y]>> \in G \ {<<x, v>>}
      BY <1>1
    <3>2. ASSUME NEW y \in D \ stop, NEW w \in V, <<step[y], w>> \in G \ {<<x, v>>}
          PROVE  <<y, w>> \in G \ {<<x, v>>}
      BY <1>1, <3>2
    <3> HIDE DEF G
    <3> QED  BY <3>1, <3>2
  <2>2. G \ {<<x, v>>} \in SUBSET (D \X V)
    BY <1>1
  <2> HIDE DEF G, Holds
  <2>3. G \subseteq G \ {<<x, v>>}
    BY <2>1, <2>2, <1>2
  <2> QED  BY <1>4, <2>3
<1>5. ASSUME NEW x \in stop PROVE W(x) = {value[x]}
  <2>1. value[x] \in V
    OBVIOUS
  <2>2. <<x, value[x]>> \in G
    BY <1>1
  <2> HIDE DEF G, V
  <2> QED  BY <1>3, <2>1, <2>2
<1>6. ASSUME NEW x \in D \ stop PROVE step[x] \in D /\ W(x) = W(step[x])
  <2>1. \A v \in V : <<step[x], v>> \in G => <<x, v>> \in G
    BY <1>1
  <2> HIDE DEF G, V
  <2> QED  BY <1>4, <2>1
<1> HIDE DEF W
<1>7. ASSUME NEW x \in D PROVE f[x] = IF x \in stop THEN value[x] ELSE f[step[x]]
  BY <1>5, <1>6
<1> HIDE DEF f
<1>8. f = [x \in D |-> IF x \in stop THEN value[x] ELSE f[step[x]]]
  BY <1>7 DEF f
<1> QED  BY <1>8

-----------------------------------------------------------------------------
(* A thing and what is below it.                                           *)
SelfAndBelow(P, v) == {v} \cup {q \in DOMAIN P : IsBelow(P, q, v)}

LEMMA WithinUnfolds ==
    ASSUME NEW V, NEW P \in [V -> SUBSET V], NEW v \in V
    PROVE  /\ SelfAndBelow(P, v) \subseteq V
           /\ \A q : q \in SelfAndBelow(P, v) <=> q = v \/ \E p \in P[v] : q \in SelfAndBelow(P, p)
<1>1. SelfAndBelow(P, v) \subseteq V
  BY DEF SelfAndBelow
<1>2. ASSUME NEW q \in SelfAndBelow(P, v), q # v PROVE \E p \in P[v] : q \in SelfAndBelow(P, p)
  <2>1. q \in V /\ IsBelow(P, q, v)
    BY <1>2 DEF SelfAndBelow
  <2>2. q \in P[v] \/ \E w \in P[v] : IsBelow(P, q, w)
    BY <2>1, BelowUnfolds
  <2> QED  BY <2>1, <2>2 DEF SelfAndBelow
<1>3. ASSUME NEW q, NEW p \in P[v], q \in SelfAndBelow(P, p) PROVE q \in SelfAndBelow(P, v)
  <2>1. p \in V /\ q \in V /\ (q = p \/ IsBelow(P, q, p)) /\ IsBelow(P, p, v)
    BY <1>3, PartIsBelow DEF SelfAndBelow
  <2>2. IsBelow(P, q, v)
    BY <2>1, BelowBelow
  <2> QED  BY <2>1, <2>2 DEF SelfAndBelow
<1>4. v \in SelfAndBelow(P, v)
  BY DEF SelfAndBelow
<1> QED  BY <1>1, <1>2, <1>3, <1>4

(* A function that collects what is said of a thing and of its parts is    *)
(* defined, and so is one that asks whether any of them is in B.           *)
IsCollector(f, V, P, own) == f = [v \in V |-> own[v] \cup UNION {f[p] : p \in P[v]}]
IsSearcher(f, V, P, B) == f = [v \in V |-> v \in B \/ \E p \in P[v] : f[p]]

LEMMA PartsCollected ==
    ASSUME NEW V, NEW P \in [V -> SUBSET V], NEW own
    PROVE  \E f : IsCollector(f, V, P, own)
<1> DEFINE f == [v \in V |-> UNION {own[q] : q \in SelfAndBelow(P, v)}]
<1>1. ASSUME NEW v \in V PROVE f[v] = own[v] \cup UNION {f[p] : p \in P[v]}
  <2>1. \A q : q \in SelfAndBelow(P, v) <=> q = v \/ \E p \in P[v] : q \in SelfAndBelow(P, p)
    BY WithinUnfolds
  <2>2. \A p \in P[v] : p \in V
    OBVIOUS
  <2>3. ASSUME NEW x \in f[v] PROVE x \in own[v] \/ \E p \in P[v] : x \in f[p]
    <3>1. PICK q \in SelfAndBelow(P, v) : x \in own[q]
      BY <2>3
    <3> QED  BY <3>1, <2>1, <2>2
  <2>4. ASSUME NEW x, x \in own[v] \/ \E p \in P[v] : x \in f[p] PROVE x \in f[v]
    <3>1. CASE x \in own[v]
      BY <3>1, <2>1
    <3>2. ASSUME NEW p \in P[v], x \in f[p] PROVE x \in f[v]
      <4>1. PICK q \in SelfAndBelow(P, p) : x \in own[q]
        BY <3>2, <2>2
      <4> QED  BY <4>1, <2>1
    <3> QED  BY <2>4, <3>1, <3>2
  <2> HIDE DEF f
  <2> QED  BY <2>3, <2>4
<1> HIDE DEF f
<1>2. f = [v \in V |-> f[v]]
  BY DEF f
<1>3. IsCollector(f, V, P, own)
  BY <1>1, <1>2 DEF IsCollector
<1> QED  BY <1>3

LEMMA PartsSearched ==
    ASSUME NEW V, NEW P \in [V -> SUBSET V], NEW B
    PROVE  \E f : IsSearcher(f, V, P, B)
<1> DEFINE f == [v \in V |-> \E q \in SelfAndBelow(P, v) : q \in B]
<1>1. ASSUME NEW v \in V PROVE f[v] = (v \in B \/ \E p \in P[v] : f[p])
  <2>1. \A q : q \in SelfAndBelow(P, v) <=> q = v \/ \E p \in P[v] : q \in SelfAndBelow(P, p)
    BY WithinUnfolds
  <2>2. \A p \in P[v] : f[p] = \E q \in SelfAndBelow(P, p) : q \in B
    OBVIOUS
  <2>3. f[v] = \E q \in SelfAndBelow(P, v) : q \in B
    OBVIOUS
  <2> HIDE DEF f
  <2>4. (\E q \in SelfAndBelow(P, v) : q \in B) <=> (v \in B \/ \E p \in P[v] : \E q \in SelfAndBelow(P, p) : q \in B)
    BY <2>1
  <2>5. (\E p \in P[v] : \E q \in SelfAndBelow(P, p) : q \in B) <=> \E p \in P[v] : f[p]
    BY <2>2, Zenon
  <2> QED  BY <2>3, <2>4, <2>5, Zenon
<1> HIDE DEF f
<1>2. f = [v \in V |-> f[v]]
  BY DEF f
<1>3. IsSearcher(f, V, P, B)
  BY <1>1, <1>2, Zenon DEF IsSearcher
<1> QED  BY <1>3

-----------------------------------------------------------------------------
(* Induction and recursion along a rank: what holds of a thing when it     *)
(* holds of all of lower rank holds of every thing, and a function may be  *)
(* defined at a thing from its values at those of lower rank.              *)
LEMMA RankedInduction ==
    ASSUME NEW D, NEW rank \in [D -> Nat], NEW S,
           \A x \in D : (\A y \in D : rank[y] < rank[x] => y \in S) => x \in S
    PROVE  D \subseteq S
<1> DEFINE N == {n \in Nat : \A x \in D : rank[x] = n => x \in S}
<1>1. \A n \in Nat : (\A k \in Nat : k < n => k \in N) => n \in N
  OBVIOUS
<1> HIDE DEF N
<1>2. Nat \subseteq N
  BY <1>1, StrongInduction
<1> QED  BY <1>2 DEF N

(* step[x][f] is what the function is at x when it is f at lower ranks.    *)
StepsByRank(D, rank, step, R) ==
    \A x \in D : \A g, h \in [D -> R] :
      (\A y \in D : rank[y] < rank[x] => g[y] = h[y]) => step[x][g] = step[x][h]

WellRanked(D, rank, step, R) ==
    rank \in [D -> Nat] /\ R # {} /\ step \in [D -> [[D -> R] -> R]] /\ StepsByRank(D, rank, step, R)

LEMMA RankedRecursion ==
    \A D, rank, step, R : WellRanked(D, rank, step, R) => \E f \in [D -> R] : \A x \in D : f[x] = step[x][f]
<1> SUFFICES ASSUME NEW D, NEW rank, NEW step, NEW R, WellRanked(D, rank, step, R)
             PROVE  \E f \in [D -> R] : \A x \in D : f[x] = step[x][f]
  OBVIOUS
<1> PICK a : a \in R
  BY DEF WellRanked
<1> rank \in [D -> Nat] /\ step \in [D -> [[D -> R] -> R]] /\ StepsByRank(D, rank, step, R)
  BY DEF WellRanked
<1> DEFINE E == [D -> R]
           F == [g \in E |-> [x \in D |-> step[x][g]]]
           first == [x \in D |-> a]
           c(N) == CHOOSE c : Iteration(c, E, F, first, N)
<1>1. F \in [E -> E] /\ first \in E
  OBVIOUS
<1>2. ASSUME NEW N \in Nat
      PROVE  /\ c(N) \in [0..N -> E] /\ c(N)[0] = first
             /\ \A n \in 1..N : \A x \in D : c(N)[n][x] = step[x][c(N)[n - 1]]
  <2> HIDE DEF F, first, E
  <2>1. \E d : Iteration(d, E, F, first, N)
    BY <1>1, Iterates
  <2>2. Iteration(c(N), E, F, first, N)
    BY <2>1
  <2> HIDE DEF c
  <2>3. c(N) \in [0..N -> E] /\ c(N)[0] = first /\ \A n \in 1..N : c(N)[n] = F[c(N)[n - 1]]
    BY <2>2 DEF Iteration
  <2>4. \A n \in 1..N : n - 1 \in 0..N
    OBVIOUS
  <2>5. ASSUME NEW n \in 1..N, NEW x \in D PROVE c(N)[n][x] = step[x][c(N)[n - 1]]
    <3>1. c(N)[n] = F[c(N)[n - 1]] /\ c(N)[n - 1] \in E
      BY <2>3, <2>4
    <3> QED  BY <3>1 DEF F
  <2> QED  BY <2>3, <2>5
<1> HIDE DEF c
(* At a thing all iterates agree from its rank on.                         *)
<1> DEFINE Settled(x) == \A N, M \in Nat : \A n \in 0..N, k \in 0..M :
                           n > rank[x] /\ k > rank[x] => c(N)[n][x] = c(M)[k][x]
           S == {x \in D : Settled(x)}
<1>3. ASSUME NEW x \in D, \A y \in D : rank[y] < rank[x] => y \in S PROVE x \in S
  <2> SUFFICES ASSUME NEW N \in Nat, NEW M \in Nat, NEW n \in 0..N, NEW k \in 0..M, n > rank[x], k > rank[x]
               PROVE  c(N)[n][x] = c(M)[k][x]
    OBVIOUS
  <2>1. rank[x] \in Nat
    OBVIOUS
  <2>2. n \in 1..N /\ k \in 1..M /\ n - 1 \in 0..N /\ k - 1 \in 0..M
    BY <2>1
  <2>3. ASSUME NEW y \in D, rank[y] < rank[x] PROVE c(N)[n - 1][y] = c(M)[k - 1][y]
    <3>1. Settled(y)
      BY <1>3, <2>3
    <3>2. n - 1 > rank[y] /\ k - 1 > rank[y]
      <4>1. rank[y] \in Nat
        OBVIOUS
      <4> QED  BY <2>1, <2>3, <4>1
    <3> QED  BY <3>1, <3>2, <2>2
  <2>4. c(N)[n - 1] \in E /\ c(M)[k - 1] \in E
    BY <1>2, <2>2
  <2>5. step[x][c(N)[n - 1]] = step[x][c(M)[k - 1]]
    BY <2>3, <2>4 DEF StepsByRank
  <2> QED  BY <1>2, <2>2, <2>5
<1> HIDE DEF S
<1>4. D \subseteq S
  BY <1>3, RankedInduction
<1> DEFINE f == [x \in D |-> c(rank[x] + 1)[rank[x] + 1][x]]
<1>5. ASSUME NEW x \in D PROVE f[x] \in R /\ f[x] = step[x][f]
  <2> DEFINE N == rank[x] + 1
  <2>1. N \in Nat /\ N \in 0..N /\ N \in 1..N /\ N - 1 \in 0..N /\ rank[x] \in Nat
    OBVIOUS
  <2>2. f[x] = c(N)[N][x]
    OBVIOUS
  <2>3. c(N)[N] \in E /\ c(N)[N - 1] \in E
    BY <1>2, <2>1
  <2>4. f \in E
    <3> SUFFICES ASSUME NEW y \in D PROVE c(rank[y] + 1)[rank[y] + 1][y] \in R
      OBVIOUS
    <3>1. rank[y] + 1 \in Nat /\ rank[y] + 1 \in 0..(rank[y] + 1)
      OBVIOUS
    <3>2. c(rank[y] + 1)[rank[y] + 1] \in E
      BY <1>2, <3>1
    <3> QED  BY <3>2
  <2>5. ASSUME NEW y \in D, rank[y] < rank[x] PROVE c(N)[N - 1][y] = f[y]
    <3>1. Settled(y)
      BY <1>4 DEF S
    <3>2. rank[y] + 1 \in Nat /\ rank[y] + 1 \in 0..(rank[y] + 1) /\ rank[y] + 1 > rank[y] /\ N - 1 > rank[y]
      BY <2>1, <2>5
    <3> HIDE DEF N
    <3>3. c(N)[N - 1][y] = c(rank[y] + 1)[rank[y] + 1][y]
      BY <2>1, <3>1, <3>2
    <3> QED  BY <3>3
  <2> HIDE DEF N, f
  <2>6. step[x][c(N)[N - 1]] = step[x][f]
    BY <2>3, <2>4, <2>5 DEF StepsByRank
  <2>7. c(N)[N][x] = step[x][c(N)[N - 1]]
    BY <1>2, <2>1
  <2> QED  BY <2>2, <2>3, <2>6, <2>7
<1> HIDE DEF f
<1>6. f \in [D -> R]
  <2>1. f = [x \in D |-> f[x]]
    BY DEF f
  <2> QED  BY <2>1, <1>5
<1> QED  BY <1>5, <1>6
=============================================================================
