-------------------------- MODULE RestrictionProofs --------------------------
(* A restriction that the relation accepts allows no children its base     *)
(* does not, whatever the particles.  The run of a restriction that takes  *)
(* some children is known by how many each of its particles is given;      *)
(* these numbers lie in the ranges that the relation adds up; each child   *)
(* has a particle of the base to go to, by its own name or by that of the  *)
(* name it was compared under; and a base each of whose particles is given *)
(* as many as its range allows takes the children, sorted.                 *)
EXTENDS ContentProofs

-----------------------------------------------------------------------------
(* How many of the first n children f gives to member j, one more and two  *)
(* words after each other.                                                 *)
LEMMA CountSnoc ==
    ASSUME NEW n \in Nat, NEW f, NEW j
    PROVE  Cardinality(OfMember(n + 1, f, j)) = Cardinality(OfMember(n, f, j)) + (IF f[n + 1] = j THEN 1 ELSE 0)
<1>1. IsFiniteSet(OfMember(n, f, j)) /\ Cardinality(OfMember(n, f, j)) \in Nat
  BY CountFacts
<1>2. n + 1 \notin OfMember(n, f, j)
  BY DEF OfMember
<1>3. CASE f[n + 1] = j
  <2>1. OfMember(n + 1, f, j) = OfMember(n, f, j) \cup {n + 1}
    BY <1>3 DEF OfMember
  <2> QED  BY <1>1, <1>2, <1>3, <2>1, FS_AddElement
<1>4. CASE f[n + 1] # j
  <2>1. OfMember(n + 1, f, j) = OfMember(n, f, j)
    <3>1. 1..(n + 1) = (1..n) \cup {n + 1}
      OBVIOUS
    <3> QED  BY <1>4, <3>1 DEF OfMember
  <2> QED  BY <1>1, <1>4, <2>1
<1> QED  BY <1>3, <1>4

LEMMA CountSame ==
    ASSUME NEW n \in Nat, NEW f, NEW g, \A k \in 1..n : g[k] = f[k], NEW j
    PROVE  OfMember(n, g, j) = OfMember(n, f, j)
BY DEF OfMember

CountsAdd(n1, f, n2, g, h, j) ==
    Cardinality(OfMember(n1 + n2, h, j)) = Cardinality(OfMember(n1, f, j)) + Cardinality(OfMember(n2, g, j))

LEMMA CountConcat ==
    ASSUME NEW n1 \in Nat, NEW f, NEW n2 \in Nat, NEW g, NEW h,
           \A k \in 1..n1 : h[k] = f[k], \A k \in 1..n2 : h[n1 + k] = g[k], NEW j
    PROVE  CountsAdd(n1, f, n2, g, h, j)
<1> DEFINE S == {n \in Nat : n <= n2 => CountsAdd(n1, f, n, g, h, j)}
<1>1. 0 \in S
  <2>1. Cardinality(OfMember(0, g, j)) = 0 /\ Cardinality(OfMember(n1, f, j)) \in Nat
    BY CountNone, CountFacts
  <2>2. OfMember(n1 + 0, h, j) = OfMember(n1, f, j)
    BY CountSame
  <2> QED  BY <2>1, <2>2 DEF CountsAdd
<1>2. ASSUME NEW n \in Nat, n \in S PROVE n + 1 \in S
  <2> SUFFICES ASSUME n + 1 <= n2 PROVE CountsAdd(n1, f, n + 1, g, h, j)
    OBVIOUS
  <2>1. CountsAdd(n1, f, n, g, h, j)
    BY <1>2
  <2>2. h[n1 + (n + 1)] = g[n + 1] /\ (n1 + n) + 1 = n1 + (n + 1) /\ n1 + n \in Nat
    OBVIOUS
  <2>3. /\ Cardinality(OfMember(n1, f, j)) \in Nat /\ Cardinality(OfMember(n, g, j)) \in Nat
        /\ Cardinality(OfMember(n1 + n, h, j)) \in Nat
    BY <2>2, CountFacts
  <2>4. Cardinality(OfMember((n1 + n) + 1, h, j)) = Cardinality(OfMember(n1 + n, h, j)) + (IF h[(n1 + n) + 1] = j THEN 1 ELSE 0)
    BY <2>2, CountSnoc
  <2>5. Cardinality(OfMember(n + 1, g, j)) = Cardinality(OfMember(n, g, j)) + (IF g[n + 1] = j THEN 1 ELSE 0)
    BY CountSnoc
  <2> QED  BY <2>1, <2>2, <2>3, <2>4, <2>5 DEF CountsAdd
<1>3. Nat \subseteq S
  <2> HIDE DEF S
  <2> QED  BY <1>1, <1>2, InductionOnNat
<1> QED  BY <1>3

(* The children of w can be given to members of parts that accept them,    *)
(* from lo[i] to hi[i] of them to the i-th.                                *)
PlacedBy(m, parts, w, f, lo, hi) ==
    /\ f \in [1..Len(w) -> DOMAIN parts] /\ Suit(m, parts, w, f)
    /\ \A i \in DOMAIN parts : /\ lo[i] <= Cardinality(OfMember(Len(w), f, i))
                               /\ Within(Cardinality(OfMember(Len(w), f, i)), hi[i])

Placed(m, parts, w, lo, hi) == \E f : PlacedBy(m, parts, w, f, lo, hi)
AllPlaced(m, parts, h, lo, hi) == \A w \in Seq(Name) : h[w] # {} => Placed(m, parts, w, lo, hi)

Lows(parts)  == [DOMAIN parts -> Nat]
Highs(parts) == [DOMAIN parts -> Nat \cup {Unbounded}]
SumLow(parts, a, b)  == [i \in DOMAIN parts |-> a[i] + b[i]]
SumHigh(parts, a, b) == [i \in DOMAIN parts |-> AddOcc(a[i], b[i])]

LEMMA AddOccFacts ==
    ASSUME NEW a \in Nat \cup {Unbounded}, NEW b \in Nat \cup {Unbounded}
    PROVE  /\ AddOcc(a, b) \in Nat \cup {Unbounded}
           /\ \A x, y \in Nat : Within(x, a) /\ Within(y, b) => Within(x + y, AddOcc(a, b))
BY DEF AddOcc, Within, Unbounded

LEMMA MulOccFacts ==
    ASSUME NEW n \in Nat, NEW a \in Nat \cup {Unbounded}
    PROVE  /\ MulOcc(n, a) \in Nat \cup {Unbounded} /\ MulOcc(0, a) = 0
           /\ MulOcc(n + 1, a) = AddOcc(a, MulOcc(n, a))
<1>1. CASE a = Unbounded
  BY <1>1 DEF MulOcc, AddOcc, Unbounded
<1>2. CASE a # Unbounded
  <2>1. a \in Nat /\ n + 1 \in Nat
    BY <1>2
  <2>2. n * a \in Nat /\ (n + 1) * a = a + n * a /\ 0 * a = 0 /\ n * 0 = 0 /\ (n + 1) * 0 = 0
    BY <2>1
  <2>3. MulOcc(n, a) = n * a /\ MulOcc(n + 1, a) = (n + 1) * a /\ MulOcc(0, a) = 0
    BY <2>1, <2>2 DEF MulOcc, Unbounded
  <2> HIDE <1>2
  <2> QED  BY <2>1, <2>2, <2>3 DEF AddOcc, Unbounded
<1> QED  BY <1>1, <1>2

LEMMA PlacedConcat ==
    ASSUME NEW m, NEW parts, NEW w1 \in Seq(Name), NEW w2 \in Seq(Name),
           NEW lo1 \in Lows(parts), NEW hi1 \in Highs(parts), Placed(m, parts, w1, lo1, hi1),
           NEW lo2 \in Lows(parts), NEW hi2 \in Highs(parts), Placed(m, parts, w2, lo2, hi2)
    PROVE  Placed(m, parts, w1 \o w2, SumLow(parts, lo1, lo2), SumHigh(parts, hi1, hi2))
<1> DEFINE w == w1 \o w2
           n1 == Len(w1)
           n2 == Len(w2)
<1>1. PICK f1 : PlacedBy(m, parts, w1, f1, lo1, hi1)
  BY DEF Placed
<1>2. PICK f2 : PlacedBy(m, parts, w2, f2, lo2, hi2)
  BY DEF Placed
<1> DEFINE f == [k \in 1..(n1 + n2) |-> IF k <= n1 THEN f1[k] ELSE f2[k - n1]]
<1>3. /\ Len(w) = n1 + n2 /\ n1 \in Nat /\ n2 \in Nat
      /\ \A i \in 1..n1 : w[i] = w1[i]
      /\ \A i \in 1..n2 : w[n1 + i] = w2[i]
  BY ConcatFacts
<1>4. /\ \A k \in 1..n1 : f[k] = f1[k]
      /\ \A k \in 1..n2 : f[n1 + k] = f2[k]
  BY <1>3
<1>5. /\ f1 \in [1..n1 -> DOMAIN parts] /\ f2 \in [1..n2 -> DOMAIN parts]
      /\ \A k \in 1..n1 : Accept(m, parts[f1[k]].term, w1[k]) # {}
      /\ \A k \in 1..n2 : Accept(m, parts[f2[k]].term, w2[k]) # {}
  BY <1>1, <1>2 DEF PlacedBy, Suit
<1>6. \A k \in 1..(n1 + n2) : k \in 1..n1 \/ \E i \in 1..n2 : k = n1 + i
  <2> TAKE k \in 1..(n1 + n2)
  <2>1. k > n1 => k - n1 \in 1..n2 /\ k = n1 + (k - n1)
    BY <1>3
  <2> QED  BY <1>3, <2>1
<1>7. f \in [1..(n1 + n2) -> DOMAIN parts]
  <2>1. \A k \in 1..(n1 + n2) : f[k] \in DOMAIN parts
    <3> HIDE DEF f
    <3> QED  BY <1>4, <1>5, <1>6
  <2> QED  BY <2>1
<1> HIDE DEF w, n1, n2, f
<1>8. Suit(m, parts, w, f)
  <2> SUFFICES ASSUME NEW k \in 1..(n1 + n2) PROVE Accept(m, parts[f[k]].term, w[k]) # {}
    BY <1>3 DEF Suit
  <2>1. CASE k \in 1..n1
    <3>1. f[k] = f1[k] /\ w[k] = w1[k]
      BY <1>3, <1>4, <2>1
    <3>2. Accept(m, parts[f1[k]].term, w1[k]) # {}
      BY <1>5, <2>1
    <3> QED  BY <3>1, <3>2
  <2>2. ASSUME NEW i \in 1..n2, k = n1 + i PROVE Accept(m, parts[f[k]].term, w[k]) # {}
    <3>1. f[n1 + i] = f2[i] /\ w[n1 + i] = w2[i]
      BY <1>3, <1>4
    <3>2. Accept(m, parts[f2[i]].term, w2[i]) # {}
      BY <1>5
    <3> QED  BY <2>2, <3>1, <3>2
  <2> QED  BY <1>6, <2>1, <2>2
<1>9. ASSUME NEW i \in DOMAIN parts
      PROVE  /\ SumLow(parts, lo1, lo2)[i] <= Cardinality(OfMember(Len(w), f, i))
             /\ Within(Cardinality(OfMember(Len(w), f, i)), SumHigh(parts, hi1, hi2)[i])
  <2> DEFINE c1 == Cardinality(OfMember(n1, f1, i))
             c2 == Cardinality(OfMember(n2, f2, i))
  <2>1. c1 \in Nat /\ c2 \in Nat
    BY <1>3, CountFacts
  <2>2. Cardinality(OfMember(Len(w), f, i)) = c1 + c2
    <3>1. n1 \in Nat /\ n2 \in Nat
      BY <1>3
    <3>2. CountsAdd(n1, f1, n2, f2, f, i)
      BY <3>1, <1>4, CountConcat
    <3> QED  BY <1>3, <3>2 DEF CountsAdd
  <2>3. lo1[i] <= c1 /\ lo2[i] <= c2 /\ Within(c1, hi1[i]) /\ Within(c2, hi2[i])
    BY <1>1, <1>2 DEF PlacedBy, n1, n2
  <2>4. lo1[i] \in Nat /\ lo2[i] \in Nat /\ hi1[i] \in Nat \cup {Unbounded} /\ hi2[i] \in Nat \cup {Unbounded}
    BY DEF Lows, Highs
  <2> HIDE DEF c1, c2
  <2>5. lo1[i] + lo2[i] <= c1 + c2
    BY <2>1, <2>3, <2>4
  <2>6. Within(c1 + c2, AddOcc(hi1[i], hi2[i]))
    BY <2>1, <2>3, <2>4, AddOccFacts
  <2> QED  BY <2>2, <2>5, <2>6 DEF SumLow, SumHigh
<1>10. PlacedBy(m, parts, w, f, SumLow(parts, lo1, lo2), SumHigh(parts, hi1, hi2))
  BY <1>3, <1>7, <1>8, <1>9 DEF PlacedBy
<1> QED  BY <1>10 DEF Placed, w

LEMMA PlacedWiden ==
    ASSUME NEW m, NEW parts, NEW w \in Seq(Name), NEW lo1, NEW hi1, Placed(m, parts, w, lo1, hi1), NEW lo2, NEW hi2,
           \A i \in DOMAIN parts : \A c \in Nat : lo1[i] <= c /\ Within(c, hi1[i]) => lo2[i] <= c /\ Within(c, hi2[i])
    PROVE  Placed(m, parts, w, lo2, hi2)
<1>1. PICK f : PlacedBy(m, parts, w, f, lo1, hi1)
  BY DEF Placed
<1>2. Len(w) \in Nat
  BY EmptyIsZero
<1>3. \A i \in DOMAIN parts : Cardinality(OfMember(Len(w), f, i)) \in Nat
  BY <1>2, CountFacts
<1>4. PlacedBy(m, parts, w, f, lo2, hi2)
  BY <1>1, <1>3 DEF PlacedBy
<1> QED  BY <1>4 DEF Placed

None(parts) == [i \in DOMAIN parts |-> 0]
Only(parts, j, n) == [i \in DOMAIN parts |-> IF i = j THEN n ELSE 0]

LEMMA EmptyPlaced ==
    ASSUME NEW m, NEW parts
    PROVE  Placed(m, parts, << >>, None(parts), None(parts))
<1> DEFINE f == [k \in 1..0 |-> 0]
<1>1. Len(<< >>) = 0 /\ 1..0 = {}
  OBVIOUS
<1>2. f \in [1..0 -> DOMAIN parts]
  BY <1>1
<1> HIDE DEF f
<1>3. \A i \in DOMAIN parts : Cardinality(OfMember(0, f, i)) = 0
  BY CountNone
<1>4. PlacedBy(m, parts, << >>, f, None(parts), None(parts))
  BY <1>1, <1>2, <1>3 DEF PlacedBy, Suit, None, Within
<1> QED  BY <1>4 DEF Placed

LEMMA LeafPlaced ==
    ASSUME NEW m, NEW parts, NEW j \in DOMAIN parts, NEW w \in Seq(Name), Len(w) = 1,
           Accept(m, parts[j].term, w[1]) # {}
    PROVE  Placed(m, parts, w, Only(parts, j, 1), Only(parts, j, 1))
<1> DEFINE f == [k \in 1..1 |-> j]
<1>1. f \in [1..1 -> DOMAIN parts] /\ f[1] = j /\ 1..1 = {1}
  OBVIOUS
<1> HIDE DEF f
<1>2. \A i \in DOMAIN parts : Cardinality(OfMember(1, f, i)) = IF i = j THEN 1 ELSE 0
  <2> TAKE i \in DOMAIN parts
  <2>1. Cardinality(OfMember(0, f, i)) = 0
    BY CountNone
  <2>2. Cardinality(OfMember(0 + 1, f, i)) = Cardinality(OfMember(0, f, i)) + (IF f[0 + 1] = i THEN 1 ELSE 0)
    BY CountSnoc
  <2> QED  BY <1>1, <2>1, <2>2
<1>3. Suit(m, parts, w, f)
  BY <1>1 DEF Suit
<1>4. PlacedBy(m, parts, w, f, Only(parts, j, 1), Only(parts, j, 1))
  BY <1>1, <1>2, <1>3 DEF PlacedBy, Only, Within
<1> QED  BY <1>4 DEF Placed

-----------------------------------------------------------------------------
(* Languages whose words can be placed: joined, repeated, in a row.        *)
LEMMA EmptyRunsPlaced ==
    ASSUME NEW m, NEW parts
    PROVE  AllPlaced(m, parts, EmptyRuns, None(parts), None(parts))
<1> SUFFICES ASSUME NEW w \in Seq(Name), EmptyRuns[w] # {} PROVE Placed(m, parts, w, None(parts), None(parts))
  BY DEF AllPlaced
<1>1. w = << >>
  BY EmptyRunsFacts
<1> QED  BY <1>1, EmptyPlaced

LEMMA JoinedPlaced ==
    ASSUME NEW m, NEW parts, NEW h1 \in Language, NEW h2 \in Language,
           NEW lo1 \in Lows(parts), NEW hi1 \in Highs(parts), AllPlaced(m, parts, h1, lo1, hi1),
           NEW lo2 \in Lows(parts), NEW hi2 \in Highs(parts), AllPlaced(m, parts, h2, lo2, hi2)
    PROVE  AllPlaced(m, parts, Joined(h1, h2), SumLow(parts, lo1, lo2), SumHigh(parts, hi1, hi2))
<1> SUFFICES ASSUME NEW w \in Seq(Name), NEW r \in Joined(h1, h2)[w]
             PROVE  Placed(m, parts, w, SumLow(parts, lo1, lo2), SumHigh(parts, hi1, hi2))
  BY DEF AllPlaced
<1>1. JoinedRun(h1, h2, w, r)
  BY JoinedFacts
<1>2. PICK w1 \in Seq(Name), w2 \in Seq(Name) : \E r1 \in h1[w1], r2 \in h2[w2] : w = w1 \o w2 /\ r = r1 \o r2
  BY <1>1 DEF JoinedRun
<1>3. Placed(m, parts, w1, lo1, hi1) /\ Placed(m, parts, w2, lo2, hi2) /\ w = w1 \o w2
  BY <1>2 DEF AllPlaced
<1> QED  BY <1>3, PlacedConcat

TimesLow(parts, n, lo)  == [i \in DOMAIN parts |-> n * lo[i]]
TimesHigh(parts, n, hi) == [i \in DOMAIN parts |-> MulOcc(n, hi[i])]

LEMMA TimesBounds ==
    ASSUME NEW parts, NEW n \in Nat, NEW lo \in Lows(parts), NEW hi \in Highs(parts)
    PROVE  /\ TimesLow(parts, n, lo) \in Lows(parts) /\ TimesHigh(parts, n, hi) \in Highs(parts)
           /\ TimesLow(parts, 0, lo) = None(parts) /\ TimesHigh(parts, 0, hi) = None(parts)
           /\ SumLow(parts, lo, TimesLow(parts, n, lo)) = TimesLow(parts, n + 1, lo)
           /\ SumHigh(parts, hi, TimesHigh(parts, n, hi)) = TimesHigh(parts, n + 1, hi)
<1>1. ASSUME NEW i \in DOMAIN parts
      PROVE  /\ n * lo[i] \in Nat /\ 0 * lo[i] = 0 /\ lo[i] + n * lo[i] = (n + 1) * lo[i]
             /\ MulOcc(n, hi[i]) \in Nat \cup {Unbounded} /\ MulOcc(0, hi[i]) = 0
             /\ MulOcc(n + 1, hi[i]) = AddOcc(hi[i], MulOcc(n, hi[i]))
  <2>1. lo[i] \in Nat /\ hi[i] \in Nat \cup {Unbounded}
    BY DEF Lows, Highs
  <2>2. n * lo[i] \in Nat /\ 0 * lo[i] = 0 /\ lo[i] + n * lo[i] = (n + 1) * lo[i]
    BY <2>1
  <2> QED  BY <2>1, <2>2, MulOccFacts
<1>2. TimesLow(parts, n, lo) \in Lows(parts) /\ TimesHigh(parts, n, hi) \in Highs(parts)
  BY <1>1 DEF TimesLow, TimesHigh, Lows, Highs
<1>3. TimesLow(parts, 0, lo) = None(parts) /\ TimesHigh(parts, 0, hi) = None(parts)
  BY <1>1 DEF TimesLow, TimesHigh, None
<1>4. SumLow(parts, lo, TimesLow(parts, n, lo)) = TimesLow(parts, n + 1, lo)
  BY <1>1 DEF SumLow, TimesLow
<1>5. SumHigh(parts, hi, TimesHigh(parts, n, hi)) = TimesHigh(parts, n + 1, hi)
  BY <1>1 DEF SumHigh, TimesHigh
<1> QED  BY <1>2, <1>3, <1>4, <1>5

LEMMA TimesPlaced ==
    ASSUME NEW m, NEW parts, NEW once \in Language, NEW lo \in Lows(parts), NEW hi \in Highs(parts),
           AllPlaced(m, parts, once, lo, hi), NEW n \in Nat
    PROVE  AllPlaced(m, parts, Times(once)[n], TimesLow(parts, n, lo), TimesHigh(parts, n, hi))
<1> DEFINE S == {k \in Nat : AllPlaced(m, parts, Times(once)[k], TimesLow(parts, k, lo), TimesHigh(parts, k, hi))}
<1>1. 0 \in S
  <2>1. Times(once)[0] = EmptyRuns /\ TimesLow(parts, 0, lo) = None(parts) /\ TimesHigh(parts, 0, hi) = None(parts)
    BY TimesFacts, TimesBounds
  <2> QED  BY <2>1, EmptyRunsPlaced
<1>2. ASSUME NEW k \in Nat, k \in S PROVE k + 1 \in S
  <2>1. Times(once)[k + 1] = Joined(once, Times(once)[k]) /\ Times(once)[k] \in Language
    BY TimesFacts
  <2>2. /\ TimesLow(parts, k, lo) \in Lows(parts) /\ TimesHigh(parts, k, hi) \in Highs(parts)
        /\ SumLow(parts, lo, TimesLow(parts, k, lo)) = TimesLow(parts, k + 1, lo)
        /\ SumHigh(parts, hi, TimesHigh(parts, k, hi)) = TimesHigh(parts, k + 1, hi)
    BY TimesBounds
  <2>3. AllPlaced(m, parts, Times(once)[k], TimesLow(parts, k, lo), TimesHigh(parts, k, hi))
    BY <1>2
  <2>4. AllPlaced(m, parts, Joined(once, Times(once)[k]), SumLow(parts, lo, TimesLow(parts, k, lo)),
                  SumHigh(parts, hi, TimesHigh(parts, k, hi)))
    BY <2>1, <2>2, <2>3, JoinedPlaced
  <2> QED  BY <2>1, <2>2, <2>4
<1>3. Nat \subseteq S
  <2> HIDE DEF S
  <2> QED  BY <1>1, <1>2, InductionOnNat
<1> QED  BY <1>3

(* The range of a particle is that of its number of occurrences.           *)
LEMMA MulOccWithin ==
    ASSUME NEW n \in Nat, NEW max \in Nat \cup {Unbounded}, Within(n, max), NEW a \in Nat \cup {Unbounded},
           NEW c \in Nat, Within(c, MulOcc(n, a))
    PROVE  Within(c, MulOcc(max, a))
<1>1. CASE a = Unbounded \/ max = Unbounded
  BY <1>1 DEF MulOcc, Within, Unbounded
<1>2. CASE a # Unbounded /\ max # Unbounded
  <2>1. a \in Nat /\ max \in Nat /\ n <= max /\ max - n \in Nat
    BY <1>2 DEF Within, Unbounded
  <2>2. n * a \in Nat /\ (max - n) * a \in Nat /\ max * a = n * a + (max - n) * a /\ 0 * a = 0 /\ n * 0 = 0 /\ max * 0 = 0
    BY <2>1
  <2>3. MulOcc(n, a) = n * a /\ MulOcc(max, a) = max * a
    BY <2>1, <2>2 DEF MulOcc, Unbounded
  <2> QED  BY <2>1, <2>2, <2>3 DEF Within, Unbounded
<1> QED  BY <1>1, <1>2

LEMMA ProductGrows ==
    ASSUME NEW n \in Nat, NEW min \in Nat, min <= n, NEW a \in Nat
    PROVE  min * a \in Nat /\ min * a <= n * a
<1>1. n - min \in Nat
  OBVIOUS
<1>2. (n - min) * a \in Nat /\ n * a = min * a + (n - min) * a /\ min * a \in Nat
  BY <1>1
<1> QED  BY <1>2

TopLow(p, parts, lo)  == [i \in DOMAIN parts |-> p.min * lo[i]]
TopHigh(p, parts, hi) == [i \in DOMAIN parts |-> MulOcc(p.max, hi[i])]

LEMMA TimesRunsPlaced ==
    ASSUME NEW m, NEW parts, NEW p \in Particles, NEW once \in Language,
           NEW lo \in Lows(parts), NEW hi \in Highs(parts), AllPlaced(m, parts, once, lo, hi)
    PROVE  AllPlaced(m, parts, TimesRuns(p, once), TopLow(p, parts, lo), TopHigh(p, parts, hi))
<1> SUFFICES ASSUME NEW w \in Seq(Name), NEW r \in TimesRuns(p, once)[w]
             PROVE  Placed(m, parts, w, TopLow(p, parts, lo), TopHigh(p, parts, hi))
  BY DEF AllPlaced
<1>1. FollowingRun(p, once, 0, w, r)
  BY RunsTimesFacts, RepeatedFacts
<1>2. PICK n \in Nat : Enough(p, 0 + n) /\ r \in Times(once)[n][w]
  BY <1>1 DEF FollowingRun
<1>3. p.min <= n /\ Within(n, p.max) /\ p.min \in Nat /\ p.max \in Nat \cup {Unbounded}
  <2>1. p.min \in Nat /\ p.max \in Nat \cup {Unbounded}
    BY ParticleShape
  <2> QED  BY <1>2, <2>1 DEF Enough
<1>4. Placed(m, parts, w, TimesLow(parts, n, lo), TimesHigh(parts, n, hi))
  BY <1>2, TimesPlaced DEF AllPlaced
<1>5. ASSUME NEW i \in DOMAIN parts, NEW c \in Nat, TimesLow(parts, n, lo)[i] <= c, Within(c, TimesHigh(parts, n, hi)[i])
      PROVE  TopLow(p, parts, lo)[i] <= c /\ Within(c, TopHigh(p, parts, hi)[i])
  <2>1. lo[i] \in Nat /\ hi[i] \in Nat \cup {Unbounded}
    BY DEF Lows, Highs
  <2>2. p.min * lo[i] \in Nat /\ p.min * lo[i] <= n * lo[i] /\ n * lo[i] \in Nat
    <3> DEFINE a == lo[i]
               low == p.min
    <3>1. a \in Nat /\ low \in Nat /\ low <= n
      BY <1>3, <2>1
    <3> HIDE DEF a, low
    <3>2. low * a \in Nat /\ low * a <= n * a
      BY <3>1, ProductGrows
    <3>3. n * a \in Nat
      BY <3>1
    <3> QED  BY <3>2, <3>3 DEF a, low
  <2>3. n * lo[i] <= c /\ Within(c, MulOcc(n, hi[i]))
    BY <1>5 DEF TimesLow, TimesHigh
  <2>4. Within(c, MulOcc(p.max, hi[i]))
    BY <1>3, <2>1, <2>3, MulOccWithin
  <2>5. p.min * lo[i] <= c
    BY <2>2, <2>3
  <2> QED  BY <2>4, <2>5 DEF TopLow, TopHigh
<1> QED  BY <1>4, <1>5, PlacedWiden

-----------------------------------------------------------------------------
(* The members of a flat group, one after the other or in any order.       *)
PartLow(parts)  == [i \in DOMAIN parts |-> parts[i].min]
PartHigh(parts) == [i \in DOMAIN parts |-> parts[i].max]

LEMMA PartBounds ==
    ASSUME NEW parts \in Seq(Particles)
    PROVE  PartLow(parts) \in Lows(parts) /\ PartHigh(parts) \in Highs(parts)
BY PartFacts DEF PartLow, PartHigh, Lows, Highs

LEMMA MemberPlaced ==
    ASSUME NEW m, NEW parts \in Seq(Particles), NEW j \in DOMAIN parts
    PROVE  /\ TimesRuns(parts[j], LeafRuns(m, parts[j].term)) \in Language
           /\ AllPlaced(m, parts, TimesRuns(parts[j], LeafRuns(m, parts[j].term)),
                        Only(parts, j, parts[j].min), Only(parts, j, parts[j].max))
<1> DEFINE p == parts[j]
           h == LeafRuns(m, p.term)
           one == Only(parts, j, 1)
<1>1. p \in Particles /\ p.min \in Nat /\ p.max \in Nat \cup {Unbounded}
  BY PartFacts
<1>2. one \in Lows(parts) /\ one \in Highs(parts)
  BY DEF Only, Lows, Highs
<1>3. h \in Language
  BY <1>1, LeafRunsFacts
<1>4. AllPlaced(m, parts, h, one, one)
  <2> SUFFICES ASSUME NEW w \in Seq(Name), NEW r \in h[w] PROVE Placed(m, parts, w, one, one)
    BY DEF AllPlaced
  <2>1. Len(w) = 1 /\ Accept(m, p.term, w[1]) # {}
    BY <1>1, LeafRunsFacts
  <2> QED  BY <2>1, LeafPlaced
<1>5. AllPlaced(m, parts, TimesRuns(p, h), TopLow(p, parts, one), TopHigh(p, parts, one))
  <2> HIDE DEF h, one, p
  <2> QED  BY <1>1, <1>2, <1>3, <1>4, TimesRunsPlaced
<1>6. TopLow(p, parts, one) = Only(parts, j, p.min)
  <2>1. p.min * 1 = p.min /\ p.min * 0 = 0
    BY <1>1
  <2> QED  BY <2>1 DEF TopLow, Only
<1>7. TopHigh(p, parts, one) = Only(parts, j, p.max)
  <2>1. MulOcc(p.max, 1) = p.max /\ MulOcc(p.max, 0) = 0
    <3>1. CASE p.max = Unbounded
      BY <3>1 DEF MulOcc, Unbounded
    <3>2. CASE p.max \in Nat
      <4>1. p.max * 1 = p.max
        BY <3>2
      <4> QED  BY <3>2, <4>1 DEF MulOcc, Unbounded
    <3> QED  BY <1>1, <3>1, <3>2
  <2> QED  BY <2>1 DEF TopHigh, Only
<1>8. TimesRuns(p, h) \in Language
  BY <1>1, <1>3, RunsTimesFacts, RepeatedFacts
<1> QED  BY <1>5, <1>6, <1>7, <1>8

From(parts, i, b) == [k \in DOMAIN parts |-> IF k >= i THEN b[k] ELSE 0]

LEMMA SeqPlaced ==
    ASSUME NEW m, NEW parts \in Seq(Particles), NEW runs,
           \A i \in 1..Len(parts) : /\ runs[i] \in Language
                                    /\ AllPlaced(m, parts, runs[i], Only(parts, i, parts[i].min), Only(parts, i, parts[i].max))
    PROVE  AllPlaced(m, parts, SeqRuns(parts, runs), PartLow(parts), PartHigh(parts))
<1> DEFINE N == Len(parts)
           lo(i) == From(parts, i, PartLow(parts))
           hi(i) == From(parts, i, PartHigh(parts))
<1>1. N \in Nat /\ DOMAIN parts = 1..N
  BY EmptyIsZero
<1>2. PICK e : SeqSteps(parts, runs, e)
  BY <1>1, SeqRunsSteps
<1>3. ASSUME NEW i \in 1..(N + 1) PROVE lo(i) \in Lows(parts) /\ hi(i) \in Highs(parts)
  BY PartFacts DEF From, PartLow, PartHigh, Lows, Highs
<1> DEFINE S == {i \in 1..(N + 1) : AllPlaced(m, parts, e[i], lo(i), hi(i))}
<1>4. N + 1 \in S
  <2>1. e[N + 1] = EmptyRuns
    BY <1>2 DEF SeqSteps
  <2>2. lo(N + 1) = None(parts) /\ hi(N + 1) = None(parts)
    BY <1>1 DEF From, None
  <2>3. N + 1 \in 1..(N + 1)
    BY <1>1
  <2> QED  BY <2>1, <2>2, <2>3, EmptyRunsPlaced
<1>5. ASSUME NEW i \in 1..N, i + 1 \in S PROVE i \in S
  <2>1. i \in 1..(N + 1) /\ i + 1 \in 1..(N + 1) /\ i \in DOMAIN parts
    BY <1>1
  <2>2. e[i] = Joined(runs[i], e[i + 1]) /\ e[i + 1] \in Language
    BY <1>2, <2>1 DEF SeqSteps
  <2> DEFINE a == Only(parts, i, parts[i].min)
             b == Only(parts, i, parts[i].max)
  <2>3. a \in Lows(parts) /\ b \in Highs(parts)
    BY <2>1, PartFacts DEF Only, Lows, Highs
  <2>4. lo(i + 1) \in Lows(parts) /\ hi(i + 1) \in Highs(parts)
    BY <1>3, <2>1
  <2>5. SumLow(parts, a, lo(i + 1)) = lo(i)
    <3>1. ASSUME NEW k \in DOMAIN parts PROVE a[k] + lo(i + 1)[k] = lo(i)[k]
      <4>1. parts[k].min \in Nat /\ k \in 1..N /\ i \in 1..N
        BY <1>1, PartFacts
      <4> QED  BY <4>1 DEF Only, From, PartLow
    <3> QED  BY <3>1 DEF SumLow, From
  <2>6. SumHigh(parts, b, hi(i + 1)) = hi(i)
    <3>1. ASSUME NEW k \in DOMAIN parts PROVE AddOcc(b[k], hi(i + 1)[k]) = hi(i)[k]
      <4>1. parts[k].max \in Nat \cup {Unbounded} /\ k \in 1..N /\ i \in 1..N
        BY <1>1, PartFacts
      <4> QED  BY <4>1 DEF Only, From, PartHigh, AddOcc, Unbounded
    <3> QED  BY <3>1 DEF SumHigh, From
  <2>7. runs[i] \in Language /\ AllPlaced(m, parts, runs[i], a, b)
    OBVIOUS
  <2>8. AllPlaced(m, parts, e[i + 1], lo(i + 1), hi(i + 1))
    BY <1>5
  <2> HIDE DEF a, b, lo, hi
  <2>9. AllPlaced(m, parts, Joined(runs[i], e[i + 1]), SumLow(parts, a, lo(i + 1)), SumHigh(parts, b, hi(i + 1)))
    BY <2>2, <2>3, <2>4, <2>7, <2>8, JoinedPlaced
  <2> QED  BY <2>1, <2>2, <2>5, <2>6, <2>9
<1>6. 1..(N + 1) \subseteq S
  <2> HIDE DEF S
  <2> QED  BY <1>1, <1>4, <1>5, DownInduction
<1>7. AllPlaced(m, parts, e[1], lo(1), hi(1))
  <2>1. 1 \in 1..(N + 1)
    BY <1>1
  <2> QED  BY <1>6, <2>1
<1>8. lo(1) = PartLow(parts) /\ hi(1) = PartHigh(parts)
  BY <1>1 DEF From, PartLow, PartHigh
<1> QED  BY <1>2, <1>7, <1>8 DEF SeqSteps

LEMMA AllGroupPlaced ==
    ASSUME NEW m, NEW parts \in Seq(Particles)
    PROVE  AllPlaced(m, parts, AllRuns(m, parts), PartLow(parts), PartHigh(parts))
<1> DEFINE zero == [i \in DOMAIN parts |-> 0]
<1> SUFFICES ASSUME NEW w \in Seq(Name), NEW r \in AllRuns(m, parts)[w]
             PROVE  Placed(m, parts, w, PartLow(parts), PartHigh(parts))
  BY DEF AllPlaced
<1>1. AllRun(m, parts, zero, w, r)
  BY RunsOfAllFacts, AllFromFacts
<1>2. PICK f \in [1..Len(w) -> DOMAIN parts] : Suit(m, parts, w, f) /\ Fit(parts, zero, Len(w), f)
  BY <1>1 DEF AllRun
<1>3. ASSUME NEW i \in DOMAIN parts
      PROVE  /\ parts[i].min <= Cardinality(OfMember(Len(w), f, i))
             /\ Within(Cardinality(OfMember(Len(w), f, i)), parts[i].max)
  <2>1. Len(w) \in Nat /\ parts[i].min \in Nat
    BY EmptyIsZero, PartFacts
  <2>2. Cardinality(OfMember(Len(w), f, i)) \in Nat
    BY <2>1, CountFacts
  <2>3. 0 + Cardinality(OfMember(Len(w), f, i)) >= parts[i].min /\ Within(0 + Cardinality(OfMember(Len(w), f, i)), parts[i].max)
    BY <1>2 DEF Fit
  <2> QED  BY <2>1, <2>2, <2>3
<1>4. PlacedBy(m, parts, w, f, PartLow(parts), PartHigh(parts))
  BY <1>2, <1>3 DEF PlacedBy, PartLow, PartHigh
<1> QED  BY <1>4 DEF Placed

LEMMA SnocFacts ==
    ASSUME NEW A, NEW s \in Seq(A), NEW a \in A
    PROVE  /\ s \o <<a>> \in Seq(A) /\ Len(s \o <<a>>) = Len(s) + 1
           /\ \A i \in 1..Len(s) : (s \o <<a>>)[i] = s[i]
           /\ (s \o <<a>>)[Len(s) + 1] = a
OBVIOUS

LEMMA FlattenSingles ==
    ASSUME NEW A, NEW s \in Seq(A), NEW seqs \in Seq(Seq(A)), Len(seqs) = Len(s),
           \A i \in 1..Len(s) : seqs[i] = <<s[i]>>
    PROVE  FlattenSeq(seqs) = s
<1> DEFINE N == Len(s)
<1>1. N \in Nat /\ (\A i \in 1..N : s[i] \in A) /\ FlattenSeq(seqs) \in Seq(A)
  BY EmptyIsZero, FlattenFacts
<1>2. CASE N = 0
  <2>1. DOMAIN seqs = {}
    BY <1>2
  <2>2. ToSet(FlattenSeq(seqs)) = {}
    <3>1. ToSet(FlattenSeq(seqs)) = UNION {ToSet(seqs[i]) : i \in DOMAIN seqs}
      BY FlattenFacts, ZenonT(20)
    <3> QED  BY <2>1, <3>1
  <2>3. FlattenSeq(seqs) = << >> /\ s = << >>
    <3>1. \A i \in DOMAIN FlattenSeq(seqs) : FlattenSeq(seqs)[i] \in ToSet(FlattenSeq(seqs))
      BY <1>1, MemberOfSeq
    <3>2. DOMAIN FlattenSeq(seqs) = {}
      BY <2>2, <3>1
    <3> QED  BY <1>1, <1>2, <3>2, EmptyIsZero
  <2> QED  BY <2>3
<1>3. CASE N # 0
  <2>1. PICK h : FlatteningOf(seqs, h)
    BY <1>3, FlattenSteps
  <2> DEFINE Upto(n) == h[n] \in Seq(A) /\ Len(h[n]) = n /\ \A k \in 1..n : h[n][k] = s[k]
             S == {n \in Nat : n \in 1..N => Upto(n)}
  <2>2. \A i \in 1..N : h[i] = IF i = 1 THEN seqs[i] ELSE h[i - 1] \o seqs[i]
    BY <2>1 DEF FlatteningOf
  <2>3. 0 \in S
    OBVIOUS
  <2>4. ASSUME NEW n \in Nat, n \in S PROVE n + 1 \in S
    <3> SUFFICES ASSUME n + 1 \in 1..N PROVE Upto(n + 1)
      OBVIOUS
    <3>1. s[n + 1] \in A /\ seqs[n + 1] = <<s[n + 1]>> /\ <<s[n + 1]>> \in Seq(A) /\ Len(<<s[n + 1]>>) = 1
      BY <1>1
    <3>2. CASE n = 0
      <4>1. h[1] = <<s[1]>>
        BY <2>2, <3>1, <3>2
      <4>2. 0 + 1 = 1 /\ <<s[1]>>[1] = s[1] /\ \A k \in 1..1 : k = 1
        OBVIOUS
      <4>3. h[1] \in Seq(A) /\ Len(h[1]) = 1 /\ h[1][1] = s[1]
        BY <3>1, <3>2, <4>1, <4>2
      <4> QED  BY <3>2, <4>2, <4>3
    <3>3. CASE n # 0
      <4>1. n \in 1..N /\ (n + 1) - 1 = n /\ n + 1 # 1
        BY <3>3
      <4>2. h[n + 1] = h[n] \o <<s[n + 1]>>
        BY <2>2, <3>1, <4>1
      <4>3. Upto(n)
        BY <2>4, <4>1
      <4> DEFINE u == h[n]
                 a == s[n + 1]
      <4>4. a \in A /\ u \in Seq(A) /\ Len(u) = n
        BY <3>1, <4>3
      <4> HIDE DEF u, a
      <4>5. u \o <<a>> \in Seq(A) /\ Len(u \o <<a>>) = n + 1 /\ (\A k \in 1..n : (u \o <<a>>)[k] = u[k]) /\ (u \o <<a>>)[n + 1] = a
        BY <4>4, SnocFacts
      <4>6. \A k \in 1..(n + 1) : k \in 1..n \/ k = n + 1
        OBVIOUS
      <4> QED  BY <4>2, <4>3, <4>5, <4>6 DEF u, a
    <3> QED  BY <3>2, <3>3
  <2>5. Nat \subseteq S
    <3> HIDE DEF S
    <3> QED  BY <2>3, <2>4, InductionOnNat
  <2>6. Upto(N)
    <3>1. N \in 1..N
      BY <1>1, <1>3
    <3> QED  BY <1>1, <2>5, <3>1
  <2>7. FlattenSeq(seqs) = h[N]
    BY <2>1 DEF FlatteningOf
  <2> QED  BY <2>6, <2>7, SameSeq
<1> QED  BY <1>2, <1>3

(* A group of leaves is what the matcher sees of it.                       *)
LEMMA LeafMember ==
    ASSUME NEW q \in Particles, IsLeaf(q.term)
    PROVE  q.term \in LeafTerm /\ Unfolded[q] = q /\ FlattenAll[q] = <<q>> /\ Leaves[q] = {q.term} /\ ~IsGroup(q.term)
<1>1. q.term \in LeafTerm
  BY ParticleShape
<1>2. q.term.kind # "all" /\ ~IsGroup(q.term)
  BY <1>1, LeafFacts DEF IsGroup
<1>3. FlattenAll[q] = <<q>>
  BY <1>2, FlattenAllUnfolds DEF FlattenStep
<1> QED  BY <1>1, <1>2, <1>3, UnfoldedShape, LeavesFacts

LEMMA GroupUnfolded ==
    ASSUME NEW p \in Particles, IsGroup(p.term), \A q \in ToSet(p.term.particles) : Unfolded[q] = q
    PROVE  Unfolded[p] = p
<1>1. /\ p.term \notin LeafTerm /\ Referred(p.term) = p.term /\ MembersOf(p) = p.term.particles
      /\ p.term.particles \in Seq(Particles)
  BY GroupShape
<1>2. p = [min |-> p.min, max |-> p.max, term |-> p.term] /\ ~IsLeaf(p.term)
  BY <1>1, ParticleShape
<1>3. \A i \in DOMAIN p.term.particles : Unfolded[p.term.particles[i]] = p.term.particles[i]
  BY <1>1, MemberOfSeq
<1>4. [i \in DOMAIN MembersOf(p) |-> Unfolded[MembersOf(p)[i]]] = p.term.particles
  BY <1>1, <1>3
<1>5. Unfolded[p] = [p EXCEPT !.term = Group(p.term.kind, p.term.particles)]
  BY <1>1, <1>2, <1>4, UnfoldedFacts DEF UnfoldStep
<1>6. Group(p.term.kind, p.term.particles) = p.term
  <2>1. p \in ParticlesTo[Level[p]] /\ Level[p] \in Nat
    BY LevelFacts
  <2>2. p.term \in TermsTo(Level[p])
    BY <2>1, ParticlesByDepth DEF ParticlesOf
  <2>3. p.term \in GroupsOf(ParticlesTo[Level[p] - 1])
    BY <1>1, <2>2 DEF TermsTo, TermsOver, IsGroup
  <2> QED  BY <2>3 DEF GroupsOf, Group
<1> QED  BY <1>2, <1>5, <1>6

LEMMA FlatShape ==
    ASSUME NEW p \in Particles, Flat(p)
    PROVE  /\ IsGroup(p.term) /\ p.term.particles \in Seq(Particles) /\ MembersOf(p) = p.term.particles
           /\ p.term \notin LeafTerm /\ Referred(p.term) = p.term
           /\ \A i \in DOMAIN p.term.particles : p.term.particles[i] \in Particles /\ IsLeaf(p.term.particles[i].term)
           /\ Unfolded[p] = p
<1>1. IsGroup(p.term)
  BY DEF Flat, IsGroup
<1>2. p.term.particles \in Seq(Particles) /\ MembersOf(p) = p.term.particles /\ p.term \notin LeafTerm /\ Referred(p.term) = p.term
  BY <1>1, GroupShape
<1>3. \A q \in ToSet(p.term.particles) : q \in Particles /\ IsLeaf(q.term)
  BY <1>2, MemberOfSeq DEF Flat
<1>4. Unfolded[p] = p
  BY <1>1, <1>3, LeafMember, GroupUnfolded
<1> QED  BY <1>1, <1>2, <1>3, <1>4, MemberOfSeq

LEMMA FlatFlattened ==
    ASSUME NEW p \in Particles, Flat(p), p.term.kind = "all"
    PROVE  FlattenAll[p] = p.term.particles
<1> DEFINE ps == p.term.particles
           seqs == [i \in DOMAIN ps |-> Optional(ps[i], FlattenAll[ps[i]])]
<1>1. ps \in Seq(Particles) /\ \A i \in DOMAIN ps : ps[i] \in Particles /\ IsLeaf(ps[i].term)
  BY FlatShape
<1>2. ASSUME NEW i \in DOMAIN ps PROVE seqs[i] = <<ps[i]>> /\ <<ps[i]>> \in Seq(Particles)
  <2>1. FlattenAll[ps[i]] = <<ps[i]>> /\ ps[i] \in Particles
    BY <1>1, LeafMember
  <2>2. ps[i].min = 0 => [ps[i] EXCEPT !.min = 0] = ps[i]
    <3>1. ps[i] = [min |-> ps[i].min, max |-> ps[i].max, term |-> ps[i].term]
      BY <2>1, ParticleShape
    <3> HIDE DEF ps
    <3> QED  BY <3>1
  <2>3. Optional(ps[i], <<ps[i]>>) = <<ps[i]>>
    <3> DEFINE x == ps[i]
    <3> HIDE DEF x
    <3>1. x.min = 0 => [x EXCEPT !.min = 0] = x
      BY <2>2 DEF x
    <3>2. Optional(x, <<x>>) = <<x>>
      BY <3>1 DEF Optional
    <3> QED  BY <3>2 DEF x
  <2> QED  BY <2>1, <2>3
<1>3. seqs \in Seq(Seq(Particles)) /\ Len(seqs) = Len(ps) /\ DOMAIN ps = 1..Len(ps)
  <2>1. DOMAIN ps = 1..Len(ps) /\ Len(ps) \in Nat
    BY <1>1, EmptyIsZero
  <2>2. seqs = [k \in 1..Len(ps) |-> seqs[k]] /\ \A k \in 1..Len(ps) : seqs[k] \in Seq(Particles)
    BY <1>2, <2>1
  <2> HIDE DEF seqs, ps
  <2> QED  BY <2>1, <2>2, SeqOfValues
<1>4. FlattenAll[p] = FlattenSeq(seqs)
  BY FlattenAllUnfolds DEF FlattenStep
<1>5. FlattenSeq(seqs) = ps
  <2> HIDE DEF seqs, ps
  <2> QED  BY <1>1, <1>2, <1>3, FlattenSingles
<1> QED  BY <1>4, <1>5

-----------------------------------------------------------------------------
(* The runs of a flat group, and of a choice of flat groups, by what they  *)
(* give to the members.                                                    *)
LEMMA MulOccNat ==
    ASSUME NEW a \in Nat, NEW b \in Nat
    PROVE  MulOcc(a, b) = a * b /\ MulOcc(a, b) \in Nat
<1>1. a * b \in Nat /\ 0 * b = 0 /\ a * 0 = 0
  OBVIOUS
<1> QED  BY <1>1 DEF MulOcc, Unbounded

LEMMA LeafParticleRuns ==
    ASSUME NEW m, NEW q \in Particles, IsLeaf(q.term)
    PROVE  RunsFrom(m)[q] = TimesRuns(q, LeafRuns(m, q.term))
<1>1. ~IsGroup(q.term)
  BY LeafMember
<1>2. RunsFrom(m)[q] = TimesRuns(q, TermRuns(m, q, InnerOf(q, RunsFrom(m))))
  BY RunsFromFacts DEF RunsStep
<1> QED  BY <1>1, <1>2, TermRunsByKind

LEMMA FlatOnce ==
    ASSUME NEW m, NEW p \in Particles, Flat(p)
    PROVE  LET once == TermRuns(m, p, InnerOf(p, RunsFrom(m)))
           IN  /\ RunsFrom(m)[p] = TimesRuns(p, once) /\ once \in Language
               /\ AllPlaced(m, p.term.particles, once, PartLow(p.term.particles), PartHigh(p.term.particles))
<1> DEFINE ps == p.term.particles
           inner == InnerOf(p, RunsFrom(m))
           once == TermRuns(m, p, inner)
<1>1. /\ ps \in Seq(Particles) /\ IsGroup(p.term) /\ DOMAIN ps = 1..Len(ps)
      /\ \A i \in DOMAIN ps : ps[i] \in Particles /\ IsLeaf(ps[i].term)
  <2>1. ps \in Seq(Particles) /\ IsGroup(p.term) /\ \A i \in DOMAIN ps : ps[i] \in Particles /\ IsLeaf(ps[i].term)
    BY FlatShape
  <2> QED  BY <2>1, EmptyIsZero
<1>2. RunsFrom(m)[p] = TimesRuns(p, once)
  BY RunsFromFacts DEF RunsStep
<1>3. ASSUME NEW i \in DOMAIN ps
      PROVE  /\ inner[i] \in Language
             /\ AllPlaced(m, ps, inner[i], Only(ps, i, ps[i].min), Only(ps, i, ps[i].max))
  <2>1. inner[i] = RunsFrom(m)[ps[i]]
    BY <1>1, InnerFacts
  <2>2. inner[i] = TimesRuns(ps[i], LeafRuns(m, ps[i].term))
    BY <1>1, <2>1, LeafParticleRuns
  <2> HIDE DEF inner, ps
  <2> QED  BY <1>1, <2>2, MemberPlaced
<1>4. once \in Language
  <2>1. \A i \in DOMAIN p.term.particles : inner[i] \in Language
    BY <1>3
  <2> HIDE DEF inner
  <2> QED  BY <2>1, TermRunsFacts
<1>5. AllPlaced(m, ps, once, PartLow(ps), PartHigh(ps))
  <2>1. CASE p.term.kind = "sequence"
    <3>1. once = SeqRuns(ps, inner)
      BY <2>1, TermRunsByKind
    <3> HIDE DEF once, inner, ps
    <3> QED  BY <1>1, <1>3, <3>1, SeqPlaced
  <2>2. CASE p.term.kind = "all"
    <3>1. once = AllRuns(m, ps)
      BY <2>2, TermRunsByKind, FlatFlattened
    <3> HIDE DEF once, inner, ps
    <3> QED  BY <1>1, <3>1, AllGroupPlaced
  <2> QED  BY <2>1, <2>2 DEF Flat
<1> QED  BY <1>2, <1>4, <1>5

RunPlaced(m, run, w) == Placed(m, run.parts, w, Minima(run), Maxima(run))

LEMMA FlatPlaced ==
    ASSUME NEW m, NEW p \in Particles, Flat(p), NEW w \in Seq(Name), RunsFrom(m)[p][w] # {}
    PROVE  RunPlaced(m, Run(p.term.particles, p), w)
<1> DEFINE ps == p.term.particles
           once == TermRuns(m, p, InnerOf(p, RunsFrom(m)))
           run == Run(ps, p)
<1>1. ps \in Seq(Particles) /\ p.min \in Nat
  BY FlatShape, ParticleShape
<1>2. RunsFrom(m)[p] = TimesRuns(p, once) /\ once \in Language /\ AllPlaced(m, ps, once, PartLow(ps), PartHigh(ps))
  BY FlatOnce
<1>3. PartLow(ps) \in Lows(ps) /\ PartHigh(ps) \in Highs(ps)
  BY <1>1, PartBounds
<1>4. AllPlaced(m, ps, TimesRuns(p, once), TopLow(p, ps, PartLow(ps)), TopHigh(p, ps, PartHigh(ps)))
  <2> HIDE DEF once, ps
  <2> QED  BY <1>2, <1>3, TimesRunsPlaced
<1>5. TopLow(p, ps, PartLow(ps)) = Minima(run)
  <2>1. ASSUME NEW i \in DOMAIN ps PROVE p.min * PartLow(ps)[i] = MulOcc(p.min, ps[i].min)
    BY <1>1, PartFacts, MulOccNat DEF PartLow
  <2> QED  BY <2>1 DEF TopLow, Minima, MinIn, Run
<1>6. TopHigh(p, ps, PartHigh(ps)) = Maxima(run)
  BY DEF TopHigh, PartHigh, Maxima, MaxIn, Run
<1>7. run.parts = ps
  BY DEF Run
<1> QED  BY <1>2, <1>4, <1>5, <1>6, <1>7 DEF RunPlaced, AllPlaced

(* Under the occurrence of a group that occurs once.                       *)
LEMMA OnceFactor ==
    ASSUME NEW a \in Nat \cup {Unbounded}
    PROVE  MulOcc(1, a) = a
<1>1. CASE a \in Nat
  <2>1. 1 * a = a
    BY <1>1
  <2> QED  BY <1>1, <2>1 DEF MulOcc, Unbounded
<1>2. CASE a = Unbounded
  BY <1>2 DEF MulOcc, Unbounded
<1> QED  BY <1>1, <1>2

LEMMA BranchPlaced ==
    ASSUME NEW m, NEW c \in Particles, c.term.kind = "element" \/ (Flat(c) /\ IsOnce(c)),
           NEW w \in Seq(Name), RunsFrom(m)[c][w] # {}
    PROVE  RunPlaced(m, Branch(c), w)
<1>1. CASE c.term.kind = "element"
  <2> DEFINE ps == <<c>>
  <2>1. ps \in Seq(Particles) /\ DOMAIN ps = {1} /\ ps[1] = c /\ Branch(c) = Run(ps, Once)
    BY <1>1 DEF Branch
  <2>2. c.min \in Nat /\ c.max \in Nat \cup {Unbounded} /\ IsLeaf(c.term)
    BY <1>1, ParticleShape DEF IsLeaf
  <2>3. RunsFrom(m)[c] = TimesRuns(c, LeafRuns(m, c.term))
    BY <2>2, LeafParticleRuns
  <2>4. AllPlaced(m, ps, TimesRuns(ps[1], LeafRuns(m, ps[1].term)), Only(ps, 1, ps[1].min), Only(ps, 1, ps[1].max))
    <3> HIDE DEF ps
    <3> QED  BY <2>1, MemberPlaced
  <2>5. Only(ps, 1, ps[1].min) = Minima(Branch(c)) /\ Only(ps, 1, ps[1].max) = Maxima(Branch(c)) /\ Branch(c).parts = ps
    <3>1. MulOcc(1, c.min) = c.min /\ MulOcc(1, c.max) = c.max
      BY <2>2, OnceFactor
    <3>2. Once.min = 1 /\ Once.max = 1
      BY DEF Once, Particle
    <3>3. Branch(c).parts = ps /\ Branch(c).top = Once
      BY <2>1 DEF Run
    <3> HIDE DEF ps
    <3> QED  BY <2>1, <3>1, <3>2, <3>3 DEF Only, Minima, Maxima, MinIn, MaxIn
  <2>6. AllPlaced(m, ps, RunsFrom(m)[c], Minima(Branch(c)), Maxima(Branch(c)))
    <3> HIDE DEF ps
    <3> QED  BY <2>1, <2>3, <2>4, <2>5
  <2> QED  BY <2>5, <2>6 DEF RunPlaced, AllPlaced
<1>2. CASE c.term.kind # "element" /\ Flat(c) /\ IsOnce(c)
  <2>1. RunPlaced(m, Run(c.term.particles, c), w)
    BY <1>2, FlatPlaced
  <2>2. Branch(c) = Run(c.term.particles, Once)
    BY <1>2 DEF Branch
  <2>3. c.min = Once.min /\ c.max = Once.max
    BY <1>2 DEF IsOnce, Once, Particle
  <2>4. Minima(Branch(c)) = Minima(Run(c.term.particles, c)) /\ Maxima(Branch(c)) = Maxima(Run(c.term.particles, c))
    BY <2>2, <2>3 DEF Minima, Maxima, MinIn, MaxIn, Run
  <2> QED  BY <2>1, <2>2, <2>4 DEF RunPlaced, Run
<1> QED  BY <1>1, <1>2

(* What a restriction accepts is placed in one of its runs.                *)
LEMMA RestrictionPlaced ==
    ASSUME NEW m, NEW p \in Particles, RestrictionRuns(p) # {}, NEW w \in Seq(Name), RunsFrom(m)[Unfolded[p]][w] # {}
    PROVE  Unfolded[p] = p /\ \E run \in RestrictionRuns(p) : RunPlaced(m, run, w)
<1>1. CASE Flat(p)
  <2>1. Unfolded[p] = p
    BY <1>1, FlatShape
  <2> QED  BY <1>1, <2>1, FlatPlaced DEF RestrictionRuns
<1>2. CASE ~Flat(p)
  <2>1. ChoiceOfRuns(p)
    BY <1>2 DEF RestrictionRuns
  <2> DEFINE ps == p.term.particles
             inner == InnerOf(p, RunsFrom(m))
  <2>2. IsGroup(p.term) /\ p.term.kind = "choice" /\ IsOnce(p)
    BY <2>1 DEF ChoiceOfRuns, IsGroup
  <2>3. ps \in Seq(Particles)
    BY <2>2, GroupShape
  <2>4. \A i \in DOMAIN ps : /\ ps[i] \in Particles /\ ps[i] \in ToSet(ps)
                             /\ ps[i].term.kind = "element" \/ (Flat(ps[i]) /\ IsOnce(ps[i]))
    <3>1. \A i \in DOMAIN ps : ps[i] \in Particles /\ ps[i] \in ToSet(ps)
      BY <2>3, MemberOfSeq
    <3> QED  BY <2>1, <3>1 DEF ChoiceOfRuns
  <2>5. Unfolded[p] = p
    <3>1. \A q \in ToSet(ps) : Unfolded[q] = q
      <4> TAKE q \in ToSet(ps)
      <4>1. q \in Particles
        BY <2>3, MemberOfSeq
      <4>2. q.term.kind = "element" \/ Flat(q)
        BY <2>1 DEF ChoiceOfRuns
      <4>3. q.term.kind = "element" => Unfolded[q] = q
        BY <4>1, LeafMember DEF IsLeaf
      <4> QED  BY <4>1, <4>2, <4>3, FlatShape
    <3> QED  BY <2>2, <3>1, GroupUnfolded
  <2>6. RunsFrom(m)[p] = TimesRuns(p, TermRuns(m, p, inner)) /\ TermRuns(m, p, inner) = ChoiceRuns(ps, inner)
    BY <2>2, RunsFromFacts, TermRunsByKind DEF RunsStep
  <2>7. \A i \in DOMAIN ps : inner[i] = RunsFrom(m)[ps[i]] /\ inner[i] \in Language
    <3>1. \A i \in DOMAIN ps : inner[i] = RunsFrom(m)[ps[i]]
      BY <2>2, InnerFacts
    <3> QED  BY <2>4, <3>1, RunsFromFacts
  <2>8. ChoiceRuns(ps, inner) \in Language
    <3> HIDE DEF inner, ps
    <3> QED  BY <2>7, ChoiceRunsFacts
  <2>9. PICK r : r \in TimesRuns(p, ChoiceRuns(ps, inner))[w]
    BY <2>5, <2>6
  <2>10. r \in ChoiceRuns(ps, inner)[w]
    <3>1. p.min = 1 /\ p.max \in {0, 1}
      BY <2>2 DEF IsOnce
    <3> HIDE DEF inner, ps
    <3> QED  BY <2>8, <2>9, <3>1, OneOccurrence
  <2>11. PICK i \in DOMAIN ps : r \in inner[i][w]
    <3> HIDE DEF inner, ps
    <3> QED  BY <2>7, <2>10, ChoiceRunsFacts
  <2>12. RunPlaced(m, Branch(ps[i]), w)
    <3>1. RunsFrom(m)[ps[i]][w] # {}
      BY <2>7, <2>11
    <3> HIDE DEF ps
    <3> QED  BY <2>4, <3>1, BranchPlaced
  <2>13. Branch(ps[i]) \in RestrictionRuns(p)
    BY <1>2, <2>1, <2>4 DEF RestrictionRuns
  <2> QED  BY <2>5, <2>12, <2>13
<1> QED  BY <1>1, <1>2

-----------------------------------------------------------------------------
(* Total: the counts of a run, summed over some of its particles.          *)
IsUpTo(counts, S, f) ==
    f = [k \in 0..Len(counts) |->
          IF k = 0 THEN 0 ELSE IF k \in S THEN AddOcc(f[k - 1], counts[k]) ELSE f[k - 1]]

SumsTo(counts, S, n, g) ==
    /\ g \in [0..n -> Nat \cup {Unbounded}] /\ g[0] = 0
    /\ \A k \in 1..n : g[k] = IF k \in S THEN AddOcc(g[k - 1], counts[k]) ELSE g[k - 1]

LEMMA SumsExist ==
    ASSUME NEW N \in Nat, NEW counts, \A k \in 1..N : counts[k] \in Nat \cup {Unbounded}, NEW S
    PROVE  \E g : SumsTo(counts, S, N, g)
<1> DEFINE R == Nat \cup {Unbounded}
           T == {n \in Nat : n <= N => \E g : SumsTo(counts, S, n, g)}
<1>1. 0 \in T
  <2> DEFINE g == [k \in 0..0 |-> 0]
  <2>1. g \in [0..0 -> R] /\ g[0] = 0 /\ 1..0 = {}
    OBVIOUS
  <2>2. SumsTo(counts, S, 0, g)
    <3> HIDE DEF g
    <3> QED  BY <2>1 DEF SumsTo
  <2> QED  BY <2>2
<1>2. ASSUME NEW n \in Nat, n \in T PROVE n + 1 \in T
  <2> SUFFICES ASSUME n + 1 <= N PROVE \E g : SumsTo(counts, S, n + 1, g)
    OBVIOUS
  <2>1. PICK g : SumsTo(counts, S, n, g)
    BY <1>2
  <2> DEFINE x == IF n + 1 \in S THEN AddOcc(g[n], counts[n + 1]) ELSE g[n]
             h == [k \in 0..(n + 1) |-> IF k = n + 1 THEN x ELSE g[k]]
  <2>2. g \in [0..n -> R] /\ n \in 0..n /\ n + 1 \in 1..N
    BY <2>1 DEF SumsTo
  <2>3. g[n] \in R /\ counts[n + 1] \in R
    BY <2>2
  <2>4. x \in R
    BY <2>3, AddOccFacts
  <2> HIDE DEF x
  <2>5. \A k \in 0..(n + 1) : k # n + 1 => k \in 0..n
    OBVIOUS
  <2>6. h \in [0..(n + 1) -> R] /\ h[n + 1] = x /\ \A k \in 0..n : h[k] = g[k]
    <3>1. \A k \in 0..(n + 1) : h[k] \in R
      BY <2>2, <2>4, <2>5
    <3> QED  BY <3>1
  <2> HIDE DEF h
  <2>7. h[0] = 0
    BY <2>1, <2>6 DEF SumsTo
  <2>8. ASSUME NEW k \in 1..(n + 1) PROVE h[k] = IF k \in S THEN AddOcc(h[k - 1], counts[k]) ELSE h[k - 1]
    <3>1. CASE k = n + 1
      <4>1. k - 1 = n /\ h[n] = g[n]
        BY <2>2, <2>6, <3>1
      <4> QED  BY <2>6, <3>1, <4>1 DEF x
    <3>2. CASE k # n + 1
      <4>1. k \in 1..n /\ k \in 0..n /\ k - 1 \in 0..n
        BY <3>2
      <4>2. h[k] = g[k] /\ h[k - 1] = g[k - 1]
        BY <2>6, <4>1
      <4>3. g[k] = IF k \in S THEN AddOcc(g[k - 1], counts[k]) ELSE g[k - 1]
        BY <2>1, <4>1 DEF SumsTo
      <4> QED  BY <4>2, <4>3
    <3> QED  BY <3>1, <3>2
  <2>9. SumsTo(counts, S, n + 1, h)
    BY <2>6, <2>7, <2>8 DEF SumsTo
  <2> QED  BY <2>9
<1>3. Nat \subseteq T
  <2> HIDE DEF T
  <2> QED  BY <1>1, <1>2, InductionOnNat
<1> QED  BY <1>3

LEMMA TotalSums ==
    ASSUME NEW N \in Nat, NEW counts \in [1..N -> Nat \cup {Unbounded}], NEW S
    PROVE  \E g : SumsTo(counts, S, N, g) /\ Total(counts, S) = g[N]
<1>1. Len(counts) = N
  BY SeqOfValues
<1> DEFINE f == CHOOSE f : IsUpTo(counts, S, f)
<1>2. PICK g : SumsTo(counts, S, N, g)
  BY SumsExist
<1>3. IsUpTo(counts, S, g)
  <2>1. g = [k \in 0..N |-> g[k]] /\ g[0] = 0
    BY <1>2 DEF SumsTo
  <2>2. ASSUME NEW k \in 0..N
        PROVE  g[k] = IF k = 0 THEN 0 ELSE IF k \in S THEN AddOcc(g[k - 1], counts[k]) ELSE g[k - 1]
    <3>1. k # 0 => k \in 1..N
      OBVIOUS
    <3> QED  BY <1>2, <2>1, <3>1 DEF SumsTo
  <2> QED  BY <1>1, <2>1, <2>2 DEF IsUpTo
<1>4. IsUpTo(counts, S, f)
  BY <1>3
<1>5. Total(counts, S) = f[N]
  BY <1>1 DEF Total, IsUpTo
<1> HIDE DEF f
<1>6. \A k \in 0..N : f[k] = IF k = 0 THEN 0 ELSE IF k \in S THEN AddOcc(f[k - 1], counts[k]) ELSE f[k - 1]
  BY <1>1, <1>4 DEF IsUpTo
<1>7. SumsTo(counts, S, N, f)
  <2> DEFINE T == {n \in Nat : n <= N => f[n] \in Nat \cup {Unbounded}}
  <2>1. f[0] = 0 /\ 0 \in T
    BY <1>6
  <2>2. ASSUME NEW n \in Nat, n \in T PROVE n + 1 \in T
    <3> SUFFICES ASSUME n + 1 <= N PROVE f[n + 1] \in Nat \cup {Unbounded}
      OBVIOUS
    <3>1. n + 1 \in 0..N /\ n + 1 # 0 /\ (n + 1) - 1 = n /\ n + 1 \in 1..N
      OBVIOUS
    <3>2. f[n] \in Nat \cup {Unbounded} /\ counts[n + 1] \in Nat \cup {Unbounded}
      BY <2>2, <3>1
    <3>3. f[n + 1] = IF n + 1 \in S THEN AddOcc(f[n], counts[n + 1]) ELSE f[n]
      BY <1>6, <3>1
    <3> QED  BY <3>2, <3>3, AddOccFacts
  <2>3. Nat \subseteq T
    <3> HIDE DEF T
    <3> QED  BY <2>1, <2>2, InductionOnNat
  <2>4. f = [k \in 0..N |-> f[k]]
    BY <1>1, <1>4 DEF IsUpTo
  <2>5. f \in [0..N -> Nat \cup {Unbounded}]
    BY <2>3, <2>4
  <2>6. \A k \in 1..N : f[k] = IF k \in S THEN AddOcc(f[k - 1], counts[k]) ELSE f[k - 1]
    BY <1>6
  <2> QED  BY <2>1, <2>5, <2>6 DEF SumsTo
<1> QED  BY <1>5, <1>7

GivenTo(n, f, S) == {k \in 1..n : f[k] \in S}

LEMMA GivenFacts ==
    ASSUME NEW L \in Nat, NEW f, NEW S
    PROVE  IsFiniteSet(GivenTo(L, f, S)) /\ Cardinality(GivenTo(L, f, S)) \in Nat
<1>1. GivenTo(L, f, S) \subseteq 1..L /\ IsFiniteSet(1..L)
  BY FS_Interval DEF GivenTo
<1> QED  BY <1>1, FS_Subset, FS_CardinalityType

GivenMore(L, f, S, n) ==
    Cardinality(GivenTo(L, f, S \cap (1..(n + 1)))) =
      Cardinality(GivenTo(L, f, S \cap (1..n))) + (IF n + 1 \in S THEN Cardinality(OfMember(L, f, n + 1)) ELSE 0)

LEMMA GivenOneMore ==
    ASSUME NEW L \in Nat, NEW f, NEW S, NEW n \in Nat
    PROVE  GivenMore(L, f, S, n)
<1> DEFINE A == GivenTo(L, f, S \cap (1..n))
           B == OfMember(L, f, n + 1)
<1>1. 1..(n + 1) = (1..n) \cup {n + 1} /\ n + 1 \notin 1..n
  OBVIOUS
<1>2. CASE n + 1 \in S
  <2>1. S \cap (1..(n + 1)) = (S \cap (1..n)) \cup {n + 1}
    BY <1>1, <1>2
  <2>2. GivenTo(L, f, S \cap (1..(n + 1))) = A \cup B
    BY <2>1 DEF GivenTo, OfMember
  <2>3. A \cap B = {}
    BY <1>1 DEF GivenTo, OfMember
  <2>4. IsFiniteSet(A) /\ IsFiniteSet(B) /\ Cardinality(A) \in Nat /\ Cardinality(B) \in Nat
    BY GivenFacts, CountFacts
  <2> HIDE DEF A, B
  <2>5. Cardinality(A \cup B) = Cardinality(A) + Cardinality(B)
    <3>1. Cardinality(A \cup B) = Cardinality(A) + Cardinality(B) - Cardinality(A \cap B)
      BY <2>4, FS_Union
    <3>2. Cardinality(A \cap B) = 0
      BY <2>3, FS_EmptySet
    <3> QED  BY <2>4, <3>1, <3>2
  <2> QED  BY <1>2, <2>2, <2>5 DEF A, B, GivenMore
<1>3. CASE n + 1 \notin S
  <2>1. S \cap (1..(n + 1)) = S \cap (1..n)
    BY <1>1, <1>3
  <2>2. Cardinality(A) \in Nat
    BY GivenFacts
  <2>3. GivenTo(L, f, S \cap (1..(n + 1))) = A
    BY <2>1
  <2> HIDE DEF A
  <2>4. Cardinality(GivenTo(L, f, S \cap (1..(n + 1)))) = Cardinality(A) + 0
    BY <2>2, <2>3
  <2> QED  BY <1>3, <2>4 DEF GivenMore, A
<1> QED  BY <1>2, <1>3

LEMMA SumBounds ==
    ASSUME NEW L \in Nat, NEW N \in Nat, NEW f \in [1..L -> 1..N], NEW S,
           NEW lo \in [1..N -> Nat], NEW hi \in [1..N -> Nat \cup {Unbounded}],
           \A j \in 1..N : lo[j] <= Cardinality(OfMember(L, f, j)) /\ Within(Cardinality(OfMember(L, f, j)), hi[j])
    PROVE  /\ Total(lo, S) \in Nat /\ Total(lo, S) <= Cardinality(GivenTo(L, f, S))
           /\ Total(hi, S) \in Nat \cup {Unbounded} /\ Within(Cardinality(GivenTo(L, f, S)), Total(hi, S))
<1> DEFINE c(n) == Cardinality(GivenTo(L, f, S \cap (1..n)))
<1>1. PICK a : SumsTo(lo, S, N, a) /\ Total(lo, S) = a[N]
  <2>1. lo \in [1..N -> Nat \cup {Unbounded}]
    OBVIOUS
  <2> QED  BY <2>1, TotalSums
<1>2. PICK b : SumsTo(hi, S, N, b) /\ Total(hi, S) = b[N]
  BY TotalSums
<1> DEFINE Bounded(n) == a[n] \in Nat /\ a[n] <= c(n) /\ Within(c(n), b[n])
           T == {n \in Nat : n <= N => Bounded(n)}
<1>3. b \in [0..N -> Nat \cup {Unbounded}]
  BY <1>2 DEF SumsTo
<1>4. 0 \in T
  <2>1. a[0] = 0 /\ b[0] = 0
    BY <1>1, <1>2 DEF SumsTo
  <2>2. GivenTo(L, f, S \cap (1..0)) = {}
    BY DEF GivenTo
  <2>3. c(0) = 0
    BY <2>2, FS_EmptySet
  <2> HIDE DEF c
  <2> QED  BY <2>1, <2>3 DEF Within
<1>5. ASSUME NEW n \in Nat, n \in T PROVE n + 1 \in T
  <2> SUFFICES ASSUME n + 1 <= N PROVE Bounded(n + 1)
    OBVIOUS
  <2>1. n + 1 \in 1..N /\ (n + 1) - 1 = n /\ n \in 0..N
    OBVIOUS
  <2> DEFINE x == Cardinality(OfMember(L, f, n + 1))
  <2>2. c(n) \in Nat /\ x \in Nat
    BY GivenFacts, CountFacts
  <2>3. c(n + 1) = c(n) + (IF n + 1 \in S THEN x ELSE 0)
    <3>1. GivenMore(L, f, S, n)
      BY GivenOneMore
    <3> QED  BY <3>1 DEF GivenMore
  <2>4. lo[n + 1] <= x /\ Within(x, hi[n + 1]) /\ lo[n + 1] \in Nat /\ hi[n + 1] \in Nat \cup {Unbounded}
    BY <2>1
  <2>5. Bounded(n)
    BY <1>5
  <2> HIDE DEF c, x
  <2>6. a[n + 1] = IF n + 1 \in S THEN AddOcc(a[n], lo[n + 1]) ELSE a[n]
    BY <1>1, <2>1 DEF SumsTo
  <2>7. b[n + 1] = IF n + 1 \in S THEN AddOcc(b[n], hi[n + 1]) ELSE b[n]
    BY <1>2, <2>1 DEF SumsTo
  <2>8. b[n] \in Nat \cup {Unbounded}
    BY <1>3, <2>1
  <2>9. CASE n + 1 \in S
    <3>1. a[n + 1] = a[n] + lo[n + 1]
      BY <2>4, <2>5, <2>6, <2>9 DEF AddOcc, Unbounded
    <3>2. Within(c(n) + x, AddOcc(b[n], hi[n + 1]))
      BY <2>2, <2>4, <2>5, <2>8, AddOccFacts
    <3> QED  BY <2>2, <2>3, <2>4, <2>5, <2>7, <2>9, <3>1, <3>2
  <2>10. CASE n + 1 \notin S
    BY <2>2, <2>3, <2>5, <2>6, <2>7, <2>10
  <2> QED  BY <2>9, <2>10
<1>6. Nat \subseteq T
  <2> HIDE DEF T
  <2> QED  BY <1>4, <1>5, InductionOnNat
<1>7. Bounded(N)
  BY <1>6
<1>8. GivenTo(L, f, S \cap (1..N)) = GivenTo(L, f, S)
  BY DEF GivenTo
<1>9. b[N] \in Nat \cup {Unbounded}
  BY <1>3
<1> QED  BY <1>1, <1>2, <1>7, <1>8, <1>9

-----------------------------------------------------------------------------
(* Children that can be given to the members of a flat group, as many to   *)
(* each as it wants, are accepted in some order.                           *)
LEMMA LeafWord ==
    ASSUME NEW m, NEW p \in Particles
    PROVE  \A n \in Nat : \A u \in Seq(Name) :
             Len(u) = n /\ (\A k \in 1..n : Accept(m, p.term, u[k]) # {}) => Times(LeafRuns(m, p.term))[n][u] # {}
<1> DEFINE h == LeafRuns(m, p.term)
           Good(n) == \A u \in Seq(Name) :
             Len(u) = n /\ (\A k \in 1..n : Accept(m, p.term, u[k]) # {}) => Times(h)[n][u] # {}
           S == {n \in Nat : Good(n)}
<1>1. h \in Language
  BY LeafRunsFacts
<1>2. 0 \in S
  <2> SUFFICES ASSUME NEW u \in Seq(Name), Len(u) = 0 PROVE Times(h)[0][u] # {}
    OBVIOUS
  <2>1. u = << >>
    BY EmptyIsZero
  <2>2. << >> \in EmptyRuns[<< >>] /\ Times(h)[0] = EmptyRuns
    <3> HIDE DEF h
    <3> QED  BY <1>1, TimesFacts, EmptyRunsFacts, NoChildren
  <2> QED  BY <2>1, <2>2
<1>3. ASSUME NEW n \in Nat, n \in S PROVE n + 1 \in S
  <2> SUFFICES ASSUME NEW u \in Seq(Name), Len(u) = n + 1, \A k \in 1..(n + 1) : Accept(m, p.term, u[k]) # {}
               PROVE  Times(h)[n + 1][u] # {}
    <3>1. n + 1 \in Nat
      OBVIOUS
    <3> HIDE DEF h
    <3>2. Good(n + 1) => n + 1 \in S
      BY <3>1
    <3> HIDE DEF S
    <3> QED  BY <3>2
  <2>1. u # << >>
    BY EmptyIsZero
  <2> DEFINE x == u[1]
             t == Tail(u)
  <2>2. x \in Name /\ t \in Seq(Name) /\ Len(t) = n /\ (\A i \in 1..n : t[i] = u[i + 1]) /\ u = <<x>> \o t
    BY <2>1, TailFacts
  <2>3. PICK a : a \in Accept(m, p.term, x)
    OBVIOUS
  <2>4. <<x>> \in Seq(Name) /\ Len(<<x>>) = 1 /\ <<x>>[1] = x
    BY <2>2
  <2>5. <<a>> \in h[<<x>>]
    <3> HIDE DEF x, t
    <3> QED  BY <2>3, <2>4, LeafRunsFacts
  <2>6. Times(h)[n][t] # {}
    <3>1. \A k \in 1..n : Accept(m, p.term, t[k]) # {}
      BY <2>2
    <3> HIDE DEF t, h
    <3> QED  BY <1>3, <2>2, <3>1
  <2>7. PICK r : r \in Times(h)[n][t]
    BY <2>6
  <2>8. <<a>> \o r \in Times(h)[n + 1][<<x>> \o t]
    <3> HIDE DEF x, t, h
    <3> QED  BY <1>1, <2>2, <2>4, <2>5, <2>7, OneMoreTime
  <2> QED  BY <2>2, <2>8
<1>4. Nat \subseteq S
  <2> HIDE DEF S
  <2> QED  BY <1>2, <1>3, InductionOnNat
<1> QED  BY <1>4

MemberRuns(m, parts) == [i \in DOMAIN parts |-> TimesRuns(parts[i], LeafRuns(m, parts[i].term))]

LEMMA MemberWord ==
    ASSUME NEW m, NEW p \in Particles, NEW u \in Seq(Name), \A k \in 1..Len(u) : Accept(m, p.term, u[k]) # {},
           p.min <= Len(u), Within(Len(u), p.max)
    PROVE  TimesRuns(p, LeafRuns(m, p.term))[u] # {}
<1>1. Len(u) \in Nat /\ p.min \in Nat /\ LeafRuns(m, p.term) \in Language
  BY EmptyIsZero, ParticleShape, LeafRunsFacts
<1>2. PICK r : r \in Times(LeafRuns(m, p.term))[Len(u)][u]
  BY <1>1, LeafWord
<1>3. Enough(p, 0 + Len(u))
  BY <1>1 DEF Enough
<1>4. FollowingRun(p, LeafRuns(m, p.term), 0, u, r)
  BY <1>1, <1>2, <1>3 DEF FollowingRun
<1>5. TimesRuns(p, LeafRuns(m, p.term)) = Repeated(p, LeafRuns(m, p.term), 0)
  BY <1>1, RunsTimesFacts
<1>6. r \in Repeated(p, LeafRuns(m, p.term), 0)[u]
  BY <1>1, <1>4, RepeatedFacts
<1> QED  BY <1>5, <1>6

(* h puts the first c numbers and the set S in correspondence.             *)
Lists(h, c, S) ==
    /\ c \in Nat /\ h \in [1..c -> S]
    /\ \A x, y \in 1..c : h[x] = h[y] => x = y
    /\ \A s \in S : \E x \in 1..c : h[x] = s

Picked(w, h, c) == [x \in 1..c |-> w[h[x]]]

IsPicked(w, h, c, S) ==
    /\ Picked(w, h, c) \in Seq(Name) /\ Len(Picked(w, h, c)) = c
    /\ \A x \in 1..c : Picked(w, h, c)[x] = w[h[x]] /\ h[x] \in S

LEMMA PickedFacts ==
    ASSUME NEW w \in Seq(Name), NEW S \in SUBSET (1..Len(w)), NEW c, NEW h, Lists(h, c, S)
    PROVE  IsPicked(w, h, c, S)
<1>1. c \in Nat /\ \A x \in 1..c : h[x] \in S /\ h[x] \in 1..Len(w)
  BY DEF Lists
<1>2. \A k \in 1..Len(w) : w[k] \in Name
  BY MemberOfSeq
<1>3. \A x \in 1..c : Picked(w, h, c)[x] \in Name
  BY <1>1, <1>2 DEF Picked
<1>4. Picked(w, h, c) = [x \in 1..c |-> Picked(w, h, c)[x]]
  BY DEF Picked
<1>5. Picked(w, h, c) \in Seq(Name) /\ Len(Picked(w, h, c)) = c
  BY <1>1, <1>3, <1>4, SeqOfValues
<1> QED  BY <1>1, <1>5 DEF Picked, IsPicked

LEMMA Listed ==
    ASSUME NEW S, IsFiniteSet(S)
    PROVE  \E h : Lists(h, Cardinality(S), S)
<1>1. Cardinality(S) \in Nat /\ ExistsBijection(1..Cardinality(S), S)
  BY FS_CardinalityType
<1>2. PICK h : h \in Bijection(1..Cardinality(S), S)
  BY <1>1 DEF ExistsBijection
<1>3. Lists(h, Cardinality(S), S)
  BY <1>1, <1>2 DEF Lists, Bijection, Injection, Surjection, IsInjective
<1> QED  BY <1>3

OneThenOther(h1, c1, h2, c2) == [x \in 1..(c1 + c2) |-> IF x <= c1 THEN h1[x] ELSE h2[x - c1]]

LEMMA ListsConcat ==
    ASSUME NEW S1, NEW c1, NEW h1, Lists(h1, c1, S1), NEW S2, NEW c2, NEW h2, Lists(h2, c2, S2), S1 \cap S2 = {}
    PROVE  Lists(OneThenOther(h1, c1, h2, c2), c1 + c2, S1 \cup S2)
<1> DEFINE h == OneThenOther(h1, c1, h2, c2)
           c == c1 + c2
<1>1. c1 \in Nat /\ c2 \in Nat /\ c \in Nat
  BY DEF Lists
<1>2. /\ \A x \in 1..c1 : h[x] = h1[x] /\ h[x] \in S1 /\ x \in 1..c
      /\ \A x \in 1..c2 : h[c1 + x] = h2[x] /\ h[c1 + x] \in S2 /\ c1 + x \in 1..c
  <2>1. ASSUME NEW x \in 1..c1 PROVE h[x] = h1[x] /\ h[x] \in S1 /\ x \in 1..c
    BY <1>1 DEF OneThenOther, Lists
  <2>2. ASSUME NEW x \in 1..c2 PROVE h[c1 + x] = h2[x] /\ h[c1 + x] \in S2 /\ c1 + x \in 1..c
    <3>1. c1 + x \in 1..c /\ ~(c1 + x <= c1) /\ (c1 + x) - c1 = x
      BY <1>1
    <3>2. h[c1 + x] = h2[x]
      BY <3>1 DEF OneThenOther
    <3> QED  BY <3>1, <3>2 DEF Lists
  <2> QED  BY <2>1, <2>2
<1>3. \A x \in 1..c : x \in 1..c1 \/ \E y \in 1..c2 : x = c1 + y
  <2> TAKE x \in 1..c
  <2>1. x > c1 => x - c1 \in 1..c2 /\ x = c1 + (x - c1)
    BY <1>1
  <2> QED  BY <1>1, <2>1
<1>4. h = [x \in 1..c |-> h[x]]
  BY DEF OneThenOther
<1> HIDE DEF h
<1>5. \A x \in 1..c : h[x] \in S1 \cup S2
  BY <1>2, <1>3
<1>6. h \in [1..c -> S1 \cup S2]
  BY <1>4, <1>5
<1>7. ASSUME NEW x \in 1..c, NEW y \in 1..c, h[x] = h[y] PROVE x = y
  <2>1. CASE x \in 1..c1 /\ y \in 1..c1
    BY <1>2, <1>7, <2>1 DEF Lists
  <2>2. ASSUME NEW u \in 1..c2, NEW v \in 1..c2, x = c1 + u, y = c1 + v PROVE x = y
    <3>1. h2[u] = h2[v]
      BY <1>2, <1>7, <2>2
    <3> QED  BY <2>2, <3>1 DEF Lists
  <2>3. ASSUME NEW u \in 1..c2, x = c1 + u, y \in 1..c1 PROVE FALSE
    BY <1>2, <1>7, <2>3
  <2>4. ASSUME NEW u \in 1..c2, y = c1 + u, x \in 1..c1 PROVE FALSE
    BY <1>2, <1>7, <2>4
  <2> QED  BY <1>3, <2>1, <2>2, <2>3, <2>4
<1>8. ASSUME NEW s \in S1 \cup S2 PROVE \E x \in 1..c : h[x] = s
  <2>1. CASE s \in S1
    <3>1. PICK x \in 1..c1 : h1[x] = s
      BY <2>1 DEF Lists
    <3> QED  BY <1>2, <3>1
  <2>2. CASE s \in S2
    <3>1. PICK x \in 1..c2 : h2[x] = s
      BY <2>2 DEF Lists
    <3> QED  BY <1>2, <3>1
  <2> QED  BY <2>1, <2>2
<1>9. Lists(h, c, S1 \cup S2)
  BY <1>1, <1>6, <1>7, <1>8 DEF Lists
<1> QED  BY <1>9 DEF h

(* From the i-th member of a sequence on.                                  *)
GivenFrom(n, f, i) == {k \in 1..n : f[k] >= i}

Sorted(w, g, i, h) ==
    \E c, o : Lists(o, c, GivenFrom(Len(w), g, i)) /\ h[Picked(w, o, c)] # {}

Wanted(m, parts, w, g) ==
    /\ g \in [1..Len(w) -> DOMAIN parts] /\ Suit(m, parts, w, g)
    /\ \A i \in DOMAIN parts : /\ parts[i].min <= Cardinality(OfMember(Len(w), g, i))
                               /\ Within(Cardinality(OfMember(Len(w), g, i)), parts[i].max)

LEMMA MemberFirst ==
    ASSUME NEW m, NEW parts \in Seq(Particles), NEW w \in Seq(Name), NEW g, Wanted(m, parts, w, g), NEW i \in DOMAIN parts
    PROVE  \E c, o : /\ Lists(o, c, OfMember(Len(w), g, i))
                     /\ TimesRuns(parts[i], LeafRuns(m, parts[i].term))[Picked(w, o, c)] # {}
<1> DEFINE A == OfMember(Len(w), g, i)
           c == Cardinality(A)
<1>1. Len(w) \in Nat
  BY EmptyIsZero
<1>2. IsFiniteSet(A) /\ c \in Nat /\ A \subseteq 1..Len(w)
  BY <1>1, CountFacts DEF OfMember
<1>3. PICK o : Lists(o, c, A)
  <2> HIDE DEF A
  <2> QED  BY <1>2, Listed
<1> DEFINE u == Picked(w, o, c)
<1>4. u \in Seq(Name) /\ Len(u) = c /\ \A x \in 1..c : u[x] = w[o[x]] /\ o[x] \in A
  <2> HIDE DEF A
  <2>1. IsPicked(w, o, c, A)
    BY <1>2, <1>3, PickedFacts
  <2> QED  BY <2>1 DEF IsPicked
<1>5. \A k \in 1..Len(u) : Accept(m, parts[i].term, u[k]) # {}
  <2>1. \A k \in A : g[k] = i /\ k \in 1..Len(w)
    BY DEF OfMember
  <2>2. \A k \in 1..Len(w) : Accept(m, parts[g[k]].term, w[k]) # {}
    BY DEF Wanted, Suit
  <2>3. \A k \in A : Accept(m, parts[i].term, w[k]) # {}
    BY <2>1, <2>2
  <2> HIDE DEF A, u, c
  <2> QED  BY <1>4, <2>3
<1>6. parts[i].min <= c /\ Within(c, parts[i].max)
  BY DEF Wanted
<1>7. TimesRuns(parts[i], LeafRuns(m, parts[i].term))[u] # {}
  <2>1. parts[i] \in Particles
    BY PartFacts
  <2> HIDE DEF u, c
  <2> QED  BY <1>4, <1>5, <1>6, <2>1, MemberWord
<1> QED  BY <1>3, <1>7

PicksBoth(w, o1, c1, o2, c2) ==
    /\ Picked(w, o1, c1) \in Seq(Name) /\ Picked(w, o2, c2) \in Seq(Name)
    /\ Picked(w, OneThenOther(o1, c1, o2, c2), c1 + c2) = Picked(w, o1, c1) \o Picked(w, o2, c2)

LEMMA PickedConcat ==
    ASSUME NEW w \in Seq(Name), NEW S1 \in SUBSET (1..Len(w)), NEW S2 \in SUBSET (1..Len(w)), S1 \cap S2 = {},
           NEW c1, NEW o1, Lists(o1, c1, S1), NEW c2, NEW o2, Lists(o2, c2, S2)
    PROVE  PicksBoth(w, o1, c1, o2, c2)
<1> DEFINE u == Picked(w, o1, c1)
           v == Picked(w, o2, c2)
           o == OneThenOther(o1, c1, o2, c2)
           p == Picked(w, o, c1 + c2)
<1>1. u \in Seq(Name) /\ Len(u) = c1 /\ \A x \in 1..c1 : u[x] = w[o1[x]]
  <2>1. IsPicked(w, o1, c1, S1)
    BY PickedFacts
  <2> QED  BY <2>1 DEF IsPicked
<1>2. v \in Seq(Name) /\ Len(v) = c2 /\ \A x \in 1..c2 : v[x] = w[o2[x]]
  <2>1. IsPicked(w, o2, c2, S2)
    BY PickedFacts
  <2> QED  BY <2>1 DEF IsPicked
<1>3. Lists(o, c1 + c2, S1 \cup S2) /\ S1 \cup S2 \in SUBSET (1..Len(w))
  BY ListsConcat
<1>4. p \in Seq(Name) /\ Len(p) = c1 + c2 /\ \A x \in 1..(c1 + c2) : p[x] = w[o[x]]
  <2> DEFINE c == c1 + c2
             S == S1 \cup S2
  <2>1. Lists(o, c, S) /\ S \in SUBSET (1..Len(w))
    BY <1>3
  <2> HIDE DEF o, c, S
  <2>2. IsPicked(w, o, c, S)
    BY <2>1, PickedFacts
  <2>3. Picked(w, o, c) \in Seq(Name) /\ Len(Picked(w, o, c)) = c /\ \A x \in 1..c : Picked(w, o, c)[x] = w[o[x]]
    BY <2>2 DEF IsPicked
  <2> QED  BY <2>3 DEF c
<1>5. c1 \in Nat /\ c2 \in Nat
  BY DEF Lists
<1>6. \A x \in 1..(c1 + c2) : o[x] = IF x <= c1 THEN o1[x] ELSE o2[x - c1]
  BY DEF OneThenOther
<1> HIDE DEF p, o, u, v
<1>7. /\ u \o v \in Seq(Name) /\ Len(u \o v) = c1 + c2 /\ (\A x \in 1..c1 : (u \o v)[x] = u[x])
      /\ \A x \in 1..c2 : (u \o v)[c1 + x] = v[x]
  <2>1. u \in Seq(Name) /\ v \in Seq(Name) /\ Len(u) = c1 /\ Len(v) = c2
    BY <1>1, <1>2
  <2>2. u \o v \in Seq(Name) /\ Len(u \o v) = Len(u) + Len(v)
    BY <2>1, ConcatFacts
  <2>3. \A x \in 1..Len(u) : (u \o v)[x] = u[x]
    BY <2>1, ConcatFacts
  <2>4. \A x \in 1..Len(v) : (u \o v)[Len(u) + x] = v[x]
    BY <2>1, ConcatFacts
  <2> QED  BY <2>1, <2>2, <2>3, <2>4
<1>8. ASSUME NEW x \in 1..(c1 + c2) PROVE (u \o v)[x] = p[x]
  <2>1. CASE x <= c1
    <3>1. x \in 1..c1 /\ o[x] = o1[x]
      BY <1>5, <1>6, <2>1
    <3> QED  BY <1>1, <1>4, <1>7, <3>1
  <2>2. CASE ~(x <= c1)
    <3> DEFINE y == x - c1
    <3>1. y \in 1..c2 /\ c1 + y = x /\ o[x] = o2[y]
      BY <1>5, <1>6, <2>2
    <3> HIDE DEF y
    <3>2. (u \o v)[c1 + y] = v[y] /\ v[y] = w[o2[y]]
      BY <1>2, <1>7, <3>1
    <3> QED  BY <1>4, <3>1, <3>2
  <2> QED  BY <2>1, <2>2
<1>9. p = u \o v
  BY <1>4, <1>7, <1>8, SameSeq
<1> QED  BY <1>1, <1>2, <1>9 DEF PicksBoth, p, o, u, v

LEMMA SortedStep ==
    ASSUME NEW m, NEW parts \in Seq(Particles), NEW w \in Seq(Name), NEW g, Wanted(m, parts, w, g), NEW i \in DOMAIN parts,
           NEW h \in Language, Sorted(w, g, i + 1, h), NEW r, r = TimesRuns(parts[i], LeafRuns(m, parts[i].term))
    PROVE  Sorted(w, g, i, Joined(r, h))
<1> DEFINE L == Len(w)
<1>1. PICK c1, o1 : Lists(o1, c1, OfMember(L, g, i)) /\ r[Picked(w, o1, c1)] # {}
  BY MemberFirst
<1>2. PICK c2, o2 : Lists(o2, c2, GivenFrom(L, g, i + 1)) /\ h[Picked(w, o2, c2)] # {}
  BY DEF Sorted
<1> DEFINE o == OneThenOther(o1, c1, o2, c2)
           u == Picked(w, o1, c1)
           v == Picked(w, o2, c2)
<1>3. L \in Nat /\ i \in Nat /\ \A k \in 1..L : g[k] \in Nat
  <2>1. Len(parts) \in Nat /\ DOMAIN parts = 1..Len(parts)
    BY EmptyIsZero
  <2> QED  BY <2>1, EmptyIsZero DEF Wanted
<1>4. /\ OfMember(L, g, i) \cup GivenFrom(L, g, i + 1) = GivenFrom(L, g, i)
      /\ OfMember(L, g, i) \cap GivenFrom(L, g, i + 1) = {}
      /\ GivenFrom(L, g, i) \subseteq 1..L /\ GivenFrom(L, g, i + 1) \subseteq 1..L /\ OfMember(L, g, i) \subseteq 1..L
  BY <1>3 DEF OfMember, GivenFrom
<1>5. Lists(o, c1 + c2, GivenFrom(L, g, i))
  BY <1>1, <1>2, <1>4, ListsConcat
<1>6. PicksBoth(w, o1, c1, o2, c2)
  <2> DEFINE A == OfMember(L, g, i)
             B == GivenFrom(L, g, i + 1)
  <2>1. A \in SUBSET (1..Len(w)) /\ B \in SUBSET (1..Len(w)) /\ A \cap B = {} /\ Lists(o1, c1, A) /\ Lists(o2, c2, B)
    BY <1>1, <1>2, <1>4
  <2> HIDE DEF A, B
  <2> QED  BY <2>1, PickedConcat
<1>10. Picked(w, o, c1 + c2) = u \o v /\ u \in Seq(Name) /\ v \in Seq(Name)
  BY <1>6 DEF PicksBoth
<1>11. Joined(r, h)[u \o v] # {}
  <2>1. PICK r1 : r1 \in r[u]
    BY <1>1
  <2>2. PICK r2 : r2 \in h[v]
    BY <1>2
  <2>3. r \in Language
    BY MemberPlaced
  <2> HIDE DEF u, v
  <2>4. u \o v \in Seq(Name)
    BY <1>10, ConcatFacts
  <2>5. JoinedRun(r, h, u \o v, r1 \o r2)
    BY <1>10, <2>1, <2>2 DEF JoinedRun
  <2>6. r1 \o r2 \in Joined(r, h)[u \o v]
    BY <2>3, <2>4, <2>5, JoinedFacts
  <2> QED  BY <2>6
<1>12. Joined(r, h)[Picked(w, o, c1 + c2)] # {}
  BY <1>10, <1>11
<1> HIDE DEF o
<1> QED  BY <1>5, <1>12 DEF Sorted

LEMMA SequenceSorted ==
    ASSUME NEW m, NEW parts \in Seq(Particles), NEW w \in Seq(Name), NEW g, Wanted(m, parts, w, g)
    PROVE  Sorted(w, g, 1, SeqRuns(parts, MemberRuns(m, parts)))
<1> DEFINE N == Len(parts)
           runs == MemberRuns(m, parts)
<1>1. N \in Nat /\ DOMAIN parts = 1..N /\ Len(w) \in Nat
  BY EmptyIsZero
<1>2. \A i \in 1..N : runs[i] = TimesRuns(parts[i], LeafRuns(m, parts[i].term)) /\ runs[i] \in Language
  BY <1>1, MemberPlaced DEF MemberRuns
<1> HIDE DEF runs
<1>3. PICK e : SeqSteps(parts, runs, e)
  BY <1>1, <1>2, SeqRunsSteps
<1> DEFINE S == {i \in 1..(N + 1) : Sorted(w, g, i, e[i])}
<1>4. N + 1 \in S
  <2> DEFINE o == [x \in 1..0 |-> 0]
  <2>1. GivenFrom(Len(w), g, N + 1) = {}
    BY <1>1 DEF GivenFrom, Wanted
  <2>2. Lists(o, 0, {})
    BY DEF Lists
  <2>3. e[N + 1] = EmptyRuns
    BY <1>3 DEF SeqSteps
  <2>4. Picked(w, o, 0) = << >>
    BY DEF Picked
  <2>5. << >> \in EmptyRuns[<< >>]
    BY NoChildren, EmptyRunsFacts
  <2> HIDE DEF o
  <2>6. Sorted(w, g, N + 1, EmptyRuns)
    BY <2>1, <2>2, <2>4, <2>5 DEF Sorted
  <2> QED  BY <1>1, <2>3, <2>6
<1>5. ASSUME NEW i \in 1..N, i + 1 \in S PROVE i \in S
  <2>1. i \in 1..(N + 1) /\ i + 1 \in 1..(N + 1) /\ i \in DOMAIN parts
    BY <1>1
  <2>2. e[i] = Joined(runs[i], e[i + 1]) /\ e[i + 1] \in Language
    BY <1>3, <2>1 DEF SeqSteps
  <2>3. Sorted(w, g, i + 1, e[i + 1])
    BY <1>5
  <2>4. Sorted(w, g, i, Joined(runs[i], e[i + 1]))
    BY <1>2, <2>1, <2>2, <2>3, SortedStep
  <2> QED  BY <2>1, <2>2, <2>4
<1>6. 1..(N + 1) \subseteq S
  <2> HIDE DEF S
  <2> QED  BY <1>1, <1>4, <1>5, DownInduction
<1>7. 1 \in S
  BY <1>1, <1>6
<1> QED  BY <1>3, <1>7 DEF SeqSteps, runs

(* A word whose children are all listed is a reordering of it.             *)
LEMMA SortedReorders ==
    ASSUME NEW w \in Seq(Name), NEW parts, NEW g \in [1..Len(w) -> 1..Len(parts)], NEW h, Sorted(w, g, 1, h)
    PROVE  \E v \in Reorderings(w) : v \in Seq(Name) /\ h[v] # {}
<1> DEFINE L == Len(w)
<1>1. L \in Nat /\ DOMAIN w = 1..L
  BY EmptyIsZero
<1>2. GivenFrom(L, g, 1) = 1..L
  <2>1. \A k \in 1..L : g[k] >= 1
    OBVIOUS
  <2> QED  BY <2>1 DEF GivenFrom
<1>3. PICK c, o : Lists(o, c, 1..L) /\ h[Picked(w, o, c)] # {}
  BY <1>2 DEF Sorted
<1>4. c \in Nat /\ o \in Bijection(1..c, 1..L)
  BY <1>3 DEF Lists, Bijection, Injection, Surjection, IsInjective
<1>5. c = L
  <2>1. ExistsBijection(1..c, 1..L)
    BY <1>4 DEF ExistsBijection
  <2>2. IsFiniteSet(1..c) /\ Cardinality(1..c) = c /\ Cardinality(1..L) = L
    <3>1. 1 \in Int /\ c \in Int /\ L \in Int
      BY <1>1, <1>4
    <3>2. IsFiniteSet(1..c) /\ Cardinality(1..c) = IF 1 > c THEN 0 ELSE c - 1 + 1
      BY <3>1, FS_Interval
    <3>3. Cardinality(1..L) = IF 1 > L THEN 0 ELSE L - 1 + 1
      BY <3>1, FS_Interval
    <3> QED  BY <1>1, <1>4, <3>2, <3>3
  <2>3. Cardinality(1..L) = Cardinality(1..c)
    BY <2>1, <2>2, FS_Bijection
  <2> QED  BY <2>2, <2>3
<1>6. Picked(w, o, c) = [i \in DOMAIN w |-> w[o[i]]]
  BY <1>1, <1>5 DEF Picked
<1>7. Picked(w, o, c) \in Reorderings(w)
  BY <1>1, <1>4, <1>5, <1>6 DEF Reorderings
<1>8. IsPicked(w, o, c, 1..L)
  BY <1>1, <1>3, PickedFacts
<1> QED  BY <1>3, <1>7, <1>8 DEF IsPicked

LEMMA SameReordering ==
    ASSUME NEW w \in Seq(Name)
    PROVE  w \in Reorderings(w)
<1> DEFINE D == DOMAIN w
           f == [i \in D |-> i]
<1>1. f \in Bijection(D, D)
  BY DEF Bijection, Injection, Surjection, IsInjective
<1>2. w = [i \in D |-> w[f[i]]]
  BY SeqAsFunction
<1> QED  BY <1>1, <1>2 DEF Reorderings

(* All that is wanted of a flat group is in its language, but for the order*)
(* of the children.                                                        *)
LEMMA FlatTakes ==
    ASSUME NEW m, NEW b \in Particles, Flat(b), NEW w \in Seq(Name), NEW g, Wanted(m, b.term.particles, w, g)
    PROVE  \E v \in Reorderings(w) : v \in Seq(Name) /\ TermRuns(m, b, InnerOf(b, RunsFrom(m)))[v] # {}
<1> DEFINE ps == b.term.particles
           inner == InnerOf(b, RunsFrom(m))
           once == TermRuns(m, b, inner)
<1>1. /\ ps \in Seq(Particles) /\ IsGroup(b.term) /\ DOMAIN ps = 1..Len(ps)
      /\ \A i \in DOMAIN ps : ps[i] \in Particles /\ IsLeaf(ps[i].term)
  <2>1. ps \in Seq(Particles) /\ IsGroup(b.term) /\ \A i \in DOMAIN ps : ps[i] \in Particles /\ IsLeaf(ps[i].term)
    BY FlatShape
  <2> QED  BY <2>1, EmptyIsZero
<1>2. inner = MemberRuns(m, ps)
  <2>1. ASSUME NEW i \in DOMAIN ps PROVE RunsFrom(m)[ps[i]] = TimesRuns(ps[i], LeafRuns(m, ps[i].term))
    BY <1>1, LeafParticleRuns
  <2> QED  BY <2>1 DEF InnerOf, MemberRuns
<1>3. CASE b.term.kind = "sequence"
  <2>1. once = SeqRuns(ps, MemberRuns(m, ps))
    BY <1>2, <1>3, TermRunsByKind
  <2>2. g \in [1..Len(w) -> 1..Len(ps)]
    BY <1>1 DEF Wanted
  <2> HIDE DEF once, inner, ps
  <2>3. Sorted(w, g, 1, once)
    BY <1>1, <2>1, SequenceSorted DEF ps
  <2> QED  BY <2>2, <2>3, SortedReorders DEF once, inner
<1>4. CASE b.term.kind = "all"
  <2> DEFINE used == [i \in DOMAIN ps |-> 0]
             r == RunOf(m, ps, w, g)
  <2>1. once = AllFrom(m, ps, used)
    <3>1. once = AllRuns(m, ps)
      BY <1>4, TermRunsByKind, FlatFlattened
    <3> QED  BY <1>1, <3>1, RunsOfAllFacts
  <2>2. Fit(ps, used, Len(w), g)
    <3>1. \A i \in DOMAIN ps : 0 + Cardinality(OfMember(Len(w), g, i)) = Cardinality(OfMember(Len(w), g, i))
      BY EmptyIsZero, CountFacts
    <3>2. \A i \in DOMAIN ps : /\ ps[i].min <= Cardinality(OfMember(Len(w), g, i))
                               /\ Within(Cardinality(OfMember(Len(w), g, i)), ps[i].max)
      BY DEF Wanted
    <3>3. \A i \in DOMAIN ps : used[i] = 0 /\ ps[i].min \in Nat /\ Cardinality(OfMember(Len(w), g, i)) \in Nat
      BY <1>1, PartFacts, EmptyIsZero, CountFacts
    <3> HIDE DEF used, ps
    <3> QED  BY <3>1, <3>2, <3>3 DEF Fit
  <2>3. AllRun(m, ps, used, w, r)
    BY <2>2 DEF AllRun, Wanted
  <2>4. r \in once[w]
    <3> HIDE DEF used, r, ps, once
    <3> QED  BY <1>1, <2>1, <2>3, AllFromFacts
  <2> HIDE DEF once, inner, ps
  <2>5. once[w] # {}
    BY <2>4
  <2> QED  BY <2>5, SameReordering DEF once, inner
<1> QED  BY <1>3, <1>4 DEF Flat

(* The base accepts the children in some order.                            *)
AcceptsSome(m, b, w) == \E v \in Reorderings(w) : v \in Seq(Name) /\ RunsFrom(m)[b][v] # {}

LEMMA FlatAccepts ==
    ASSUME NEW m, NEW b \in Particles, Flat(b), IsOnce(b), NEW w \in Seq(Name), NEW g, Wanted(m, b.term.particles, w, g)
    PROVE  AcceptsSome(m, b, w)
<1> DEFINE once == TermRuns(m, b, InnerOf(b, RunsFrom(m)))
<1>1. RunsFrom(m)[b] = TimesRuns(b, once) /\ once \in Language
  BY FlatOnce
<1>2. PICK v \in Reorderings(w) : v \in Seq(Name) /\ once[v] # {}
  BY FlatTakes
<1>3. PICK r : r \in once[v]
  BY <1>2
<1>4. b.min <= 1 /\ Within(1, b.max)
  BY DEF IsOnce, Within
<1> HIDE DEF once
<1>5. r \in TimesRuns(b, once)[v]
  BY <1>1, <1>2, <1>3, <1>4, OnceIsEnough
<1> QED  BY <1>1, <1>2, <1>5 DEF AcceptsSome

(* Without open content the children are a word of the model.              *)
LEMMA ClosedPlaces ==
    ASSUME NEW n \in Nat
    PROVE  PlaceOf({}, n) = n
<1>1. {j \in 1..n : j \notin {}} = 1..n
  OBVIOUS
<1>2. Cardinality(1..n) = IF 1 > n THEN 0 ELSE n - 1 + 1
  <2>1. 1 \in Int /\ n \in Int
    OBVIOUS
  <2> QED  BY <2>1, FS_Interval
<1>3. PlaceOf({}, n) = Cardinality(1..n)
  BY <1>1, Zenon DEF PlaceOf
<1>4. Cardinality(1..n) = n
  BY <1>2
<1> QED  BY <1>3, <1>4

LEMMA ClosedLeaves ==
    ASSUME NEW m, IsMatcher(m)
    PROVE  LeftBy(m, {}) = m.children
<1> DEFINE N == Len(m.children)
           e == Numbering(m, {})
<1>1. N \in Nat /\ m.children \in Seq(Name)
  BY EmptyIsZero DEF IsMatcher
<1>2. PlaceOf({}, N) = N /\ \A j \in 1..N : PlaceOf({}, j) = j
  BY <1>1, ClosedPlaces
<1>3. LeftBy(m, {}) \in Seq(Name) /\ Len(LeftBy(m, {})) = PlaceOf({}, N)
  BY NumberingFacts
<1>4. \A k \in 1..PlaceOf({}, N) : LeftBy(m, {})[k] = m.children[e[k]]
  BY NumberingFacts
<1>5. \A j \in 1..N : j \notin {} => e[PlaceOf({}, j)] = j
  <2> HIDE DEF e
  <2> QED  BY NumberingFacts DEF e
<1> HIDE DEF e
<1>6. \A k \in 1..N : LeftBy(m, {})[k] = m.children[k]
  BY <1>2, <1>4, <1>5
<1> QED  BY <1>1, <1>2, <1>3, <1>6, SameSeq

LEMMA ClosedAccepts ==
    ASSUME NEW m, IsMatcher(m), m.open.mode = "none"
    PROVE  Match(m).ok <=> Runs(m)[m.children] # {}
<1>1. OpenSets(m) = {{}}
  <2>1. {} \in OpenSets(m)
    BY DEF OpenSets
  <2>2. ASSUME NEW S \in OpenSets(m) PROVE S = {}
    BY <2>2 DEF OpenSets
  <2> QED  BY <2>1, <2>2
<1>2. LeftBy(m, {}) = m.children
  BY ClosedLeaves
<1>3. ModelRuns(m) = {Filled(m, {}, run) : run \in Runs(m)[m.children]}
  <2> DEFINE F(S) == {Filled(m, S, run) : run \in Runs(m)[LeftBy(m, S)]}
  <2>1. ModelRuns(m) = UNION {F(S) : S \in OpenSets(m)}
    BY ModelRunsUnfold
  <2>2. F({}) = {Filled(m, {}, run) : run \in Runs(m)[m.children]}
    BY <1>2
  <2> HIDE DEF F
  <2> QED  BY <1>1, <2>1, <2>2
<1>4. ModelRuns(m) # {} <=> Runs(m)[m.children] # {}
  BY <1>3
<1>5. m.open.mode \in OpenModes
  BY DEF OpenModes
<1> QED  BY <1>4, <1>5, AcceptsIfRuns

(* What a leaf takes, whatever is around it: wildcards without keywords.   *)
TakesName(t, n) ==
    IF t.kind = "element" THEN AcceptElement(t.decl, n) # {} ELSE AllowsName(t.wildcard, n)

LEMMA AcceptTakes ==
    ASSUME NEW m, NEW t \in LeafTerm, t.kind = "wildcard" => t.wildcard.keywords = {}, NEW q
    PROVE  Accept(m, t, q) # {} <=> TakesName(t, q)
<1>1. t.kind = "element" \/ (t.kind = "wildcard" /\ t.kind # "element")
  BY LeafFacts
<1>2. CASE t.kind = "element"
  BY <1>2 DEF Accept, TakesName
<1>3. CASE t.kind = "wildcard"
  <2>1. WildcardOK(m, t.wildcard, q) <=> AllowsName(t.wildcard, q)
    BY <1>3 DEF WildcardOK, Allows
  <2> QED  BY <1>1, <1>3, <2>1 DEF Accept, TakesName
<1> QED  BY <1>1, <1>2, <1>3

(* The count of a base particle lies between what is surely and what may   *)
(* be given to it, and those sums lie in its range.                        *)
InRange(part, lo, hi, lower, upper) ==
    \/ upper = {} /\ part.min = 0
    \/ part.min <= Total(lo, lower) /\ OccLE(Total(hi, upper), part.max)

Between(L, f, g, i, lower, upper) ==
    \A k \in 1..L : (f[k] \in lower => g[k] = i) /\ (g[k] = i => f[k] \in upper)

LEMMA BetweenFacts ==
    ASSUME NEW L \in Nat, NEW N \in Nat, NEW f \in [1..L -> 1..N],
           NEW lo \in [1..N -> Nat], NEW hi \in [1..N -> Nat \cup {Unbounded}],
           \A j \in 1..N : lo[j] <= Cardinality(OfMember(L, f, j)) /\ Within(Cardinality(OfMember(L, f, j)), hi[j]),
           NEW part \in Particles, NEW lower, NEW upper, InRange(part, lo, hi, lower, upper),
           NEW g, NEW i, Between(L, f, g, i, lower, upper)
    PROVE  part.min <= Cardinality(OfMember(L, g, i)) /\ Within(Cardinality(OfMember(L, g, i)), part.max)
<1> DEFINE A == GivenTo(L, f, lower)
           B == OfMember(L, g, i)
           C == GivenTo(L, f, upper)
<1>1. A \subseteq B /\ B \subseteq C
  BY DEF Between, GivenTo, OfMember
<1>2. /\ IsFiniteSet(A) /\ Cardinality(A) \in Nat /\ IsFiniteSet(B) /\ Cardinality(B) \in Nat
      /\ IsFiniteSet(C) /\ Cardinality(C) \in Nat
  BY GivenFacts, CountFacts
<1>3. Cardinality(A) <= Cardinality(B) /\ Cardinality(B) <= Cardinality(C)
  <2> HIDE DEF A, B, C
  <2> QED  BY <1>1, <1>2, FS_Subset
<1>4. part.min \in Nat /\ part.max \in Nat \cup {Unbounded}
  BY ParticleShape
<1>5. CASE upper = {} /\ part.min = 0
  <2>1. C = {}
    BY <1>5 DEF GivenTo
  <2>2. B = {}
    BY <1>1, <2>1
  <2> HIDE DEF B
  <2>3. Cardinality(B) = 0
    BY <2>2, FS_EmptySet
  <2> QED  BY <1>4, <1>5, <2>3 DEF Within, B
<1>6. CASE part.min <= Total(lo, lower) /\ OccLE(Total(hi, upper), part.max)
  <2>1. Total(lo, lower) \in Nat /\ Total(lo, lower) <= Cardinality(A)
    BY SumBounds
  <2>2. Total(hi, upper) \in Nat \cup {Unbounded} /\ Within(Cardinality(C), Total(hi, upper))
    BY SumBounds
  <2> HIDE DEF A, B, C
  <2>3. part.min <= Cardinality(B)
    BY <1>2, <1>3, <1>4, <1>6, <2>1
  <2>4. Within(Cardinality(B), part.max)
    BY <1>2, <1>3, <1>4, <1>6, <2>2 DEF Within, OccLE, Unbounded
  <2> QED  BY <2>3, <2>4 DEF B
<1> QED  BY <1>5, <1>6 DEF InRange

-----------------------------------------------------------------------------
(* What a run is, and where its particles are from.                        *)
IsRun(run) ==
    /\ run.parts \in Seq(Particles) /\ run.top.min \in Nat /\ run.top.max \in Nat \cup {Unbounded}
    /\ \A k \in DOMAIN run.parts : run.parts[k] \in Particles /\ IsLeaf(run.parts[k].term)

LeavesIn(run, p) == \A k \in DOMAIN run.parts : run.parts[k].term \in Leaves[p]

LEMMA FlatRun ==
    ASSUME NEW p \in Particles, Flat(p), NEW top, top.min \in Nat, top.max \in Nat \cup {Unbounded}
    PROVE  IsRun(Run(p.term.particles, top)) /\ LeavesIn(Run(p.term.particles, top), p)
<1> DEFINE ps == p.term.particles
           run == Run(ps, top)
<1>1. run.parts = ps /\ run.top = top
  BY DEF Run
<1>2. ps \in Seq(Particles) /\ IsGroup(p.term) /\ \A i \in DOMAIN ps : ps[i] \in Particles /\ IsLeaf(ps[i].term)
  BY FlatShape
<1>3. IsRun(run)
  <2> HIDE DEF run, ps
  <2> QED  BY <1>1, <1>2 DEF IsRun
<1>4. ASSUME NEW i \in DOMAIN ps PROVE ps[i].term \in Leaves[p]
  <2>1. Leaves[ps[i]] = {ps[i].term}
    BY <1>2, LeafMember
  <2>2. Leaves[ps[i]] \subseteq Leaves[p]
    BY <1>2, LeavesFacts
  <2> QED  BY <2>1, <2>2
<1>5. LeavesIn(run, p)
  <2> HIDE DEF run, ps
  <2> QED  BY <1>1, <1>4 DEF LeavesIn
<1> QED  BY <1>3, <1>5

LEMMA SingleRun ==
    ASSUME NEW c \in Particles, c.term.kind = "element"
    PROVE  IsRun(Run(<<c>>, Once)) /\ LeavesIn(Run(<<c>>, Once), c)
<1> DEFINE run == Run(<<c>>, Once)
<1>1. run.parts = <<c>> /\ run.top.min = 1 /\ run.top.max = 1
  BY DEF Run, Once, Particle
<1>2. <<c>> \in Seq(Particles) /\ DOMAIN <<c>> = {1} /\ <<c>>[1] = c /\ IsLeaf(c.term)
  <2>1. <<c>> \in Seq(Particles) /\ DOMAIN <<c>> = 1..1 /\ <<c>>[1] = c
    OBVIOUS
  <2> QED  BY <2>1 DEF IsLeaf
<1>3. c.term \in Leaves[c]
  BY <1>2, LeafMember
<1> HIDE DEF run
<1>4. run.parts \in Seq(Particles) /\ \A k \in DOMAIN run.parts : run.parts[k] = c
  BY <1>1, <1>2
<1>5. IsRun(run)
  BY <1>1, <1>2, <1>4 DEF IsRun
<1>6. LeavesIn(run, c)
  BY <1>3, <1>4 DEF LeavesIn
<1> QED  BY <1>5, <1>6 DEF run

LEMMA RunShape ==
    ASSUME NEW p \in Particles, NEW run \in RestrictionRuns(p)
    PROVE  IsRun(run) /\ LeavesIn(run, p)
<1>1. CASE Flat(p)
  <2>1. run = Run(p.term.particles, p)
    BY <1>1 DEF RestrictionRuns
  <2>2. p.min \in Nat /\ p.max \in Nat \cup {Unbounded}
    BY ParticleShape
  <2> QED  BY <1>1, <2>1, <2>2, FlatRun
<1>2. CASE ~Flat(p)
  <2>1. ChoiceOfRuns(p) /\ \E c \in ToSet(p.term.particles) : run = Branch(c)
    BY <1>2 DEF RestrictionRuns
  <2>2. IsGroup(p.term) /\ p.term.particles \in Seq(Particles)
    <3>1. IsGroup(p.term)
      BY <2>1 DEF ChoiceOfRuns, IsGroup
    <3> QED  BY <3>1, GroupShape
  <2>3. PICK i \in DOMAIN p.term.particles : run = Branch(p.term.particles[i])
    BY <2>1, <2>2, MemberOfSeq
  <2> DEFINE c == p.term.particles[i]
  <2>4. c \in Particles /\ c \in ToSet(p.term.particles)
    BY <2>2, MemberOfSeq
  <2>5. Leaves[c] \subseteq Leaves[p]
    BY <2>2, LeavesFacts
  <2>6. c.term.kind = "element" \/ (Flat(c) /\ IsOnce(c) /\ c.term.kind # "element")
    <3>1. c.term.kind = "element" \/ (Flat(c) /\ IsOnce(c))
      BY <2>1, <2>4 DEF ChoiceOfRuns
    <3> QED  BY <3>1
  <2> HIDE DEF c
  <2>7. IsRun(run) /\ LeavesIn(run, c)
    <3>1. CASE c.term.kind = "element"
      <4>1. run = Run(<<c>>, Once)
        BY <2>3, <3>1 DEF Branch, c
      <4> QED  BY <2>4, <3>1, <4>1, SingleRun
    <3>2. CASE Flat(c) /\ IsOnce(c) /\ c.term.kind # "element"
      <4>1. run = Run(c.term.particles, Once)
        BY <2>3, <3>2 DEF Branch, c
      <4>2. Once.min \in Nat /\ Once.max \in Nat \cup {Unbounded}
        BY DEF Once, Particle
      <4> QED  BY <2>4, <3>2, <4>1, <4>2, FlatRun
    <3> QED  BY <2>6, <3>1, <3>2
  <2> QED  BY <2>5, <2>7 DEF LeavesIn
<1> QED  BY <1>1, <1>2

LEMMA MulOccType ==
    ASSUME NEW a \in Nat \cup {Unbounded}, NEW b \in Nat \cup {Unbounded}
    PROVE  MulOcc(a, b) \in Nat \cup {Unbounded}
<1>1. CASE a \in Nat
  BY <1>1, MulOccFacts
<1>2. CASE a = Unbounded
  BY <1>2 DEF MulOcc, Unbounded
<1> QED  BY <1>1, <1>2

LEMMA RunBounds ==
    ASSUME NEW run, IsRun(run)
    PROVE  /\ Len(run.parts) \in Nat /\ DOMAIN run.parts = 1..Len(run.parts)
           /\ Minima(run) \in [1..Len(run.parts) -> Nat]
           /\ Maxima(run) \in [1..Len(run.parts) -> Nat \cup {Unbounded}]
<1>1. Len(run.parts) \in Nat /\ DOMAIN run.parts = 1..Len(run.parts)
  BY EmptyIsZero DEF IsRun
<1>2. ASSUME NEW k \in DOMAIN run.parts
      PROVE  MinIn(run.top, run.parts[k]) \in Nat /\ MaxIn(run.top, run.parts[k]) \in Nat \cup {Unbounded}
  <2>1. run.parts[k].min \in Nat /\ run.parts[k].max \in Nat \cup {Unbounded}
    BY PartFacts DEF IsRun
  <2> QED  BY <2>1, MulOccNat, MulOccType DEF MinIn, MaxIn, IsRun
<1> QED  BY <1>1, <1>2 DEF Minima, Maxima

-----------------------------------------------------------------------------
(* What names the terms of a restriction, and of its base, take.           *)
KeepsNames(r, b) ==
    /\ \A d \in ElementsOf(r), n \in Name : AcceptElement(d, n) # {} =>
         IF d.name \notin UNION {Accepted(e) : e \in ElementsOf(b)} THEN n = d.name
         ELSE \A e \in ElementsOf(b) : d.name \in Accepted(e) => AcceptElement(e, n) # {}
    /\ ManyWildcards(b) =>
         \A w \in WildcardsOf(r), e \in ElementsOf(b) :
           \A n \in Accepted(e) : AllowsName(w, n) => AcceptElement(e, n) # {}

Plain(p) == \A w \in WildcardsOf(p) : w.keywords = {}

LEMMA LeafKinds ==
    ASSUME NEW p, NEW t \in Leaves[p]
    PROVE  /\ t.kind = "element" => t.decl \in ElementsOf(p)
           /\ t.kind = "wildcard" => t.wildcard \in WildcardsOf(p)
BY DEF ElementsOf, WildcardsOf

LEMMA FlatLeaves ==
    ASSUME NEW b \in Particles, Flat(b)
    PROVE  /\ \A i \in DOMAIN b.term.particles :
                /\ b.term.particles[i] \in Particles /\ IsLeaf(b.term.particles[i].term)
                /\ b.term.particles[i].term \in Leaves[b] /\ b.term.particles[i].term \in LeafTerm
           /\ \A e \in ElementsOf(b) : \E i \in DOMAIN b.term.particles :
                b.term.particles[i].term.kind = "element" /\ b.term.particles[i].term.decl = e
<1> DEFINE ps == b.term.particles
<1>1. ps \in Seq(Particles) /\ \A i \in DOMAIN ps : ps[i] \in Particles /\ IsLeaf(ps[i].term)
  BY FlatShape
<1>2. \A i \in DOMAIN ps : Leaves[ps[i]] = {ps[i].term} /\ ps[i].term \in LeafTerm
  BY <1>1, LeafMember
<1>3. \A i \in DOMAIN ps : ps[i].term \in Leaves[b]
  <2>1. IsGroup(b.term)
    BY FlatShape
  <2>2. \A i \in DOMAIN b.term.particles : Leaves[b.term.particles[i]] \subseteq Leaves[b]
    BY <2>1, LeavesFacts
  <2> QED  BY <1>2, <2>2
<1>4. ASSUME NEW t \in Leaves[b] PROVE \E i \in DOMAIN ps : ps[i].term = t
  <2>1. Leaves[b] = LeavesStep(b, Leaves)
    BY LeavesUnfold
  <2>2. Referred(b.term) = b.term /\ MembersOf(b) = ps /\ ~IsLeaf(b.term)
    <3>1. Referred(b.term) = b.term /\ MembersOf(b) = ps /\ IsGroup(b.term)
      BY FlatShape
    <3> QED  BY <3>1 DEF IsGroup, IsLeaf
  <2>3. t \in UNION {Leaves[q] : q \in ToSet(ps)}
    BY <2>1, <2>2 DEF LeavesStep
  <2>4. PICK q \in ToSet(ps) : t \in Leaves[q]
    BY <2>3
  <2>5. PICK i \in DOMAIN ps : q = ps[i]
    BY <1>1, <2>4, MemberOfSeq
  <2> QED  BY <1>2, <2>4, <2>5
<1>5. ASSUME NEW e \in ElementsOf(b) PROVE \E i \in DOMAIN ps : ps[i].term.kind = "element" /\ ps[i].term.decl = e
  <2>1. PICK t \in Leaves[b] : t.kind = "element" /\ t.decl = e
    BY DEF ElementsOf
  <2> QED  BY <1>4, <2>1
<1> QED  BY <1>1, <1>2, <1>3, <1>5

LEMMA SubsetAdmits ==
    ASSUME NEW sub \in Wildcard, NEW super \in Wildcard, NamespaceConstraintSubset(sub, super),
           NEW n, AllowsName(sub, n)
    PROVE  AllowsName(super, n)
BY DEF NamespaceConstraintSubset, NamespaceVarietySubset, AllowsName, AllowsNamespace, Wildcard

(* A child taken by a particle of the restriction is taken by the base     *)
(* particle it is mapped to, where nothing is reported for the mapping.    *)
LEMMA SlotTakes ==
    ASSUME NEW b \in Particles, Flat(b), NEW r \in Particles, KeepsNames(r, b),
           NEW q \in Particles, IsLeaf(q.term), q.term \in Leaves[r],
           NEW i, MapsTo(Run(b.term.particles, b), q) = {i}, MappingReports(Run(b.term.particles, b), q) = {},
           NEW n \in Name, TakesName(q.term, n)
    PROVE  i \in DOMAIN b.term.particles /\ TakesName(b.term.particles[i].term, n)
<1> DEFINE ps == b.term.particles
           bs == Run(ps, b)
<1>1. bs.parts = ps
  BY DEF Run
<1>2. i \in MapsTo(bs, q)
  OBVIOUS
<1>3. /\ \A j \in WildcardSlots(bs) : j \in DOMAIN ps /\ ps[j].term.kind = "wildcard" /\ ps[j].term.wildcard \in Wildcard
      /\ \A d : \A j \in SlotsOf(bs, d) : j \in DOMAIN ps /\ ps[j].term.kind = "element" /\ d.name \in Accepted(ps[j].term.decl)
                                      /\ ps[j].term.decl \in ElementsOf(b)
  <2>1. \A j \in DOMAIN ps : ps[j].term \in LeafTerm /\ ps[j].term \in Leaves[b]
    BY FlatLeaves
  <2>2. \A j \in DOMAIN ps : /\ ps[j].term.kind = "wildcard" => ps[j].term.wildcard \in Wildcard
                             /\ ps[j].term.kind = "element" => ps[j].term.decl \in ElementsOf(b)
    BY <2>1, LeafKinds, LeafFacts
  <2> HIDE DEF ps, bs
  <2> QED  BY <1>1, <2>2 DEF WildcardSlots, SlotsOf
<1>4. q.term \in LeafTerm
  BY LeafMember
<1>5. CASE q.term.kind = "wildcard"
  <2>1. MapsTo(bs, q) = WildcardSlots(bs)
    BY <1>5 DEF MapsTo
  <2>2. NamespaceConstraintSubset(q.term.wildcard, BaseWildcard(bs))
    <3>1. MappingReports(bs, q) = IF NamespaceConstraintSubset(q.term.wildcard, BaseWildcard(bs)) THEN {} ELSE {"wildcard"}
      BY <1>2, <1>5 DEF MappingReports
    <3> QED  BY <3>1
  <2>3. WildcardSlots(bs) = {i}
    BY <2>1
  <2>4. BaseWildcard(bs) = ps[i].term.wildcard
    <3>1. (CHOOSE j \in WildcardSlots(bs) : TRUE) = i
      BY <2>3
    <3> QED  BY <1>1, <3>1 DEF BaseWildcard
  <2>5. q.term.wildcard \in Wildcard
    BY <1>4, <1>5, LeafFacts
  <2>6. i \in DOMAIN ps /\ ps[i].term.kind = "wildcard" /\ ps[i].term.wildcard \in Wildcard
    BY <1>3, <2>3
  <2>7. AllowsName(q.term.wildcard, n)
    BY <1>5 DEF TakesName
  <2>8. AllowsName(ps[i].term.wildcard, n)
    <3> HIDE DEF ps, bs
    <3> QED  BY <2>2, <2>4, <2>5, <2>6, <2>7, SubsetAdmits
  <2> QED  BY <2>6, <2>8 DEF TakesName
<1>6. CASE q.term.kind = "element"
  <2> DEFINE d == q.term.decl
  <2>1. d \in ElementsOf(r) /\ AcceptElement(d, n) # {}
    BY <1>6, LeafKinds DEF TakesName
  <2>2. CASE SlotsOf(bs, d) # {}
    <3>1. i \in SlotsOf(bs, d)
      BY <1>2, <1>6, <2>2 DEF MapsTo
    <3>2. i \in DOMAIN ps /\ ps[i].term.kind = "element" /\ d.name \in Accepted(ps[i].term.decl) /\ ps[i].term.decl \in ElementsOf(b)
      BY <1>3, <3>1
    <3> HIDE DEF ps, bs, d
    <3>3. AcceptElement(ps[i].term.decl, n) # {}
      BY <2>1, <3>2 DEF KeepsNames
    <3> QED  BY <3>2, <3>3 DEF TakesName, ps
  <2>3. CASE SlotsOf(bs, d) = {}
    <3>1. MapsTo(bs, q) = {j \in WildcardSlots(bs) : AllowsName(bs.parts[j].term.wildcard, d.name)}
      BY <1>6, <2>3 DEF MapsTo
    <3>2. i \in WildcardSlots(bs) /\ AllowsName(ps[i].term.wildcard, d.name)
      BY <1>1, <1>2, <3>1
    <3>3. d.name \notin UNION {Accepted(e) : e \in ElementsOf(b)}
      <4> SUFFICES ASSUME NEW e \in ElementsOf(b), d.name \in Accepted(e) PROVE FALSE
        OBVIOUS
      <4>1. PICK j \in DOMAIN ps : ps[j].term.kind = "element" /\ ps[j].term.decl = e
        BY FlatLeaves
      <4>2. j \in SlotsOf(bs, d)
        BY <1>1, <4>1 DEF SlotsOf
      <4> QED  BY <2>3, <4>2
    <3>4. n = d.name
      <4> HIDE DEF d
      <4> QED  BY <2>1, <3>3 DEF KeepsNames
    <3>5. i \in DOMAIN ps /\ ps[i].term.kind = "wildcard"
      BY <1>3, <3>2
    <3> QED  BY <3>2, <3>4, <3>5 DEF TakesName
  <2> QED  BY <2>2, <2>3
<1> QED  BY <1>4, <1>5, <1>6, LeafFacts

LEMMA AtMostOne ==
    ASSUME NEW S, IsFiniteSet(S), S # {}, ~(Cardinality(S) > 1)
    PROVE  \E x : S = {x}
<1>1. PICK x : x \in S
  OBVIOUS
<1>2. IsFiniteSet(S \ {x}) /\ Cardinality(S \ {x}) = Cardinality(S) - 1 /\ Cardinality(S) \in Nat
  BY <1>1, FS_RemoveElement, FS_CardinalityType
<1>3. Cardinality(S \ {x}) \in Nat
  BY <1>2, FS_CardinalityType
<1>4. Cardinality(S \ {x}) = 0
  BY <1>2, <1>3
<1>5. S \ {x} = {}
  BY <1>2, <1>4, FS_EmptySet
<1> QED  BY <1>1, <1>5

(* Where the slots decide, each particle of the run has one slot, which    *)
(* nothing is reported for.                                                *)
SlotsDecide(b, run) ==
    /\ SlotRun(Run(b.term.particles, b), run) = {}
    /\ \A q \in ToSet(run.parts) : ~Ambiguous(Run(b.term.particles, b), q)

LEMMA NothingReported ==
    ASSUME NEW bs, NEW run, \A k \in DOMAIN run.parts : ~Ambiguous(bs, run.parts[k]), SlotRun(bs, run) = {}
    PROVE  /\ \A k \in DOMAIN run.parts : MappingReports(bs, run.parts[k]) = {}
           /\ \A i \in DOMAIN bs.parts : SlotReports(bs, run, i) = {}
<1>1. {k \in DOMAIN run.parts : Ambiguous(bs, run.parts[k])} = {}
  OBVIOUS
<1>2. ASSUME NEW k \in DOMAIN run.parts, NEW x \in MappingReports(bs, run.parts[k]) PROVE x \in SlotRun(bs, run)
  BY <1>1 DEF SlotRun
<1>3. ASSUME NEW s \in DOMAIN bs.parts, NEW x \in SlotReports(bs, run, s) PROVE x \in SlotRun(bs, run)
  BY <1>1 DEF SlotRun
<1> QED  BY <1>2, <1>3

LEMMA SlotDecided ==
    ASSUME NEW b \in Particles, Flat(b), NEW run, IsRun(run), SlotsDecide(b, run)
    PROVE  /\ \A k \in DOMAIN run.parts : /\ MappingReports(Run(b.term.particles, b), run.parts[k]) = {}
                                          /\ \E i : MapsTo(Run(b.term.particles, b), run.parts[k]) = {i}
           /\ \A i \in DOMAIN b.term.particles : SlotReports(Run(b.term.particles, b), run, i) = {}
<1> DEFINE bs == Run(b.term.particles, b)
<1>1. \A k \in DOMAIN run.parts : run.parts[k] \in ToSet(run.parts)
  BY MemberOfSeq DEF IsRun
<1>2. \A k \in DOMAIN run.parts : ~Ambiguous(bs, run.parts[k])
  BY <1>1 DEF SlotsDecide
<1>4. SlotRun(bs, run) = {}
  BY DEF SlotsDecide
<1>5. bs.parts = b.term.particles
  BY DEF Run
<1> HIDE DEF bs
<1>7. /\ \A k \in DOMAIN run.parts : MappingReports(bs, run.parts[k]) = {}
      /\ \A i \in DOMAIN b.term.particles : SlotReports(bs, run, i) = {}
  BY <1>2, <1>4, <1>5, NothingReported
<1>8. ASSUME NEW k \in DOMAIN run.parts PROVE \E i : MapsTo(bs, run.parts[k]) = {i}
  <2> DEFINE S == MapsTo(bs, run.parts[k])
  <2>1. S # {}
    BY <1>7 DEF MappingReports
  <2>2. S \subseteq DOMAIN b.term.particles
    BY <1>5 DEF MapsTo, WildcardSlots, SlotsOf
  <2>3. IsFiniteSet(S)
    <3>1. b.term.particles \in Seq(Particles)
      BY FlatShape
    <3>2. Len(b.term.particles) \in Nat /\ DOMAIN b.term.particles = 1..Len(b.term.particles)
      BY <3>1, EmptyIsZero
    <3>3. IsFiniteSet(1..Len(b.term.particles))
      BY <3>2, FS_Interval
    <3> HIDE DEF S
    <3> QED  BY <2>2, <3>2, <3>3, FS_Subset
  <2>4. ~(Cardinality(S) > 1)
    BY <1>2 DEF Ambiguous
  <2> HIDE DEF S
  <2>5. \E x : S = {x}
    BY <2>1, <2>3, <2>4, AtMostOne
  <2> QED  BY <2>5 DEF S
<1> QED  BY <1>7, <1>8 DEF bs

(* The range of a base particle is not missed.                             *)
LEMMA SlotInRange ==
    ASSUME NEW b \in Particles, Flat(b), IsOnce(b), NEW run, NEW i \in DOMAIN b.term.particles,
           SlotReports(Run(b.term.particles, b), run, i) = {},
           NEW mapped, mapped = {k \in DOMAIN run.parts : i \in MapsTo(Run(b.term.particles, b), run.parts[k])},
           Total(Minima(run), mapped) \in Nat
    PROVE  InRange(b.term.particles[i], Minima(run), Maxima(run), mapped, mapped)
<1> DEFINE bs == Run(b.term.particles, b)
           slot == bs.parts[i]
<1>1. slot = b.term.particles[i] /\ bs.top = b /\ slot.min \in Nat /\ slot.max \in Nat \cup {Unbounded}
  <2>1. b.term.particles[i].min \in Nat /\ b.term.particles[i].max \in Nat \cup {Unbounded}
    BY FlatShape, PartFacts
  <2> QED  BY <2>1 DEF Run
<1>2. MinIn(bs.top, slot) = slot.min /\ MaxIn(bs.top, slot) = slot.max
  BY <1>1, OnceFactor DEF MinIn, MaxIn, IsOnce
<1>3. SlotReports(bs, run, i) =
        IF mapped = {} THEN (IF MinIn(bs.top, slot) > 0 THEN {"omits"} ELSE {})
        ELSE (IF Total(Minima(run), mapped) < MinIn(bs.top, slot) THEN {"fewer"} ELSE {})
             \cup (IF OccLE(Total(Maxima(run), mapped), MaxIn(bs.top, slot)) THEN {} ELSE {"more"})
  BY DEF SlotReports
<1> HIDE DEF bs, slot
<1>4. CASE mapped = {}
  <2>1. ~(slot.min > 0)
    BY <1>2, <1>3, <1>4 DEF bs
  <2>2. slot.min = 0
    BY <1>1, <2>1
  <2> QED  BY <1>1, <1>4, <2>2 DEF InRange
<1>5. CASE mapped # {}
  <2>1. ~(Total(Minima(run), mapped) < slot.min) /\ OccLE(Total(Maxima(run), mapped), slot.max)
    BY <1>2, <1>3, <1>5 DEF bs
  <2>2. slot.min <= Total(Minima(run), mapped)
    BY <1>1, <2>1
  <2> QED  BY <1>1, <2>1, <2>2 DEF InRange
<1> QED  BY <1>4, <1>5

LEMMA PlainTakes ==
    ASSUME NEW m, NEW p \in Particles, Plain(p), NEW q \in Particles, IsLeaf(q.term), q.term \in Leaves[p], NEW n
    PROVE  Accept(m, q.term, n) # {} <=> TakesName(q.term, n)
<1>1. q.term \in LeafTerm
  BY LeafMember
<1>2. q.term.kind = "wildcard" => q.term.wildcard.keywords = {}
  BY LeafKinds DEF Plain
<1> QED  BY <1>1, <1>2, AcceptTakes

(* Children given to the particles of a run, given to particles of the     *)
(* base instead: each takes them, and as many as its range allows.         *)
Regiven(b, run, L, f, g) ==
    \E lower, upper : \A i \in DOMAIN b.term.particles :
      /\ InRange(b.term.particles[i], Minima(run), Maxima(run), lower[i], upper[i])
      /\ Between(L, f, g, i, lower[i], upper[i])

LEMMA RegivenWanted ==
    ASSUME NEW b \in Particles, Flat(b), Plain(b), NEW run, IsRun(run), NEW m, NEW w \in Seq(Name),
           NEW f, PlacedBy(m, run.parts, w, f, Minima(run), Maxima(run)),
           NEW g \in [1..Len(w) -> DOMAIN b.term.particles], Regiven(b, run, Len(w), f, g),
           \A k \in 1..Len(w) : TakesName(b.term.particles[g[k]].term, w[k])
    PROVE  Wanted(m, b.term.particles, w, g)
<1> DEFINE ps == b.term.particles
           L == Len(w)
           N == Len(run.parts)
<1>1. L \in Nat
  BY EmptyIsZero
<1>2. N \in Nat /\ DOMAIN run.parts = 1..N /\ Minima(run) \in [1..N -> Nat] /\ Maxima(run) \in [1..N -> Nat \cup {Unbounded}]
  BY RunBounds
<1>3. /\ f \in [1..L -> 1..N]
      /\ \A j \in 1..N : /\ Minima(run)[j] <= Cardinality(OfMember(L, f, j))
                         /\ Within(Cardinality(OfMember(L, f, j)), Maxima(run)[j])
  BY <1>2 DEF PlacedBy
<1>4. \A i \in DOMAIN ps : ps[i] \in Particles /\ IsLeaf(ps[i].term) /\ ps[i].term \in Leaves[b]
  BY FlatLeaves
<1>5. Suit(m, ps, w, g)
  <2> SUFFICES ASSUME NEW k \in 1..L PROVE Accept(m, ps[g[k]].term, w[k]) # {}
    BY DEF Suit
  <2>1. g[k] \in DOMAIN ps
    OBVIOUS
  <2>2. TakesName(ps[g[k]].term, w[k])
    OBVIOUS
  <2> HIDE DEF ps
  <2> QED  BY <1>4, <2>1, <2>2, PlainTakes
<1>6. PICK lower, upper : \A i \in DOMAIN ps :
        InRange(ps[i], Minima(run), Maxima(run), lower[i], upper[i]) /\ Between(L, f, g, i, lower[i], upper[i])
  BY DEF Regiven
<1>7. ASSUME NEW i \in DOMAIN ps
      PROVE  ps[i].min <= Cardinality(OfMember(L, g, i)) /\ Within(Cardinality(OfMember(L, g, i)), ps[i].max)
  <2> DEFINE lo == Minima(run)
             hi == Maxima(run)
             lw == lower[i]
             up == upper[i]
             part == ps[i]
  <2>1. InRange(part, lo, hi, lw, up) /\ Between(L, f, g, i, lw, up) /\ part \in Particles
    BY <1>4, <1>6
  <2> HIDE DEF lo, hi, lw, up, part, L, N
  <2> QED  BY <1>1, <1>2, <1>3, <2>1, BetweenFacts DEF lo, hi, part
<1> QED  BY <1>5, <1>7 DEF Wanted

LEMMA SlotWanted ==
    ASSUME NEW b \in Particles, Flat(b), IsOnce(b), Plain(b), NEW r \in Particles, Plain(r), KeepsNames(r, b),
           NEW run, IsRun(run), LeavesIn(run, r), SlotsDecide(b, run), NEW m, NEW w \in Seq(Name), RunPlaced(m, run, w)
    PROVE  \E g : Wanted(m, b.term.particles, w, g)
<1> DEFINE ps == b.term.particles
           bs == Run(ps, b)
           rs == run.parts
           L == Len(w)
           slot(k) == CHOOSE i : MapsTo(bs, rs[k]) = {i}
           mapped(i) == {k \in DOMAIN rs : i \in MapsTo(bs, rs[k])}
<1>1. PICK f : PlacedBy(m, rs, w, f, Minima(run), Maxima(run))
  BY DEF RunPlaced, Placed
<1>2. \A k \in DOMAIN rs : MappingReports(bs, rs[k]) = {} /\ MapsTo(bs, rs[k]) = {slot(k)}
  <2>1. \A k \in DOMAIN rs : MappingReports(bs, rs[k]) = {} /\ \E i : MapsTo(bs, rs[k]) = {i}
    <3> HIDE DEF slot, mapped
    <3> QED  BY SlotDecided
  <2> HIDE DEF bs, rs
  <2> QED  BY <2>1
<1>3. \A i \in DOMAIN ps : SlotReports(bs, run, i) = {}
  <2> HIDE DEF slot, mapped
  <2> QED  BY SlotDecided
<1> DEFINE g == [k \in 1..L |-> slot(f[k])]
<1>4. f \in [1..L -> DOMAIN rs] /\ Suit(m, rs, w, f)
  BY <1>1 DEF PlacedBy
<1>5. \A k \in 1..L : w[k] \in Name
  BY MemberOfSeq
<1>6. ASSUME NEW k \in 1..L PROVE slot(f[k]) \in DOMAIN ps /\ TakesName(ps[slot(f[k])].term, w[k])
  <2> DEFINE q == rs[f[k]]
             i == slot(f[k])
             n == w[k]
  <2>1. f[k] \in DOMAIN rs
    BY <1>4
  <2>2. q \in Particles /\ IsLeaf(q.term) /\ q.term \in Leaves[r]
    BY <2>1 DEF IsRun, LeavesIn
  <2>3. MappingReports(bs, q) = {} /\ MapsTo(bs, q) = {i}
    <3> HIDE DEF slot, bs, rs
    <3> QED  BY <1>2, <2>1
  <2>4. n \in Name /\ Accept(m, q.term, n) # {}
    BY <1>4, <1>5 DEF Suit
  <2> HIDE DEF q, i, n, slot
  <2>5. TakesName(q.term, n)
    BY <2>2, <2>4, PlainTakes
  <2>6. i \in DOMAIN ps /\ TakesName(ps[i].term, n)
    BY <2>2, <2>3, <2>4, <2>5, SlotTakes
  <2> QED  BY <2>6 DEF i, n
<1>7. g \in [1..L -> DOMAIN ps] /\ \A k \in 1..L : TakesName(ps[g[k]].term, w[k])
  <2> HIDE DEF slot, ps
  <2> QED  BY <1>6
<1>8. Regiven(b, run, L, f, g)
  <2> DEFINE given == [i \in DOMAIN ps |-> mapped(i)]
  <2>1. ASSUME NEW i \in DOMAIN ps
        PROVE  InRange(ps[i], Minima(run), Maxima(run), given[i], given[i]) /\ Between(L, f, g, i, given[i], given[i])
    <3>1. given[i] = mapped(i)
      OBVIOUS
    <3>2. Between(L, f, g, i, mapped(i), mapped(i))
      <4> SUFFICES ASSUME NEW k \in 1..L PROVE f[k] \in mapped(i) <=> g[k] = i
        BY DEF Between
      <4>1. f[k] \in DOMAIN rs /\ g[k] = slot(f[k])
        BY <1>4
      <4>2. MapsTo(bs, rs[f[k]]) = {slot(f[k])}
        <5> HIDE DEF slot, bs, rs
        <5> QED  BY <1>2, <4>1
      <4> HIDE DEF slot, bs, rs, g
      <4> QED  BY <4>1, <4>2
    <3>3. Total(Minima(run), mapped(i)) \in Nat
      <4> DEFINE lo == Minima(run)
                 hi == Maxima(run)
                 S == mapped(i)
                 N == Len(rs)
      <4>1. L \in Nat /\ N \in Nat /\ lo \in [1..N -> Nat] /\ hi \in [1..N -> Nat \cup {Unbounded}] /\ DOMAIN rs = 1..N
        BY EmptyIsZero, RunBounds
      <4>2. f \in [1..L -> 1..N]
        BY <1>4, <4>1
      <4>3. \A j \in 1..N : lo[j] <= Cardinality(OfMember(L, f, j)) /\ Within(Cardinality(OfMember(L, f, j)), hi[j])
        BY <1>1, <4>1 DEF PlacedBy
      <4> HIDE DEF lo, hi, S, N, L
      <4>4. Total(lo, S) \in Nat
        BY <4>1, <4>2, <4>3, SumBounds
      <4> QED  BY <4>4 DEF lo, S
    <3>4. InRange(ps[i], Minima(run), Maxima(run), mapped(i), mapped(i))
      BY <1>3, <3>3, SlotInRange
    <3> HIDE DEF given, mapped, g, L, ps
    <3> QED  BY <3>1, <3>2, <3>4
  <2> HIDE DEF given, g, L
  <2> QED  BY <2>1 DEF Regiven
<1> HIDE DEF g
<1>9. Wanted(m, ps, w, g)
  BY <1>1, <1>7, <1>8, RegivenWanted
<1> QED  BY <1>9

(* The names and the namespaces some particles mention.                    *)
Mentioned(parts) ==
    {q.term.decl.name : q \in {q \in parts : q.term.kind = "element"}}
    \cup (UNION {q.term.wildcard.notQName : q \in {q \in parts : q.term.kind = "wildcard"}})

Spaces(parts) ==
    {""} \cup {NamespaceOf[n] : n \in Mentioned(parts)}
    \cup (UNION {q.term.wildcard.namespaces : q \in {q \in parts : q.term.kind = "wildcard"}})

(* Particles without a name that is made up.                               *)
Apart(parts) ==
    \A q \in parts :
      /\ q.term.kind = "element" => Accepted(q.term.decl) \cap MadeUp = {} /\ NamespaceOf[q.term.decl.name] \in DOMAIN Generic
      /\ q.term.kind = "wildcard" =>
           /\ q.term.wildcard \in Wildcard /\ q.term.wildcard.notQName \cap MadeUp = {}
           /\ q.term.wildcard.namespaces \subseteq DOMAIN Generic
           /\ \A n \in q.term.wildcard.notQName : NamespaceOf[n] \in DOMAIN Generic

(* The representative of a name, which the particles treat as they treat   *)
(* the name.                                                               *)
StandIn(n, parts) ==
    IF n \in Mentioned(parts) THEN n
    ELSE IF NamespaceOf[n] \in Spaces(parts) THEN Generic[NamespaceOf[n]] ELSE FreshName

LEMMA RepresentativesAre ==
    ASSUME NEW parts
    PROVE  Representatives(parts) = Mentioned(parts) \cup {Generic[ns] : ns \in Spaces(parts)} \cup {FreshName}
<1> DEFINE named == {q.term.decl.name : q \in {q \in parts : q.term.kind = "element"}}
           wilds == {q.term.wildcard : q \in {q \in parts : q.term.kind = "wildcard"}}
           names == named \cup UNION {w.notQName : w \in wilds}
           spaces == {""} \cup {NamespaceOf[n] : n \in names} \cup UNION {w.namespaces : w \in wilds}
<1>1. names = Mentioned(parts)
  BY DEF Mentioned
<1>2. spaces = Spaces(parts)
  <2> HIDE DEF names, named
  <2>1. UNION {w.namespaces : w \in wilds} = UNION {q.term.wildcard.namespaces : q \in {q \in parts : q.term.kind = "wildcard"}}
    OBVIOUS
  <2> HIDE DEF wilds
  <2> QED  BY <1>1, <2>1 DEF Spaces
<1>3. Representatives(parts) = names \cup {Generic[ns] : ns \in spaces} \cup {FreshName}
  BY DEF Representatives
<1> HIDE DEF names, spaces
<1> QED  BY <1>1, <1>2, <1>3

LEMMA SpacesApart ==
    ASSUME NEW parts, Apart(parts)
    PROVE  Spaces(parts) \subseteq DOMAIN Generic
<1>1. \A n \in Mentioned(parts) : NamespaceOf[n] \in DOMAIN Generic
  BY DEF Mentioned, Apart
<1>2. "" \in DOMAIN Generic
  BY GenericAssumption
<1>3. \A q \in parts : q.term.kind = "wildcard" => q.term.wildcard.namespaces \subseteq DOMAIN Generic
  BY DEF Apart
<1> QED  BY <1>1, <1>2, <1>3 DEF Spaces

LEMMA StandInFacts ==
    ASSUME NEW parts, Apart(parts), NEW n
    PROVE  /\ StandIn(n, parts) \in Representatives(parts)
           /\ StandIn(n, parts) = n \/ StandIn(n, parts) \in MadeUp
<1>1. Spaces(parts) \subseteq DOMAIN Generic
  BY SpacesApart
<1> QED  BY <1>1, RepresentativesAre DEF StandIn, MadeUp

LEMMA StandInAdmitted ==
    ASSUME NEW parts, Apart(parts), NEW q \in parts, q.term.kind = "wildcard", NEW n
    PROVE  AllowsName(q.term.wildcard, n) <=> AllowsName(q.term.wildcard, StandIn(n, parts))
<1> DEFINE w == q.term.wildcard
           s == StandIn(n, parts)
<1>1. /\ w \in Wildcard /\ w.notQName \cap MadeUp = {} /\ w.namespaces \subseteq DOMAIN Generic
  BY DEF Apart
<1>2. w.notQName \subseteq Mentioned(parts) /\ w.namespaces \subseteq Spaces(parts)
  BY DEF Mentioned, Spaces
<1>3. Spaces(parts) \subseteq DOMAIN Generic
  BY SpacesApart
<1>4. CASE s = n
  BY <1>4
<1>5. CASE s # n
  <2>1. n \notin Mentioned(parts) /\ s \in MadeUp
    BY <1>5, StandInFacts DEF StandIn
  <2>2. n \notin w.notQName /\ s \notin w.notQName
    BY <1>1, <1>2, <2>1
  <2>3. NamespaceOf[n] \in w.namespaces <=> NamespaceOf[s] \in w.namespaces
    <3>1. CASE NamespaceOf[n] \in Spaces(parts)
      <4>1. s = Generic[NamespaceOf[n]] /\ NamespaceOf[n] \in DOMAIN Generic
        BY <1>3, <2>1, <3>1 DEF StandIn
      <4> QED  BY <4>1, GenericAssumption
    <3>2. CASE NamespaceOf[n] \notin Spaces(parts)
      <4>1. s = FreshName /\ NamespaceOf[s] \notin DOMAIN Generic
        BY <2>1, <3>2, GenericAssumption DEF StandIn
      <4> QED  BY <1>1, <1>2, <3>2, <4>1
    <3> QED  BY <3>1, <3>2
  <2>4. AllowsNamespace(w, NamespaceOf[n]) <=> AllowsNamespace(w, NamespaceOf[s])
    <3>1. w.mode \in {"any", "enumeration", "not"}
      BY <1>1 DEF Wildcard
    <3> HIDE DEF w, s
    <3> QED  BY <2>3, <3>1 DEF AllowsNamespace
  <2> QED  BY <2>2, <2>4 DEF AllowsName
<1> QED  BY <1>4, <1>5

(* The particles of the two sides of a restriction.                        *)
Both(b, run) == ToSet(b.term.particles) \cup ToSet(run.parts)

LEMMA LeavesApart ==
    ASSUME NEW p, NamesApart(p), NEW q, q.term \in LeafTerm, q.term \in Leaves[p]
    PROVE  Apart({q})
<1>1. /\ q.term.kind = "element" => q.term.decl \in ElementsOf(p)
      /\ q.term.kind = "wildcard" => q.term.wildcard \in WildcardsOf(p) /\ q.term.wildcard \in Wildcard
  BY LeafKinds, LeafFacts
<1> QED  BY <1>1 DEF NamesApart, Apart

LEMMA BothApart ==
    ASSUME NEW b \in Particles, Flat(b), NamesApart(b), NEW r, NamesApart(r), NEW run, IsRun(run), LeavesIn(run, r)
    PROVE  Apart(Both(b, run))
<1>1. ASSUME NEW q \in ToSet(b.term.particles) PROVE Apart({q})
  <2>1. PICK i \in DOMAIN b.term.particles : q = b.term.particles[i]
    <3>1. b.term.particles \in Seq(Particles)
      BY FlatShape
    <3> QED  BY <3>1, MemberOfSeq
  <2> QED  BY <2>1, FlatLeaves, LeavesApart
<1>2. ASSUME NEW q \in ToSet(run.parts) PROVE Apart({q})
  <2>1. PICK i \in DOMAIN run.parts : q = run.parts[i]
    BY MemberOfSeq DEF IsRun
  <2>2. q \in Particles /\ IsLeaf(q.term) /\ q.term \in Leaves[r]
    BY <2>1 DEF IsRun, LeavesIn
  <2> QED  BY <2>2, LeafMember, LeavesApart
<1>3. \A q \in Both(b, run) : Apart({q})
  BY <1>1, <1>2 DEF Both
<1> QED  BY <1>3 DEF Apart

(* Where the regions decide, each name a particle of the run may bring is  *)
(* in one region, and nothing is reported for a region.                    *)
Reps(b, run)      == Representatives(Both(b, run))
RegionOf(b, run, i) == Region(b.term.particles[i], Reps(b, run))

Separate(b, run) ==
    \A i, j \in DOMAIN b.term.particles : i # j => RegionOf(b, run, i) \cap RegionOf(b, run, j) = {}

RegionsDecide(b, run) ==
    RegionRun(Run(b.term.particles, b), run) = {} /\ ~HasSentinel(run.parts) /\ Separate(b, run)

LEMMA RegionDecided ==
    ASSUME NEW b, b.term.particles \in Seq(Particles), NEW run, run.parts \in Seq(Particles), RegionsDecide(b, run)
    PROVE  /\ \A k \in DOMAIN run.parts : \/ MaxIn(run.top, run.parts[k]) = 0
                                          \/ \A n \in Part(run.parts[k], Reps(b, run)) :
                                               \E i \in DOMAIN b.term.particles : n \in RegionOf(b, run, i)
           /\ \A i \in DOMAIN b.term.particles :
                RegionCardinality(Run(b.term.particles, b), run, RegionOf(b, run, i), b.term.particles[i], Reps(b, run)) = {}
<1> DEFINE ps == b.term.particles
           bs == Run(ps, b)
           reps == Representatives(ToSet(bs.parts) \cup ToSet(run.parts))
           regions == [i \in DOMAIN bs.parts |-> Region(bs.parts[i], reps)]
           NSCompat(q) == MaxIn(run.top, q) = 0 \/ Part(q, reps) \subseteq UNION ToSet(regions)
           Disjoint == \A i, j \in DOMAIN regions : i # j => regions[i] \cap regions[j] = {}
           Cards == UNION {RegionCardinality(bs, run, regions[i], bs.parts[i], reps) : i \in DOMAIN bs.parts}
<1>1. bs.parts = ps
  BY DEF Run
<1>2. reps = Reps(b, run)
  BY <1>1 DEF Reps, Both
<1>3. RegionRun(bs, run) =
        IF HasSentinel(run.parts) THEN {}
        ELSE (IF \E q \in ToSet(run.parts) : ~NSCompat(q) THEN {"not allowed"} ELSE {})
             \cup IF ~Disjoint THEN {} ELSE RegionNameType(bs, run) \cup Cards
  BY DEF RegionRun
<1>4. DOMAIN regions = DOMAIN ps /\ \A i \in DOMAIN ps : regions[i] = RegionOf(b, run, i)
  <2> HIDE DEF ps, bs, reps
  <2> QED  BY <1>1, <1>2 DEF RegionOf, ps
<1>5. Disjoint
  <2> HIDE DEF regions
  <2> QED  BY <1>4 DEF RegionsDecide, Separate
<1>6. ToSet(regions) = {RegionOf(b, run, i) : i \in DOMAIN ps}
  <2>1. ToSet(regions) = {regions[i] : i \in DOMAIN regions}
    <3> HIDE DEF regions
    <3> QED  BY DEF ToSet
  <2> HIDE DEF regions
  <2> QED  BY <1>4, <2>1
<1> HIDE DEF Disjoint, Cards
<1>7. (\A q \in ToSet(run.parts) : NSCompat(q)) /\ Cards = {}
  BY <1>3, <1>5 DEF RegionsDecide
<1>8. ASSUME NEW k \in DOMAIN run.parts, MaxIn(run.top, run.parts[k]) # 0, NEW n \in Part(run.parts[k], reps)
      PROVE  \E i \in DOMAIN ps : n \in RegionOf(b, run, i)
  <2>1. run.parts[k] \in ToSet(run.parts)
    BY MemberOfSeq
  <2>2. n \in UNION ToSet(regions)
    BY <1>7, <1>8, <2>1
  <2> HIDE DEF regions, ps
  <2> QED  BY <1>6, <2>2
<1>9. ASSUME NEW i \in DOMAIN ps PROVE RegionCardinality(bs, run, RegionOf(b, run, i), ps[i], reps) = {}
  <2>1. RegionCardinality(bs, run, regions[i], bs.parts[i], reps) = {}
    <3> HIDE DEF regions, reps
    <3> QED  BY <1>1, <1>7 DEF Cards
  <2> HIDE DEF regions, reps, bs, ps
  <2> QED  BY <1>1, <1>4, <2>1
<1> HIDE DEF regions, NSCompat
<1> QED  BY <1>2, <1>8, <1>9

(* The name that decides which region a child is counted in.               *)
CountedAs(q, n, parts) == IF q.term.kind = "element" THEN q.term.decl.name ELSE StandIn(n, parts)

LEMMA CountedFacts ==
    ASSUME NEW parts, Apart(parts), NEW q \in parts, q.term.kind \in {"element", "wildcard"}, NEW n, TakesName(q.term, n)
    PROVE  CountedAs(q, n, parts) \in Part(q, Representatives(parts))
<1>1. CASE q.term.kind = "element"
  <2>1. q.term.decl.name \in Mentioned(parts)
    BY <1>1 DEF Mentioned
  <2> QED  BY <1>1, <2>1, RepresentativesAre DEF CountedAs, Part
<1>2. CASE q.term.kind = "wildcard"
  <2>1. AllowsName(q.term.wildcard, n)
    BY <1>2 DEF TakesName
  <2>2. AllowsName(q.term.wildcard, StandIn(n, parts))
    BY <1>2, <2>1, StandInAdmitted
  <2> QED  BY <1>2, <2>2, StandInFacts DEF CountedAs, Part
<1> QED  BY <1>1, <1>2

LEMMA RegionTakes ==
    ASSUME NEW b \in Particles, Flat(b), NEW r, NEW run, Apart(Both(b, run)), ManyWildcards(b), KeepsNames(r, b), Separate(b, run),
           NEW q \in ToSet(run.parts), q.term \in LeafTerm, q.term \in Leaves[r], NEW n \in Name, TakesName(q.term, n),
           NEW i \in DOMAIN b.term.particles, CountedAs(q, n, Both(b, run)) \in RegionOf(b, run, i)
    PROVE  TakesName(b.term.particles[i].term, n)
<1> DEFINE ps == b.term.particles
           parts == Both(b, run)
           s == CountedAs(q, n, parts)
           p == ps[i]
<1>1. \A j \in DOMAIN ps : ps[j].term \in LeafTerm /\ ps[j].term \in Leaves[b] /\ ps[j] \in parts
  <2>1. ps \in Seq(Particles)
    BY FlatShape
  <2>2. \A j \in DOMAIN ps : ps[j] \in ToSet(ps)
    BY <2>1, MemberOfSeq
  <2> QED  BY <2>2, FlatLeaves DEF Both
<1>2. /\ p.term.kind = "element" => p.term.decl \in ElementsOf(b)
      /\ p.term.kind = "element" \/ p.term.kind = "wildcard"
  BY <1>1, LeafKinds, LeafFacts
<1>3. s \in Reps(b, run) /\ IF p.term.kind = "element" THEN s \in Accepted(p.term.decl) ELSE AllowsName(p.term.wildcard, s)
  BY DEF RegionOf, Region
<1>4. q \in parts
  BY DEF Both
<1>5. CASE q.term.kind = "element"
  <2> DEFINE d == q.term.decl
  <2>1. s = d.name /\ d \in ElementsOf(r) /\ AcceptElement(d, n) # {}
    BY <1>5, LeafKinds DEF CountedAs, TakesName
  <2>2. CASE p.term.kind = "element"
    <3> HIDE DEF p, s, d, parts
    <3>1. p.term.decl \in ElementsOf(b) /\ d.name \in Accepted(p.term.decl)
      BY <1>2, <1>3, <2>1, <2>2
    <3>2. AcceptElement(p.term.decl, n) # {}
      BY <2>1, <3>1 DEF KeepsNames
    <3> QED  BY <2>2, <3>2 DEF TakesName, p
  <2>3. CASE p.term.kind = "wildcard"
    <3>1. d.name \notin UNION {Accepted(e) : e \in ElementsOf(b)}
      <4> SUFFICES ASSUME NEW e \in ElementsOf(b), d.name \in Accepted(e) PROVE FALSE
        OBVIOUS
      <4>1. PICK j \in DOMAIN ps : ps[j].term.kind = "element" /\ ps[j].term.decl = e
        BY FlatLeaves
      <4>2. s \in RegionOf(b, run, j)
        <5> HIDE DEF s, d
        <5> QED  BY <1>3, <2>1, <4>1 DEF RegionOf, Region
      <4>3. j # i
        BY <2>3, <4>1
      <4> QED  BY <4>2, <4>3 DEF Separate
    <3>2. n = d.name
      <4> HIDE DEF d
      <4> QED  BY <2>1, <3>1 DEF KeepsNames
    <3> HIDE DEF s, d, p
    <3>3. AllowsName(p.term.wildcard, n)
      BY <1>3, <2>1, <2>3, <3>2
    <3> QED  BY <2>3, <3>3 DEF TakesName, p
  <2> QED  BY <1>2, <2>2, <2>3
<1>6. CASE q.term.kind = "wildcard"
  <2>1. s = StandIn(n, parts) /\ q.term.wildcard \in WildcardsOf(r) /\ AllowsName(q.term.wildcard, n)
    BY <1>6, LeafKinds DEF CountedAs, TakesName
  <2>2. CASE p.term.kind = "element"
    <3>1. s \in Accepted(p.term.decl) /\ p \in parts
      BY <1>1, <1>3, <2>2
    <3>2. s \notin MadeUp
      <4> HIDE DEF s, p, parts
      <4> QED  BY <2>2, <3>1 DEF Apart, parts
    <3>3. s = n
      BY <2>1, <3>2, StandInFacts
    <3>4. AcceptElement(p.term.decl, n) # {}
      <4> HIDE DEF s, p, parts
      <4> QED  BY <1>2, <2>1, <2>2, <3>1, <3>3 DEF KeepsNames
    <3> QED  BY <2>2, <3>4 DEF TakesName
  <2>3. CASE p.term.kind = "wildcard"
    <3>1. AllowsName(p.term.wildcard, s) /\ p \in parts
      BY <1>1, <1>3, <2>3
    <3>2. AllowsName(p.term.wildcard, n)
      <4> HIDE DEF p, parts
      <4>1. AllowsName(p.term.wildcard, n) <=> AllowsName(p.term.wildcard, StandIn(n, parts))
        BY <2>3, <3>1, StandInAdmitted DEF parts
      <4> HIDE DEF s
      <4> QED  BY <2>1, <3>1, <4>1
    <3> QED  BY <2>3, <3>2 DEF TakesName
  <2> QED  BY <1>2, <2>2, <2>3
<1> QED  BY <1>5, <1>6, LeafFacts

SurelyFrom(b, run, i) == {k \in DOMAIN run.parts : SurelyIn(Part(run.parts[k], Reps(b, run)), RegionOf(b, run, i))}
MaybeFrom(b, run, i)  == {k \in DOMAIN run.parts : Part(run.parts[k], Reps(b, run)) \cap RegionOf(b, run, i) # {}}

LEMMA RegionInRange ==
    ASSUME NEW b \in Particles, Flat(b), IsOnce(b), NEW run, NEW i \in DOMAIN b.term.particles,
           RegionCardinality(Run(b.term.particles, b), run, RegionOf(b, run, i), b.term.particles[i], Reps(b, run)) = {},
           Total(Minima(run), SurelyFrom(b, run, i)) \in Nat
    PROVE  InRange(b.term.particles[i], Minima(run), Maxima(run), SurelyFrom(b, run, i), MaybeFrom(b, run, i))
<1> DEFINE bs == Run(b.term.particles, b)
           slot == b.term.particles[i]
           lo == Total(Minima(run), SurelyFrom(b, run, i))
           hi == Total(Maxima(run), MaybeFrom(b, run, i))
<1>1. bs.top = b /\ slot.min \in Nat /\ slot.max \in Nat \cup {Unbounded}
  <2>1. slot.min \in Nat /\ slot.max \in Nat \cup {Unbounded}
    BY FlatShape, PartFacts
  <2> QED  BY <2>1 DEF Run
<1>2. MinIn(bs.top, slot) = slot.min /\ MaxIn(bs.top, slot) = slot.max
  BY <1>1, OnceFactor DEF MinIn, MaxIn, IsOnce
<1>3. RegionCardinality(bs, run, RegionOf(b, run, i), slot, Reps(b, run)) =
        (IF lo < MinIn(bs.top, slot) THEN {"fewer"} ELSE {}) \cup (IF OccLE(hi, MaxIn(bs.top, slot)) THEN {} ELSE {"more"})
  BY DEF RegionCardinality, SurelyFrom, MaybeFrom
<1> HIDE DEF bs, slot, lo, hi
<1>4. ~(lo < slot.min) /\ OccLE(hi, slot.max)
  BY <1>2, <1>3 DEF bs, slot
<1>5. slot.min <= lo
  BY <1>1, <1>4 DEF lo
<1> QED  BY <1>4, <1>5 DEF InRange, slot, lo, hi

LEMMA RegionWanted ==
    ASSUME NEW b \in Particles, Flat(b), IsOnce(b), Plain(b), NamesApart(b), ManyWildcards(b),
           NEW r \in Particles, Plain(r), NamesApart(r), KeepsNames(r, b),
           NEW run, IsRun(run), LeavesIn(run, r), RegionsDecide(b, run), NEW m, NEW w \in Seq(Name), RunPlaced(m, run, w)
    PROVE  \E g : Wanted(m, b.term.particles, w, g)
<1> DEFINE ps == b.term.particles
           rs == run.parts
           L == Len(w)
           counted(k, f) == CountedAs(rs[f[k]], w[k], Both(b, run))
           region(n) == CHOOSE i \in DOMAIN ps : n \in RegionOf(b, run, i)
<1>1. PICK f : PlacedBy(m, rs, w, f, Minima(run), Maxima(run))
  BY DEF RunPlaced, Placed
<1>2. Apart(Both(b, run)) /\ Separate(b, run)
  BY BothApart DEF RegionsDecide
<1>3. f \in [1..L -> DOMAIN rs] /\ Suit(m, rs, w, f)
  BY <1>1 DEF PlacedBy
<1>4. L \in Nat /\ \A k \in 1..L : w[k] \in Name
  BY MemberOfSeq, EmptyIsZero
<1>5. ps \in Seq(Particles) /\ rs \in Seq(Particles)
  BY FlatShape DEF IsRun
<1> DEFINE N == Len(rs)
           lo == Minima(run)
           hi == Maxima(run)
<1>6. N \in Nat /\ lo \in [1..N -> Nat] /\ hi \in [1..N -> Nat \cup {Unbounded}] /\ DOMAIN rs = 1..N
  BY RunBounds
<1>7. \A j \in 1..N : lo[j] <= Cardinality(OfMember(L, f, j)) /\ Within(Cardinality(OfMember(L, f, j)), hi[j])
  BY <1>1, <1>6 DEF PlacedBy
<1>8. ASSUME NEW k \in 1..L PROVE hi[f[k]] # 0
  <2>1. f[k] \in 1..N
    BY <1>3, <1>6
  <2>2. k \in OfMember(L, f, f[k])
    BY DEF OfMember
  <2>3. IsFiniteSet(OfMember(L, f, f[k]))
    <3>1. IsFiniteSet(1..L)
      BY <1>4, FS_Interval
    <3> HIDE DEF L
    <3> QED  BY <3>1, FS_Subset DEF OfMember
  <2>4. Cardinality(OfMember(L, f, f[k])) \in Nat /\ Cardinality(OfMember(L, f, f[k])) # 0
    <3> DEFINE S == OfMember(L, f, f[k])
    <3>1. k \in S /\ IsFiniteSet(S)
      BY <2>2, <2>3
    <3> HIDE DEF S
    <3> QED  BY <3>1, FS_CardinalityType, FS_EmptySet DEF S
  <2> HIDE DEF hi, lo, N, L
  <2> QED  BY <1>7, <2>1, <2>4 DEF Within, Unbounded
<1>9. ASSUME NEW k \in 1..L
      PROVE  /\ counted(k, f) \in Part(rs[f[k]], Reps(b, run))
             /\ region(counted(k, f)) \in DOMAIN ps /\ counted(k, f) \in RegionOf(b, run, region(counted(k, f)))
             /\ TakesName(ps[region(counted(k, f))].term, w[k])
  <2> DEFINE q == rs[f[k]]
             n == w[k]
             s == counted(k, f)
             i == region(s)
  <2>1. f[k] \in DOMAIN rs
    BY <1>3
  <2>2. q \in Particles /\ IsLeaf(q.term) /\ q.term \in Leaves[r] /\ q \in ToSet(rs)
    BY <1>5, <2>1, MemberOfSeq DEF IsRun, LeavesIn
  <2>3. q.term \in LeafTerm /\ q.term.kind \in {"element", "wildcard"} /\ q \in Both(b, run)
    BY <2>2, LeafMember, LeafFacts DEF Both
  <2>4. n \in Name /\ Accept(m, q.term, n) # {}
    BY <1>3, <1>4 DEF Suit
  <2>5. TakesName(q.term, n)
    <3> HIDE DEF q, n
    <3> QED  BY <2>2, <2>4, PlainTakes
  <2>6. s = CountedAs(q, n, Both(b, run))
    OBVIOUS
  <2> HIDE DEF q, n, s, i
  <2>7. s \in Part(q, Reps(b, run))
    BY <1>2, <2>3, <2>5, <2>6, CountedFacts DEF Reps
  <2>8. \E j \in DOMAIN ps : s \in RegionOf(b, run, j)
    <3>1. MaxIn(run.top, q) = hi[f[k]]
      BY <2>1 DEF Maxima, q
    <3>2. MaxIn(run.top, q) # 0
      BY <1>8, <3>1
    <3>3. \A x \in Part(q, Reps(b, run)) : \E j \in DOMAIN ps : x \in RegionOf(b, run, j)
      <4>1. \/ MaxIn(run.top, rs[f[k]]) = 0
            \/ \A x \in Part(rs[f[k]], Reps(b, run)) : \E j \in DOMAIN ps : x \in RegionOf(b, run, j)
        BY <1>5, <2>1, RegionDecided
      <4> QED  BY <3>2, <4>1 DEF q
    <3> QED  BY <2>7, <3>3
  <2>9. i \in DOMAIN ps /\ s \in RegionOf(b, run, i)
    BY <2>8 DEF i
  <2>10. TakesName(ps[i].term, n)
    BY <1>2, <2>2, <2>3, <2>4, <2>5, <2>6, <2>9, RegionTakes
  <2> QED  BY <2>7, <2>9, <2>10 DEF i, s, n, q
<1> DEFINE g == [k \in 1..L |-> region(counted(k, f))]
<1>10. g \in [1..L -> DOMAIN ps] /\ \A k \in 1..L : TakesName(ps[g[k]].term, w[k])
  <2> HIDE DEF region, counted, ps
  <2> QED  BY <1>9
<1>11. \A k \in 1..L : /\ g[k] = region(counted(k, f)) /\ counted(k, f) \in Part(rs[f[k]], Reps(b, run))
                       /\ g[k] \in DOMAIN ps /\ counted(k, f) \in RegionOf(b, run, g[k])
  <2> HIDE DEF region, counted, ps, rs
  <2> QED  BY <1>9
<1>12. Regiven(b, run, L, f, g)
  <2> DEFINE lower == [i \in DOMAIN ps |-> SurelyFrom(b, run, i)]
             upper == [i \in DOMAIN ps |-> MaybeFrom(b, run, i)]
  <2>1. ASSUME NEW i \in DOMAIN ps
        PROVE  InRange(ps[i], Minima(run), Maxima(run), lower[i], upper[i]) /\ Between(L, f, g, i, lower[i], upper[i])
    <3>1. lower[i] = SurelyFrom(b, run, i) /\ upper[i] = MaybeFrom(b, run, i)
      OBVIOUS
    <3>2. Between(L, f, g, i, SurelyFrom(b, run, i), MaybeFrom(b, run, i))
      <4> SUFFICES ASSUME NEW k \in 1..L
                   PROVE  (f[k] \in SurelyFrom(b, run, i) => g[k] = i) /\ (g[k] = i => f[k] \in MaybeFrom(b, run, i))
        BY DEF Between
      <4> DEFINE s == counted(k, f)
      <4>1. s \in Part(rs[f[k]], Reps(b, run)) /\ g[k] \in DOMAIN ps /\ s \in RegionOf(b, run, g[k]) /\ f[k] \in DOMAIN rs
        <5> HIDE DEF counted, region, g
        <5> QED  BY <1>3, <1>11
      <4> HIDE DEF counted, region, g
      <4>2. ASSUME f[k] \in SurelyFrom(b, run, i) PROVE g[k] = i
        <5>1. s \in RegionOf(b, run, i)
          BY <4>1, <4>2 DEF SurelyFrom, SurelyIn
        <5> QED  BY <1>2, <4>1, <5>1 DEF Separate
      <4>3. ASSUME g[k] = i PROVE f[k] \in MaybeFrom(b, run, i)
        BY <4>1, <4>3 DEF MaybeFrom
      <4> QED  BY <4>2, <4>3
    <3>3. Total(Minima(run), SurelyFrom(b, run, i)) \in Nat
      <4> DEFINE S == SurelyFrom(b, run, i)
      <4>1. f \in [1..L -> 1..N]
        BY <1>3, <1>6
      <4> HIDE DEF lo, hi, S, N, L
      <4>2. Total(lo, S) \in Nat
        BY <1>4, <1>6, <1>7, <4>1, SumBounds
      <4> QED  BY <4>2 DEF lo, S
    <3>4. RegionCardinality(Run(ps, b), run, RegionOf(b, run, i), ps[i], Reps(b, run)) = {}
      BY <1>5, RegionDecided
    <3>5. InRange(ps[i], Minima(run), Maxima(run), SurelyFrom(b, run, i), MaybeFrom(b, run, i))
      BY <3>3, <3>4, RegionInRange
    <3> HIDE DEF lower, upper, g, L, ps
    <3> QED  BY <3>1, <3>2, <3>5
  <2> HIDE DEF lower, upper, g, L
  <2> QED  BY <2>1 DEF Regiven
<1> HIDE DEF g
<1>13. Wanted(m, ps, w, g)
  BY <1>1, <1>10, <1>12, RegivenWanted
<1> QED  BY <1>13

(* A restriction the relation decides and finds nothing amiss with accepts *)
(* no children the base does not accept in some order.                     *)
LEMMA RestrictionAccepts ==
    ASSUME NEW r \in Particles, NEW b \in Particles, Decided(r, b), ParticleRestrict(r, b) = {}, IsOnce(b),
           Plain(r), Plain(b), KeepsNames(r, b), NamesApart(r), NamesApart(b),
           NEW m, NEW w \in Seq(Name), RunsFrom(m)[Unfolded[r]][w] # {}
    PROVE  AcceptsSome(m, b, w)
<1> DEFINE bs == Run(b.term.particles, b)
           OfRun(run) == IF ManyWildcards(b) THEN RegionRun(bs, run)
                         ELSE SlotRun(bs, run) \cup IF b.term.kind = "all" THEN Shadow(bs, run) ELSE {}
           reps(run) == Representatives(ToSet(bs.parts) \cup ToSet(run.parts))
<1>1. bs.parts = b.term.particles
  BY DEF Run
<1>2. /\ Flat(b) /\ RestrictionRuns(r) # {} /\ r # NoParticle /\ b # NoParticle
      /\ \A run \in RestrictionRuns(r) :
           IF ~ManyWildcards(b) THEN \A q \in ToSet(run.parts) : ~Ambiguous(bs, q)
           ELSE /\ ~HasSentinel(bs.parts) /\ ~HasSentinel(run.parts)
                /\ \A i, j \in DOMAIN bs.parts :
                     i # j => Region(bs.parts[i], reps(run)) \cap Region(bs.parts[j], reps(run)) = {}
  BY DEF Decided
<1>3. PICK run \in RestrictionRuns(r) : RunPlaced(m, run, w)
  BY <1>2, RestrictionPlaced
<1>4. IsRun(run) /\ LeavesIn(run, r)
  BY RunShape
<1>5. ParticleRestrict(r, b) = IF r = NoParticle \/ b = NoParticle \/ ~Flat(b) THEN {}
                               ELSE IF ManyWildcards(b) /\ HasSentinel(bs.parts) THEN {}
                               ELSE UNION {OfRun(x) : x \in RestrictionRuns(r)}
  BY DEF ParticleRestrict
<1> HIDE DEF OfRun
<1>6. OfRun(run) = {}
  <2>1. ~(ManyWildcards(b) /\ HasSentinel(bs.parts))
    BY <1>2
  <2> QED  BY <1>2, <1>5, <2>1
<1>7. \E g : Wanted(m, b.term.particles, w, g)
  <2>1. CASE ~ManyWildcards(b)
    <3>1. SlotRun(bs, run) = {}
      BY <1>6, <2>1 DEF OfRun
    <3>2. SlotsDecide(b, run)
      BY <1>2, <2>1, <3>1 DEF SlotsDecide
    <3> HIDE DEF bs
    <3> QED  BY <1>2, <1>3, <1>4, <3>2, SlotWanted
  <2>2. CASE ManyWildcards(b)
    <3>1. RegionRun(bs, run) = {}
      BY <1>6, <2>2 DEF OfRun
    <3>2. Separate(b, run)
      <4>1. reps(run) = Reps(b, run)
        BY <1>1 DEF Reps, Both
      <4>2. \A i, j \in DOMAIN bs.parts : i # j => Region(bs.parts[i], reps(run)) \cap Region(bs.parts[j], reps(run)) = {}
        BY <1>2, <2>2
      <4> HIDE DEF bs, reps
      <4> QED  BY <1>1, <4>1, <4>2 DEF Separate, RegionOf
    <3>3. ~HasSentinel(run.parts)
      BY <1>2, <2>2
    <3>4. RegionsDecide(b, run)
      BY <3>1, <3>2, <3>3 DEF RegionsDecide
    <3> HIDE DEF bs
    <3> QED  BY <1>2, <1>3, <1>4, <2>2, <3>4, RegionWanted
  <2> QED  BY <2>1, <2>2
<1>8. PICK g : Wanted(m, b.term.particles, w, g)
  BY <1>7
<1>9. Flat(b)
  BY <1>2
<1> HIDE DEF bs, reps
<1> QED  BY <1>8, <1>9, FlatAccepts

LEMMA NotNothing ==
    ASSUME NEW p \in Particles
    PROVE  p # NoParticle
  BY ParticleShape, LeafFacts DEF NoParticle, Particle, Referred, IsGroup

LEMMA ClosedContent ==
    ASSUME NEW c, c.particle \in Particles, c.open = NoOpen, NEW w \in Seq(Name)
    PROVE  Accepts(c, w) <=> RunsFrom(MatcherOf(c, w))[Unfolded[c.particle]][w] # {}
<1> DEFINE m == MatcherOf(c, w)
<1>1. m.particle = Unfolded[c.particle] /\ m.children = w /\ m.open.mode = "none"
  <2>1. c.particle # NoParticle
    BY NotNothing
  <2>2. Effective(NoOpen).mode = "none"
    BY DEF Effective, NoOpen, Closed
  <2> QED  BY <2>1, <2>2 DEF MatcherOf, Matcher, Expanded
<1>2. IsMatcher(m)
  BY <1>1, UnfoldedFacts DEF IsMatcher
<1>3. Accepts(c, w) <=> Match(m).ok
  BY DEF Accepts, Matching
<1>4. Runs(m) = RunsFrom(m)[m.particle]
  BY RunsUnfold
<1> HIDE DEF m
<1>5. Match(m).ok <=> Runs(m)[m.children] # {}
  BY <1>1, <1>2, ClosedAccepts
<1> QED  BY <1>1, <1>3, <1>4, <1>5 DEF m

(* Children a type accepts, its base accepts in some order, when the       *)
(* relation between their particles decides and reports nothing.           *)
THEOREM RestrictionIsNarrower ==
    ASSUME NEW c, NEW b, c.particle \in Particles, b.particle \in Particles, c.open = NoOpen, b.open = NoOpen,
           Decided(c.particle, b.particle), ParticleRestrict(c.particle, b.particle) = {}, IsOnce(b.particle),
           NoKeywords(c), NoKeywords(b), KeepsNames(c.particle, b.particle),
           NamesApart(c.particle), NamesApart(b.particle), NEW w \in Seq(Name), Accepts(c, w)
    PROVE  \E v \in Reorderings(w) : Accepts(b, v)
<1> DEFINE p == c.particle
           q == b.particle
           m == MatcherOf(c, w)
<1>1. RunsFrom(m)[Unfolded[p]][w] # {}
  BY ClosedContent
<1>2. RestrictionRuns(p) # {} /\ Flat(q) /\ p # NoParticle /\ q # NoParticle
  BY DEF Decided
<1>3. Unfolded[p] = p
  <2> HIDE DEF p, m
  <2> QED  BY <1>1, <1>2, RestrictionPlaced DEF p
<1>4. Unfolded[q] = q
  BY <1>2, FlatShape
<1>5. Plain(p) /\ Plain(q)
  BY <1>2, <1>3, <1>4 DEF NoKeywords, Plain, Expanded
<1> HIDE DEF m
<1>6. PICK v \in Reorderings(w) : v \in Seq(Name) /\ RunsFrom(m)[q][v] # {}
  <2> HIDE DEF p, q
  <2>1. AcceptsSome(m, q, w)
    BY <1>1, <1>5, RestrictionAccepts DEF p, q
  <2> QED  BY <2>1 DEF AcceptsSome
<1>7. RunsFrom(m)[Unfolded[q]] = RunsFrom(MatcherOf(b, v))[Unfolded[q]]
  <2>1. ASSUME NEW t \in Leaves[Unfolded[q]] PROVE SameTaking(m, MatcherOf(b, v), t)
    <3>1. t \in LeafTerm
      BY <1>4, LeavesAreTerms
    <3>2. t.kind = "wildcard" => t.wildcard.keywords = {}
      BY <1>4, <1>5, LeafKinds DEF Plain
    <3> HIDE DEF q
    <3> QED  BY <3>1, <3>2, SameLeaf
  <2>2. q \in Particles
    OBVIOUS
  <2> DEFINE m2 == MatcherOf(b, v)
  <2> HIDE DEF q, m2
  <2>3. \A t \in Leaves[Unfolded[q]] : SameTaking(m, m2, t)
    BY <2>1 DEF m2
  <2>4. RunsFrom(m)[Unfolded[q]] = RunsFrom(m2)[Unfolded[q]]
    BY <2>2, <2>3, SameRunsOf
  <2> QED  BY <2>4 DEF m2
<1>8. RunsFrom(MatcherOf(b, v))[Unfolded[q]][v] # {}
  BY <1>4, <1>6, <1>7
<1>9. Accepts(b, v)
  BY <1>6, <1>8, ClosedContent
<1> QED  BY <1>6, <1>9

(* What is built for a restriction, or a group redefined, and that what    *)
(* the relation finds is reported.                                         *)
Restricts(c) ==
    /\ declared.method = "restriction" => c = Content(own.particle, own.mixed, DeclaredOpen)
    /\ declared.method = "redefine" => c = Content(Particle(1, 1, own.particle.term), FALSE, NoOpen)

RestrictionBuilt ==
    /\ stage # "declared" => Restricts(content)
    /\ stage \in {"checked", "matched"} => RestrictionReports \subseteq reported

LEMMA InitRestriction == Init => RestrictionBuilt
  BY DEF Init, RestrictionBuilt

LEMMA NextRestriction == RestrictionBuilt /\ [Next]_vars => RestrictionBuilt'
<1> SUFFICES ASSUME RestrictionBuilt, [Next]_vars PROVE RestrictionBuilt'
  OBVIOUS
<1>1. ASSUME NEW c, NEW reports, Built(c, reports), Restricts(c)
      PROVE  RestrictionBuilt'
  <2>1. declared' = declared /\ stage' = "built" /\ content' = c
    BY <1>1 DEF Built
  <2>2. base' = base /\ own' = own
    BY <2>1 DEF base, own
  <2>3. Restricts(content)'
    BY <1>1, <2>1, <2>2 DEF Restricts, DeclaredOpen
  <2> QED  BY <2>1, <2>3 DEF RestrictionBuilt
<1>2. ASSUME declared.method \notin {"restriction", "redefine"}, NEW c PROVE Restricts(c)
  BY <1>2 DEF Restricts
<1>3. CASE BuildAlone
  <2>1. Restricts(Content(own.particle, own.mixed, DeclaredOpen))
    BY <1>3 DEF BuildAlone, Restricts
  <2> QED  BY <1>1, <1>3, <2>1 DEF BuildAlone
<1>4. CASE BuildFromSimple
  BY <1>1, <1>2, <1>4 DEF BuildFromSimple
<1>5. CASE RestrictToSimple
  BY <1>1, <1>2, <1>5 DEF RestrictToSimple
<1>6. CASE BuildExtension
  BY <1>1, <1>2, <1>6 DEF BuildExtension
<1>7. CASE BuildRedefined
  <2>1. Restricts(Content(Particle(1, 1, own.particle.term), FALSE, NoOpen))
    BY <1>7 DEF BuildRedefined, Restricts
  <2> QED  BY <1>1, <1>7, <2>1 DEF BuildRedefined
<1>8. ASSUME declared' = declared, content' = content PROVE Restricts(content)' = Restricts(content) /\ RestrictionReports' = RestrictionReports
  <2>1. base' = base /\ own' = own
    BY <1>8 DEF base, own
  <2> QED  BY <1>8, <2>1 DEF Restricts, DeclaredOpen, RestrictionReports
<1>9. CASE Check
  <2>1. declared' = declared /\ content' = content /\ stage # "declared"
    BY <1>9 DEF Check
  <2>2. RestrictionReports \subseteq reported'
    BY <1>9 DEF Check
  <2> QED  BY <1>8, <2>1, <2>2 DEF RestrictionBuilt
<1>10. ASSUME NEW w \in WordsFor(declared), MatchChildren(w) PROVE RestrictionBuilt'
  <2>1. declared' = declared /\ content' = content /\ reported' = reported /\ stage = "checked"
    BY <1>10 DEF MatchChildren
  <2> QED  BY <1>8, <2>1 DEF RestrictionBuilt
<1>11. CASE UNCHANGED vars
  <2>1. declared' = declared /\ content' = content /\ reported' = reported /\ stage' = stage
    BY <1>11 DEF vars
  <2> QED  BY <1>8, <2>1 DEF RestrictionBuilt
<1> QED  BY <1>3, <1>4, <1>5, <1>6, <1>7, <1>9, <1>10, <1>11 DEF Next

LEMMA SameNames ==
    ASSUME NEW p \in Particles, NEW q \in Particles, p.term = q.term, NamesApart(p)
    PROVE  NamesApart(q)
<1>1. Leaves[p] = LeavesStep(p, Leaves) /\ Leaves[q] = LeavesStep(q, Leaves)
  BY LeavesUnfold
<1>2. Leaves[p] = Leaves[q]
  BY <1>1 DEF LeavesStep, MembersOf
<1> QED  BY <1>2 DEF NamesApart, ElementsOf, WildcardsOf

(* The two particles the relation compared, and what it found.             *)
LEMMA Compared ==
    ASSUME IsDeclaration(declared), declared.method \in {"restriction", "redefine"}, Restricts(content),
           RestrictionReports = {}, Decided(content.particle, base.particle), IsOnce(base.particle),
           content.open = NoOpen, base.open = NoOpen
    PROVE  /\ content.particle \in Particles /\ base.particle \in Particles
           /\ ParticleRestrict(content.particle, base.particle) = {}
           /\ NamesApart(content.particle) /\ NamesApart(base.particle)
<1> DEFINE r == content.particle
           b == base.particle
<1>1. r # NoParticle /\ b # NoParticle
  BY DEF Decided
<1>2. b \in Particles /\ NamesApart(b)
  <2>1. b \in ParticlesTo[Depth - 1]
    BY <1>1, DeclaredFacts
  <2>2. b \in Particles
    BY <2>1, ShallowFacts
  <2> QED  BY <1>1, <2>2 DEF IsDeclaration, base
<1>3. b = Particle(1, 1, b.term)
  <2>1. b = [min |-> b.min, max |-> b.max, term |-> b.term]
    BY <1>2, ParticleShape
  <2> HIDE DEF b
  <2> QED  BY <2>1 DEF IsOnce, Particle, b
<1>4. ASSUME own.particle # NoParticle
      PROVE  /\ own.particle \in Particles /\ NamesApart(own.particle)
             /\ Particle(1, 1, own.particle.term) \in Particles
  <2>1. own.particle \in ParticlesTo[Depth - 1]
    BY <1>4, DeclaredFacts
  <2>2. own.particle \in Particles /\ Particle(1, 1, own.particle.term) \in Particles
    BY <2>1, ShallowFacts
  <2> QED  BY <1>4, <2>2 DEF IsDeclaration, own
<1>5. CASE declared.method = "restriction"
  <2>1. r = own.particle
    BY <1>5 DEF Restricts, Content
  <2>2. ParticleRestrict(r, b) = {}
    BY <1>5 DEF RestrictionReports
  <2> QED  BY <1>1, <1>2, <1>4, <2>1, <2>2
<1>6. CASE declared.method = "redefine"
  <2>1. r = Particle(1, 1, own.particle.term) /\ own.particle # NoParticle
    BY <1>6 DEF Restricts, Content, IsDeclaration, own
  <2>2. NamesApart(r) /\ r \in Particles
    <3>1. r \in Particles /\ r.term = own.particle.term
      BY <1>4, <2>1 DEF Particle
    <3> HIDE DEF r
    <3> QED  BY <1>4, <2>1, <3>1, SameNames
  <2>3. RedefineGroup(own.particle.term, b.term) = {}
    BY <1>6 DEF RestrictionReports
  <2>4. ParticleRestrict(Particle(1, 1, own.particle.term), Particle(1, 1, b.term)) = {}
    BY <2>3 DEF RedefineGroup
  <2> QED  BY <1>2, <1>3, <2>1, <2>2, <2>4
<1> QED  BY <1>5, <1>6

LEMMA RestrictionIsKept == Typed /\ Matches /\ RestrictionBuilt => AcceptedRestricts
<1> SUFFICES ASSUME Typed, Matches, RestrictionBuilt,
                    stage = "matched", declared.method \in {"restriction", "redefine"}, matched = "yes", reported = {},
                    Decided(content.particle, base.particle), IsOnce(base.particle),
                    content.open = NoOpen, base.open = NoOpen, NoKeywords(base), NoKeywords(content), NamesKept
             PROVE  \E w \in Reorderings(children) : Accepts(base, w)
  BY DEF AcceptedRestricts
<1>1. children \in Seq(Name) /\ Accepts(content, children)
  BY DEF Matches, Accepts
<1>2. IsDeclaration(declared)
  BY DEF Typed
<1>3. Restricts(content) /\ RestrictionReports = {}
  BY DEF RestrictionBuilt
<1>4. /\ content.particle \in Particles /\ base.particle \in Particles
      /\ ParticleRestrict(content.particle, base.particle) = {}
      /\ NamesApart(content.particle) /\ NamesApart(base.particle)
  BY <1>2, <1>3, Compared
<1>5. KeepsNames(content.particle, base.particle)
  BY DEF NamesKept, OnlyByWildcard, KeepsNames
<1> QED  BY <1>1, <1>4, <1>5, RestrictionIsNarrower

(* A restriction that is decided and not reported allows no children the   *)
(* base does not, the order aside (particleRestrictUnified).               *)
THEOREM RestrictionSound == Spec => []AcceptedRestricts
<1> DEFINE Inv == Typed /\ Matches /\ RestrictionBuilt
<1>1. Init => Inv
  BY InitTyped, InitRestriction
<1>2. Inv /\ [Next]_vars => Inv'
  BY NextTyped, NextRestriction
<1>3. Inv => AcceptedRestricts
  BY RestrictionIsKept
<1> QED  BY <1>1, <1>2, <1>3, PTL DEF Spec
=============================================================================
