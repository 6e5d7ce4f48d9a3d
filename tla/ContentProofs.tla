------------------------------ MODULE ContentProofs ------------------------------
(* The matcher is exact: for every content model (of any nesting, with any *)
(* occurrences), every sequence of children and every open content, its    *)
(* greedy search with backtracking accepts exactly what the language of    *)
(* the model contains, and the attributions it returns are a run of it.    *)
(* That an outcome of the search and a run of the language agree is shown  *)
(* for leaves, sequences, choices, all groups and repetition one by one,   *)
(* then for every particle by induction over its members.                  *)
(* The rest measures static decisions against that language: which models  *)
(* can be empty, and what an extension leaves of the base's content.       *)
EXTENDS ContentTypeRules, Induction, TLAPS

-----------------------------------------------------------------------------
(* The particles nested at most n deep exist, for every n.                 *)
TermsTo(n) == TermsOver(IF n = 0 THEN {} ELSE GroupsOf(ParticlesTo[n - 1]))

LEMMA ParticlesByDepth ==
    \A n \in Nat : ParticlesTo[n] = ParticlesOf(TermsTo(n))
<1> DEFINE Flat0 == ParticlesOf(TermsOver({}))
           Over(S) == ParticlesOf(TermsOver(GroupsOf(S)))
           Chain(c, n) == c = [k \in 0..n |-> c[k]] /\ c[0] = Flat0 /\ \A k \in 1..n : c[k] = Over(c[k - 1])
           S == {n \in Nat : \E c : Chain(c, n)}
<1> HIDE DEF Flat0, Over
<1>1. 0 \in S
  <2>1. Chain([k \in 0..0 |-> Flat0], 0)
    OBVIOUS
  <2> QED  BY <2>1
<1>2. ASSUME NEW n \in Nat, n \in S PROVE n + 1 \in S
  <2>1. PICK c : Chain(c, n)
    BY <1>2
  <2> DEFINE d == [k \in 0..(n + 1) |-> IF k = n + 1 THEN Over(c[n]) ELSE c[k]]
  <2>2. d[n + 1] = Over(c[n]) /\ \A k \in 0..n : d[k] = c[k]
    OBVIOUS
  <2>3. d = [k \in 0..(n + 1) |-> d[k]]
    OBVIOUS
  <2> HIDE DEF d
  <2>4. \A k \in 1..(n + 1) : d[k] = Over(d[k - 1])
    <3> SUFFICES ASSUME NEW k \in 1..(n + 1) PROVE d[k] = Over(d[k - 1])
      OBVIOUS
    <3>1. CASE k = n + 1
      BY <3>1, <2>2
    <3>2. CASE k \in 1..n
      <4>1. k - 1 \in 0..n /\ k \in 0..n
        BY <3>2
      <4> QED  BY <3>2, <4>1, <2>1, <2>2
    <3> QED  BY <3>1, <3>2
  <2>5. d[0] = Flat0
    BY <2>1, <2>2
  <2>6. \E e : Chain(e, n + 1)
    BY <2>3, <2>4, <2>5
  <2> HIDE DEF Chain
  <2> QED  BY <2>6
<1>3. Nat \subseteq S
  BY <1>1, <1>2, InductionOnNat
<1>4. ASSUME NEW n \in Nat, NEW m \in Nat, NEW c, NEW d, Chain(c, n), Chain(d, m)
      PROVE  \A k \in Nat : k <= n /\ k <= m => c[k] = d[k]
  <2> DEFINE T == {k \in Nat : k <= n /\ k <= m => c[k] = d[k]}
  <2>1. 0 \in T
    BY <1>4
  <2>2. ASSUME NEW k \in Nat, k \in T PROVE k + 1 \in T
    <3> SUFFICES ASSUME k + 1 <= n, k + 1 <= m PROVE c[k + 1] = d[k + 1]
      OBVIOUS
    <3>1. k + 1 \in 1..n /\ k + 1 \in 1..m /\ (k + 1) - 1 = k /\ c[k] = d[k]
      BY <2>2
    <3> QED  BY <3>1, <1>4
  <2>3. Nat \subseteq T
    BY <2>1, <2>2, InductionOnNat
  <2> QED  BY <2>3
<1> DEFINE C(n) == CHOOSE c : Chain(c, n)
           f == [n \in Nat |-> C(n)[n]]
<1>5. \A n \in Nat : Chain(C(n), n)
  BY <1>3
<1> HIDE DEF C
<1>6. f[0] = Flat0
  BY <1>5
<1>7. ASSUME NEW n \in Nat, n # 0 PROVE f[n] = Over(f[n - 1])
  <2>1. n - 1 \in Nat /\ n \in 1..n /\ n - 1 <= n /\ n - 1 <= n - 1
    BY <1>7
  <2>2. C(n)[n] = Over(C(n)[n - 1])
    BY <1>5, <2>1
  <2>3. C(n)[n - 1] = C(n - 1)[n - 1]
    <3>1. Chain(C(n), n) /\ Chain(C(n - 1), n - 1)
      BY <1>5, <2>1
    <3> HIDE DEF Chain
    <3> QED  BY <1>4, <2>1, <3>1
  <2> QED  BY <2>1, <2>2, <2>3
<1> HIDE DEF f, Chain
<1>8. \A n \in Nat : f[n] = ParticlesOf(TermsOver(IF n = 0 THEN {} ELSE GroupsOf(f[n - 1])))
  BY <1>6, <1>7 DEF Flat0, Over
<1>9. f = [n \in Nat |-> ParticlesOf(TermsOver(IF n = 0 THEN {} ELSE GroupsOf(f[n - 1])))]
  <2>1. f = [n \in Nat |-> f[n]]
    BY DEF f
  <2> QED  BY <2>1, <1>8
<1> DEFINE IsTo(g) == g = [n \in Nat |-> ParticlesOf(TermsOver(IF n = 0 THEN {} ELSE GroupsOf(g[n - 1])))]
<1>10. IsTo(ParticlesTo)
  <2>1. ParticlesTo = CHOOSE g : IsTo(g)
    BY DEF ParticlesTo
  <2>2. IsTo(f)
    BY <1>9
  <2> HIDE DEF IsTo
  <2> QED  BY <2>1, <2>2
<1>11. \A n \in Nat : ParticlesTo[n] = ParticlesOf(TermsOver(IF n = 0 THEN {} ELSE GroupsOf(ParticlesTo[n - 1])))
  BY <1>10
<1> QED  BY <1>11 DEF TermsTo

(* A group has its members in Particles, and one level down.               *)
AreMembers(t, n) == IsGroup(t) /\ t.particles \in Seq(ParticlesTo[n])

LEMMA ParticleAt ==
    ASSUME NEW n \in Nat, NEW p \in ParticlesTo[n]
    PROVE  /\ p = [min |-> p.min, max |-> p.max, term |-> p.term]
           /\ p.min \in Nat /\ p.max \in Nat \cup {Unbounded} /\ Within(p.min, p.max)
           /\ \/ p.term \in LeafTerm
              \/ n # 0 /\ AreMembers(p.term, n - 1)
              \/ n # 0 /\ p.term.kind = "ref" /\ AreMembers(p.term.group, n - 1)
<1>1. p \in ParticlesOf(TermsTo(n))
  BY ParticlesByDepth
<1>2. p \in [min : Nat, max : Nat \cup {Unbounded}, term : TermsTo(n)] /\ Within(p.min, p.max)
  BY <1>1 DEF ParticlesOf
<1>3. p.term \in TermsTo(n) /\ p = [min |-> p.min, max |-> p.max, term |-> p.term]
  BY <1>2
<1>4. CASE n = 0
  <2>1. TermsTo(n) = LeafTerm
    BY <1>4 DEF TermsTo, TermsOver
  <2> QED  BY <1>2, <1>3, <2>1
<1>5. CASE n # 0
  <2> DEFINE groups == GroupsOf(ParticlesTo[n - 1])
  <2>1. TermsTo(n) = LeafTerm \cup groups \cup [kind : {"ref"}, group : groups]
    BY <1>5 DEF TermsTo, TermsOver
  <2>2. \A t \in groups : AreMembers(t, n - 1)
    BY DEF GroupsOf, AreMembers, IsGroup
  <2> HIDE DEF groups
  <2>3. p.term \in LeafTerm \/ p.term \in groups \/ p.term \in [kind : {"ref"}, group : groups]
    BY <1>3, <2>1
  <2> QED  BY <1>2, <1>3, <1>5, <2>2, <2>3
<1> QED  BY <1>4, <1>5

LEMMA ParticlesGrow ==
    \A n \in Nat : \A m \in n..(n + 1) : ParticlesTo[n] \subseteq ParticlesTo[m]
<1> DEFINE S == {n \in Nat : ParticlesTo[n] \subseteq ParticlesTo[n + 1]}
<1>1. ASSUME NEW S1, NEW S2, S1 \subseteq S2
      PROVE  ParticlesOf(TermsOver(S1)) \subseteq ParticlesOf(TermsOver(S2))
  <2>1. TermsOver(S1) \subseteq TermsOver(S2)
    BY <1>1 DEF TermsOver
  <2> QED  BY <2>1 DEF ParticlesOf
<1>2. \A n \in Nat : ParticlesTo[n + 1] = ParticlesOf(TermsOver(GroupsOf(ParticlesTo[n])))
  <2> SUFFICES ASSUME NEW n \in Nat PROVE ParticlesTo[n + 1] = ParticlesOf(TermsOver(GroupsOf(ParticlesTo[n])))
    OBVIOUS
  <2>1. n + 1 \in Nat /\ n + 1 # 0 /\ (n + 1) - 1 = n
    OBVIOUS
  <2> QED  BY <2>1, ParticlesByDepth DEF TermsTo
<1>3. 0 \in S
  <2>1. ParticlesTo[0] = ParticlesOf(TermsOver({}))
    BY ParticlesByDepth DEF TermsTo
  <2>2. ParticlesTo[0 + 1] = ParticlesOf(TermsOver(GroupsOf(ParticlesTo[0])))
    BY <1>2
  <2>3. ParticlesTo[0] \subseteq ParticlesTo[0 + 1]
    BY <1>1, <2>1, <2>2
  <2> QED  BY <2>3
<1>4. ASSUME NEW n \in Nat, n \in S PROVE n + 1 \in S
  <2>1. GroupsOf(ParticlesTo[n]) \subseteq GroupsOf(ParticlesTo[n + 1])
    <3>1. ParticlesTo[n] \subseteq ParticlesTo[n + 1]
      BY <1>4
    <3>2. Seq(ParticlesTo[n]) \subseteq Seq(ParticlesTo[n + 1])
      BY <3>1
    <3> QED  BY <3>2 DEF GroupsOf
  <2>2. ParticlesTo[n + 1] = ParticlesOf(TermsOver(GroupsOf(ParticlesTo[n])))
    BY <1>2
  <2>3. ParticlesTo[(n + 1) + 1] = ParticlesOf(TermsOver(GroupsOf(ParticlesTo[n + 1])))
    BY <1>2
  <2>4. ParticlesTo[n + 1] \subseteq ParticlesTo[(n + 1) + 1]
    BY <1>1, <2>1, <2>2, <2>3
  <2> QED  BY <2>4
<1>5. Nat \subseteq S
  BY <1>3, <1>4, InductionOnNat
<1> SUFFICES ASSUME NEW n \in Nat, NEW m \in n..(n + 1) PROVE ParticlesTo[n] \subseteq ParticlesTo[m]
  OBVIOUS
<1>6. m = n \/ m = n + 1
  OBVIOUS
<1> QED  BY <1>5, <1>6

LEMMA ParticlesWithin ==
    ASSUME NEW n \in Nat, NEW m \in Nat, n <= m
    PROVE  ParticlesTo[n] \subseteq ParticlesTo[m]
<1> DEFINE S == {k \in Nat : ParticlesTo[n] \subseteq ParticlesTo[n + k]}
<1>1. 0 \in S
  OBVIOUS
<1>2. ASSUME NEW k \in Nat, k \in S PROVE k + 1 \in S
  <2>1. n + k \in Nat /\ n + (k + 1) \in (n + k)..((n + k) + 1)
    OBVIOUS
  <2>2. ParticlesTo[n + k] \subseteq ParticlesTo[n + (k + 1)]
    BY <2>1, ParticlesGrow
  <2> QED  BY <1>2, <2>2
<1>3. Nat \subseteq S
  BY <1>1, <1>2, InductionOnNat
<1>4. m - n \in Nat /\ n + (m - n) = m
  OBVIOUS
<1> QED  BY <1>3, <1>4

(* A particle is ranked by the depth at which it first appears.            *)
Level == [p \in Particles |-> CHOOSE n \in Nat : p \in ParticlesTo[n] /\ \A k \in Nat : p \in ParticlesTo[k] => n <= k]

LEMMA LevelFacts ==
    /\ Level \in [Particles -> Nat]
    /\ \A p \in Particles : p \in ParticlesTo[Level[p]]
    /\ \A n \in Nat : \A p \in ParticlesTo[n] : p \in Particles => Level[p] <= n
<1>1. ASSUME NEW p \in Particles
      PROVE  \E n \in Nat : p \in ParticlesTo[n] /\ \A k \in Nat : p \in ParticlesTo[k] => n <= k
  <2> DEFINE S == {n \in Nat : p \in ParticlesTo[n]}
  <2>1. S \in SUBSET Nat /\ S # {}
    BY DepthAssumption DEF Particles
  <2>2. \E m \in S : \A k \in S : m <= k
    <3> HIDE DEF S
    <3> QED  BY <2>1, LeastNumber
  <2> QED  BY <2>2
<1>2. ASSUME NEW p \in Particles
      PROVE  Level[p] \in Nat /\ p \in ParticlesTo[Level[p]] /\ \A k \in Nat : p \in ParticlesTo[k] => Level[p] <= k
  BY <1>1 DEF Level
<1>3. Level = [p \in Particles |-> Level[p]]
  BY DEF Level
<1> QED  BY <1>2, <1>3

(* The members of a group, or of the group a reference stands for.         *)
MembersOf(p) == Referred(p.term).particles

LEMMA LeafFacts ==
    ASSUME NEW t \in LeafTerm
    PROVE  /\ IsLeaf(t) /\ ~IsGroup(t) /\ t.kind # "ref" /\ Referred(t) = t
           /\ \/ t.kind = "element" /\ t.decl \in Elements
              \/ t.kind = "wildcard" /\ t.wildcard \in Wildcard
  BY DEF LeafTerm, IsLeaf, IsGroup, Referred

LEMMA ParticleShape ==
    ASSUME NEW p \in Particles
    PROVE  /\ p = [min |-> p.min, max |-> p.max, term |-> p.term]
           /\ p.min \in Nat /\ p.max \in Nat \cup {Unbounded} /\ Within(p.min, p.max)
           /\ \/ p.term \in LeafTerm
              \/ /\ IsGroup(Referred(p.term)) /\ ~IsLeaf(p.term) /\ ~IsLeaf(Referred(p.term))
                 /\ p.term.kind = "ref" \/ (p.term = Referred(p.term) /\ IsGroup(p.term))
                 /\ MembersOf(p) \in Seq(Particles)
                 /\ \A i \in DOMAIN MembersOf(p) : Level[MembersOf(p)[i]] < Level[p]
<1> DEFINE n == Level[p]
<1>1. n \in Nat /\ p \in ParticlesTo[n] /\ n <= Depth
  BY LevelFacts, DepthAssumption DEF Particles
<1> HIDE DEF n
<1>2. /\ p = [min |-> p.min, max |-> p.max, term |-> p.term]
      /\ p.min \in Nat /\ p.max \in Nat \cup {Unbounded} /\ Within(p.min, p.max)
      /\ \/ p.term \in LeafTerm
         \/ n # 0 /\ AreMembers(p.term, n - 1)
         \/ n # 0 /\ p.term.kind = "ref" /\ AreMembers(p.term.group, n - 1)
  BY <1>1, ParticleAt
<1>3. ASSUME NEW t, AreMembers(t, n - 1), n # 0, NEW i \in DOMAIN t.particles
      PROVE  t.particles[i] \in Particles /\ Level[t.particles[i]] < n
  <2>1. n - 1 \in Nat /\ n - 1 <= Depth
    BY <1>1, <1>3, DepthAssumption
  <2>2. t.particles[i] \in ParticlesTo[n - 1]
    BY <1>3 DEF AreMembers
  <2>3. t.particles[i] \in Particles
    BY <2>1, <2>2, ParticlesWithin, DepthAssumption DEF Particles
  <2>4. Level[t.particles[i]] <= n - 1 /\ Level[t.particles[i]] \in Nat
    BY <2>1, <2>2, <2>3, LevelFacts
  <2> QED  BY <1>1, <2>1, <2>3, <2>4
<1>4. ASSUME NEW t, AreMembers(t, n - 1), n # 0, Referred(p.term) = t,
             p.term.kind = "ref" \/ p.term = t
      PROVE  /\ IsGroup(Referred(p.term)) /\ ~IsLeaf(p.term) /\ ~IsLeaf(Referred(p.term))
             /\ p.term.kind = "ref" \/ (p.term = Referred(p.term) /\ IsGroup(p.term))
             /\ MembersOf(p) \in Seq(Particles)
             /\ \A i \in DOMAIN MembersOf(p) : Level[MembersOf(p)[i]] < n
  <2>1. IsGroup(t) /\ t.particles \in Seq(ParticlesTo[n - 1]) /\ MembersOf(p) = t.particles
    BY <1>4 DEF AreMembers, MembersOf
  <2>2. t.particles \in Seq(Particles)
    <3>1. \A i \in DOMAIN t.particles : t.particles[i] \in Particles
      BY <1>3, <1>4
    <3> QED  BY <2>1, <3>1
  <2>3. ~IsLeaf(t) /\ ~IsLeaf(p.term)
    BY <1>4, <2>1 DEF IsLeaf, IsGroup
  <2> QED  BY <1>3, <1>4, <2>1, <2>2, <2>3
<1>5. CASE n # 0 /\ AreMembers(p.term, n - 1)
  <2>1. Referred(p.term) = p.term
    BY <1>5 DEF Referred, AreMembers, IsGroup
  <2> QED  BY <1>2, <1>4, <1>5, <2>1 DEF n
<1>6. CASE n # 0 /\ p.term.kind = "ref" /\ AreMembers(p.term.group, n - 1)
  <2>1. Referred(p.term) = p.term.group
    BY <1>6 DEF Referred
  <2> QED  BY <1>2, <1>4, <1>6, <2>1 DEF n
<1>7. CASE p.term \in LeafTerm
  BY <1>2, <1>7
<1> QED  BY <1>2, <1>5, <1>6, <1>7

(* What holds of a particle when it holds of its members holds of all.     *)
LEMMA ParticleInduction ==
    ASSUME NEW S,
           \A p \in Particles :
             p.term \in LeafTerm \/ (\A i \in DOMAIN MembersOf(p) : MembersOf(p)[i] \in S) => p \in S
    PROVE  Particles \subseteq S
<1>1. ASSUME NEW p \in Particles, \A q \in Particles : Level[q] < Level[p] => q \in S PROVE p \in S
  <2>1. CASE p.term \in LeafTerm
    BY <2>1
  <2>2. CASE p.term \notin LeafTerm
    <3>1. MembersOf(p) \in Seq(Particles) /\ \A i \in DOMAIN MembersOf(p) : Level[MembersOf(p)[i]] < Level[p]
      BY <2>2, ParticleShape
    <3>2. \A i \in DOMAIN MembersOf(p) : MembersOf(p)[i] \in S
      BY <1>1, <3>1
    <3> QED  BY <3>2
  <2> QED  BY <2>1, <2>2
<1> QED  BY <1>1, LevelFacts, RankedInduction

-----------------------------------------------------------------------------
(* Sequences: the members of what the search puts together.                *)
LEMMA ConcatFacts ==
    ASSUME NEW A, NEW s \in Seq(A), NEW t \in Seq(A)
    PROVE  /\ s \o t \in Seq(A) /\ Len(s \o t) = Len(s) + Len(t)
           /\ \A i \in 1..Len(s) : (s \o t)[i] = s[i]
           /\ \A i \in 1..Len(t) : (s \o t)[Len(s) + i] = t[i]
  OBVIOUS

LEMMA ToSetConcat ==
    ASSUME NEW A, NEW s \in Seq(A), NEW t \in Seq(A)
    PROVE  ToSet(s \o t) = ToSet(s) \cup ToSet(t)
<1>1. DOMAIN s = 1..Len(s) /\ DOMAIN t = 1..Len(t) /\ DOMAIN (s \o t) = 1..(Len(s) + Len(t))
  BY ConcatFacts
<1>2. ASSUME NEW x \in ToSet(s \o t) PROVE x \in ToSet(s) \cup ToSet(t)
  <2>1. PICK i \in 1..(Len(s) + Len(t)) : (s \o t)[i] = x
    BY <1>1, <1>2 DEF ToSet
  <2>2. CASE i <= Len(s)
    BY <2>1, <2>2, <1>1, ConcatFacts DEF ToSet
  <2>3. CASE i > Len(s)
    <3>1. i - Len(s) \in 1..Len(t) /\ Len(s) + (i - Len(s)) = i
      BY <2>3
    <3>2. t[i - Len(s)] = x
      BY <2>1, <3>1, ConcatFacts
    <3> QED  BY <3>1, <3>2, <1>1 DEF ToSet
  <2> QED  BY <2>2, <2>3
<1>3. ASSUME NEW x \in ToSet(s) PROVE x \in ToSet(s \o t)
  <2>1. PICK i \in 1..Len(s) : s[i] = x
    BY <1>1, <1>3 DEF ToSet
  <2>2. i \in DOMAIN (s \o t) /\ (s \o t)[i] = x
    BY <2>1, <1>1, ConcatFacts
  <2> QED  BY <2>2 DEF ToSet
<1>4. ASSUME NEW x \in ToSet(t) PROVE x \in ToSet(s \o t)
  <2>1. PICK i \in 1..Len(t) : t[i] = x
    BY <1>1, <1>4 DEF ToSet
  <2>2. Len(s) + i \in DOMAIN (s \o t) /\ (s \o t)[Len(s) + i] = x
    BY <2>1, <1>1, ConcatFacts
  <2> QED  BY <2>2 DEF ToSet
<1> QED  BY <1>2, <1>3, <1>4

LEMMA MemberOfSeq ==
    ASSUME NEW A, NEW s \in Seq(A)
    PROVE  /\ \A i \in DOMAIN s : s[i] \in A /\ s[i] \in ToSet(s)
           /\ \A x \in ToSet(s) : x \in A /\ \E i \in DOMAIN s : x = s[i]
  BY DEF ToSet

LEMMA PrefixedFacts ==
    ASSUME NEW A, NEW head \in Seq(A), NEW outcomes \in Seq(Seq(A))
    PROVE  /\ Prefixed(head, outcomes) \in Seq(Seq(A))
           /\ ToSet(Prefixed(head, outcomes)) = {head \o o : o \in ToSet(outcomes)}
<1>1. DOMAIN outcomes = 1..Len(outcomes) /\ DOMAIN Prefixed(head, outcomes) = 1..Len(outcomes)
  BY DEF Prefixed
<1>2. \A i \in 1..Len(outcomes) : head \o outcomes[i] \in Seq(A)
  BY ConcatFacts
<1>3. Prefixed(head, outcomes) \in Seq(Seq(A))
  BY <1>1, <1>2 DEF Prefixed
<1>4. ToSet(Prefixed(head, outcomes)) = {head \o o : o \in ToSet(outcomes)}
  BY <1>1 DEF Prefixed, ToSet
<1> QED  BY <1>3, <1>4

LEMMA IfFacts ==
    ASSUME NEW A, NEW cond \in BOOLEAN, NEW outcomes, cond => outcomes \in Seq(A)
    PROVE  /\ If(cond, outcomes) \in Seq(A)
           /\ ToSet(If(cond, outcomes)) = IF cond THEN ToSet(outcomes) ELSE {}
<1>1. << >> \in Seq(A) /\ ToSet(<< >>) = {}
  BY DEF ToSet
<1> QED  BY <1>1 DEF If

LEMMA NothingFacts ==
    ASSUME NEW A
    PROVE  Nothing \in Seq(Seq(A)) /\ ToSet(Nothing) = {<< >>}
  BY DEF Nothing, ToSet

IsFlattened(seqs, f) == f = [i \in 1..Len(seqs) |-> IF i = 1 THEN seqs[i] ELSE f[i - 1] \o seqs[i]]

FlatteningOf(seqs, h) ==
    /\ FlattenSeq(seqs) = h[Len(seqs)]
    /\ \A i \in 1..Len(seqs) : h[i] = IF i = 1 THEN seqs[i] ELSE h[i - 1] \o seqs[i]

LEMMA FlattenSteps ==
    ASSUME NEW A, NEW seqs \in Seq(Seq(A)), Len(seqs) # 0
    PROVE  \E h : FlatteningOf(seqs, h)
<1> DEFINE D == 1..Len(seqs)
           R == Seq(A)
           rank == [i \in D |-> i]
           body(i, g) == IF i = 1 THEN seqs[i] ELSE g[i - 1] \o seqs[i]
           step == [i \in D |-> [g \in [D -> R] |-> body(i, g)]]
<1>1. rank \in [D -> Nat] /\ << >> \in R
  OBVIOUS
<1>2. step \in [D -> [[D -> R] -> R]]
  <2> SUFFICES ASSUME NEW i \in D, NEW g \in [D -> R] PROVE body(i, g) \in R
    OBVIOUS
  <2>1. seqs[i] \in R
    OBVIOUS
  <2>2. CASE i = 1
    BY <2>1, <2>2
  <2>3. CASE i # 1
    <3>1. i - 1 \in D
      BY <2>3
    <3> QED  BY <2>1, <2>3, <3>1, ConcatFacts
  <2> QED  BY <2>2, <2>3
<1>3. StepsByRank(D, rank, step, R)
  <2> SUFFICES ASSUME NEW i \in D, NEW g \in [D -> R], NEW h \in [D -> R],
                      \A j \in D : rank[j] < rank[i] => g[j] = h[j]
               PROVE  step[i][g] = step[i][h]
    BY DEF StepsByRank
  <2>1. i # 1 => i - 1 \in D /\ g[i - 1] = h[i - 1]
    OBVIOUS
  <2> QED  BY <2>1
<1>4. PICK f \in [D -> R] : \A i \in D : f[i] = step[i][f]
  <2>1. WellRanked(D, rank, step, R)
    BY <1>1, <1>2, <1>3 DEF WellRanked
  <2> HIDE DEF rank, step, D, R
  <2> QED  BY <2>1, RankedRecursion
<1>5. \A i \in D : f[i] = body(i, f)
  BY <1>4
<1>6. IsFlattened(seqs, f)
  BY <1>4, <1>5 DEF IsFlattened
<1> DEFINE h == CHOOSE g : IsFlattened(seqs, g)
<1>7. IsFlattened(seqs, h)
  BY <1>6
<1>8. FlattenSeq(seqs) = h[Len(seqs)]
  BY DEF FlattenSeq, IsFlattened
<1> HIDE DEF h
<1>9. \A i \in D : h[i] = body(i, h)
  BY <1>7 DEF IsFlattened
<1> QED  BY <1>8, <1>9 DEF FlatteningOf

LEMMA FlatteningFacts ==
    ASSUME NEW A, NEW seqs \in Seq(Seq(A)), NEW h, FlatteningOf(seqs, h)
    PROVE  \A n \in 1..Len(seqs) : h[n] \in Seq(A) /\ ToSet(h[n]) = UNION {ToSet(seqs[i]) : i \in 1..n}
<1> DEFINE D == 1..Len(seqs)
           P(n) == h[n] \in Seq(A) /\ ToSet(h[n]) = UNION {ToSet(seqs[i]) : i \in 1..n}
           S == {n \in Nat : n \in D => P(n)}
<1>1. \A i \in D : h[i] = IF i = 1 THEN seqs[i] ELSE h[i - 1] \o seqs[i]
  BY DEF FlatteningOf
<1>2. 0 \in S
  OBVIOUS
<1>3. ASSUME NEW n \in Nat, n \in S PROVE n + 1 \in S
  <2> SUFFICES ASSUME n + 1 \in D
               PROVE  h[n + 1] \in Seq(A) /\ ToSet(h[n + 1]) = UNION {ToSet(seqs[i]) : i \in 1..(n + 1)}
    OBVIOUS
  <2>1. seqs[n + 1] \in Seq(A)
    OBVIOUS
  <2>2. CASE n = 0
    <3>1. h[n + 1] = seqs[n + 1]
      BY <1>1, <2>2
    <3>2. 1..(n + 1) = {n + 1}
      BY <2>2
    <3> QED  BY <2>1, <3>1, <3>2
  <2>3. CASE n # 0
    <3>1. n \in D /\ (n + 1) - 1 = n /\ n + 1 # 1
      BY <2>3
    <3>2. h[n + 1] = h[n] \o seqs[n + 1]
      BY <1>1, <3>1
    <3>3. h[n] \in Seq(A) /\ ToSet(h[n]) = UNION {ToSet(seqs[i]) : i \in 1..n}
      BY <1>3, <3>1
    <3>4. h[n + 1] \in Seq(A) /\ ToSet(h[n + 1]) = ToSet(h[n]) \cup ToSet(seqs[n + 1])
      BY <2>1, <3>2, <3>3, ConcatFacts, ToSetConcat
    <3>5. 1..(n + 1) = 1..n \cup {n + 1}
      BY <3>1
    <3> QED  BY <3>3, <3>4, <3>5
  <2> QED  BY <2>2, <2>3
<1>4. Nat \subseteq S
  <2> HIDE DEF S
  <2> QED  BY <1>2, <1>3, InductionOnNat
<1>5. \A n \in D : P(n)
  <2>1. D \subseteq Nat
    OBVIOUS
  <2> HIDE DEF P, D
  <2> QED  BY <1>4, <2>1
<1> QED  BY <1>5

LEMMA FlattenFacts ==
    ASSUME NEW A, NEW seqs \in Seq(Seq(A))
    PROVE  /\ FlattenSeq(seqs) \in Seq(A)
           /\ ToSet(FlattenSeq(seqs)) = UNION {ToSet(seqs[i]) : i \in DOMAIN seqs}
<1>1. CASE Len(seqs) = 0
  <2>1. seqs = << >> /\ FlattenSeq(seqs) = << >> /\ FlattenSeq(seqs) \in Seq(A)
    BY <1>1 DEF FlattenSeq
  <2>2. ToSet(<< >>) = {} /\ DOMAIN seqs = {}
    BY <2>1 DEF ToSet
  <2>3. ToSet(FlattenSeq(seqs)) = {}
    BY <2>1, <2>2
  <2> QED  BY <2>1, <2>2, <2>3
<1>2. CASE Len(seqs) # 0
  <2>1. PICK h : FlatteningOf(seqs, h)
    BY <1>2, FlattenSteps
  <2>2. Len(seqs) \in Nat /\ Len(seqs) \in 1..Len(seqs) /\ DOMAIN seqs = 1..Len(seqs)
    BY <1>2
  <2>3. FlattenSeq(seqs) = h[Len(seqs)]
    BY <2>1 DEF FlatteningOf
  <2>4. \A n \in 1..Len(seqs) : h[n] \in Seq(A) /\ ToSet(h[n]) = UNION {ToSet(seqs[i]) : i \in 1..n}
    BY <2>1, FlatteningFacts, ZenonT(20)
  <2> QED  BY <2>2, <2>3, <2>4
<1> QED  BY <1>1, <1>2

LEMMA ConcatAssociates ==
    ASSUME NEW A, NEW r \in Seq(A), NEW s \in Seq(A), NEW t \in Seq(A)
    PROVE  (r \o s) \o t = r \o (s \o t)
<1>1. (r \o s) \o t \in Seq(A) /\ r \o (s \o t) \in Seq(A)
  OBVIOUS
<1>2. Len((r \o s) \o t) = Len(r \o (s \o t))
  OBVIOUS
<1>3. \A i \in 1..Len((r \o s) \o t) : ((r \o s) \o t)[i] = (r \o (s \o t))[i]
  OBVIOUS
<1> QED  BY <1>1, <1>2, <1>3

LEMMA FlattenConcat ==
    ASSUME NEW A, NEW s \in Seq(Seq(A)), NEW t \in Seq(Seq(A))
    PROVE  FlattenSeq(s \o t) = FlattenSeq(s) \o FlattenSeq(t)
<1> DEFINE M == Len(s)
           N == Len(t)
           c == s \o t
<1>1. M \in Nat /\ N \in Nat /\ c \in Seq(Seq(A)) /\ Len(c) = M + N
      /\ (\A i \in 1..M : c[i] = s[i]) /\ (\A i \in 1..N : c[M + i] = t[i])
  BY ConcatFacts
<1>0. M \in Nat /\ N \in Nat
  BY <1>1
<1>2. FlattenSeq(s) \in Seq(A) /\ FlattenSeq(t) \in Seq(A) /\ FlattenSeq(<< >>) = << >>
  <2>1. Len(<< >>) = 0
    OBVIOUS
  <2> QED  BY <2>1, FlattenFacts DEF FlattenSeq
<1>3. CASE M = 0
  <2>1. s = << >> /\ << >> \o t = t
    BY <1>3
  <2>2. << >> \o FlattenSeq(t) = FlattenSeq(t)
    BY <1>2
  <2> QED  BY <1>2, <2>1, <2>2
<1>4. CASE N = 0
  <2>1. t = << >> /\ s \o << >> = s
    BY <1>4
  <2>2. FlattenSeq(s) \o << >> = FlattenSeq(s)
    BY <1>2
  <2> QED  BY <1>2, <2>1, <2>2
<1>5. CASE M # 0 /\ N # 0
  <2>1. PICK h : FlatteningOf(c, h)
    <3>1. c \in Seq(Seq(A)) /\ Len(c) # 0
      BY <1>1, <1>5
    <3> HIDE DEF c
    <3> QED  BY <3>1, FlattenSteps
  <2>2. PICK f : FlatteningOf(s, f)
    BY <1>5, FlattenSteps
  <2>3. PICK g : FlatteningOf(t, g)
    BY <1>5, FlattenSteps
  <2>4. /\ \A i \in 1..(M + N) : h[i] = IF i = 1 THEN c[i] ELSE h[i - 1] \o c[i]
        /\ \A i \in 1..M : f[i] = IF i = 1 THEN s[i] ELSE f[i - 1] \o s[i]
        /\ \A i \in 1..N : g[i] = IF i = 1 THEN t[i] ELSE g[i - 1] \o t[i]
    BY <1>1, <2>1, <2>2, <2>3 DEF FlatteningOf
  <2>5. (\A i \in 1..M : f[i] \in Seq(A)) /\ (\A i \in 1..N : g[i] \in Seq(A) /\ t[i] \in Seq(A))
    BY <2>2, <2>3, FlatteningFacts
  <2> HIDE DEF M, N, c
  <2> DEFINE S == {i \in Nat : i \in 1..M => h[i] = f[i]}
             follows(i) == i \in 1..N => h[M + i] = f[M] \o g[i]
             T == {i \in Nat : follows(i)}
  <2>6. Nat \subseteq S
    <3>1. 0 \in S
      OBVIOUS
    <3>2. ASSUME NEW n \in Nat, n \in S PROVE n + 1 \in S
      <4> SUFFICES ASSUME n + 1 \in 1..M PROVE h[n + 1] = f[n + 1]
        OBVIOUS
      <4>1. n + 1 \in 1..(M + N) /\ c[n + 1] = s[n + 1] /\ (n + 1) - 1 = n
        BY <1>1
      <4>2. CASE n = 0
        <5>1. n + 1 = 1
          BY <4>2
        <5> QED  BY <2>4, <4>1, <5>1
      <4>3. CASE n # 0
        <5>1. n \in 1..M /\ n + 1 # 1
          BY <1>1, <4>3
        <5>2. h[n] = f[n]
          BY <3>2, <5>1
        <5>3. h[n + 1] = h[n] \o c[n + 1]
          BY <2>4, <4>1, <5>1
        <5>4. f[n + 1] = f[n] \o s[n + 1]
          BY <2>4, <4>1, <5>1
        <5> QED  BY <4>1, <5>2, <5>3, <5>4
      <4> QED  BY <4>2, <4>3
    <3> HIDE DEF S
    <3> QED  BY <3>1, <3>2, InductionOnNat
  <2>7. M \in 1..M /\ h[M] = f[M]
    <3>1. M \in 1..M
      BY <1>1, <1>5
    <3> QED  BY <1>1, <2>6, <3>1
  <2>8. Nat \subseteq T
    <3>1. 0 \in T
      OBVIOUS
    <3>2. ASSUME NEW n \in Nat, follows(n), n + 1 \in 1..N PROVE h[M + (n + 1)] = f[M] \o g[n + 1]
      <4>0. n + 1 \in 1..N
        BY <3>2
      <4>1. M + (n + 1) \in 1..(M + N) /\ c[M + (n + 1)] = t[n + 1] /\ (M + (n + 1)) - 1 = M + n /\ M + (n + 1) # 1
        <5>1. M + (n + 1) \in 1..(M + N) /\ (M + (n + 1)) - 1 = M + n
          BY <1>0, <4>0
        <5>2. M + (n + 1) # 1
          BY <1>0, <1>5, <4>0
        <5>3. c[M + (n + 1)] = t[n + 1]
          BY <1>1, <4>0
        <5> QED  BY <5>1, <5>2, <5>3
      <4>2. h[M + (n + 1)] = h[M + n] \o t[n + 1]
        BY <2>4, <4>1
      <4>3. CASE n = 0
        <5>1. n + 1 = 1 /\ M + n = M
          BY <1>1, <4>3
        <5>2. g[1] = t[1]
          BY <2>4, <3>2, <5>1
        <5> QED  BY <2>7, <4>2, <5>1, <5>2
      <4>4. CASE n # 0
        <5>1. n \in 1..N /\ n + 1 # 1 /\ (n + 1) - 1 = n
          BY <1>0, <4>0, <4>4
        <5>2. h[M + n] = f[M] \o g[n]
          BY <3>2, <5>1
        <5>3. g[n + 1] = g[n] \o t[n + 1]
          BY <2>4, <3>2, <5>1
        <5>4. f[M] \in Seq(A) /\ g[n] \in Seq(A) /\ t[n + 1] \in Seq(A)
          BY <2>5, <2>7, <3>2, <5>1
        <5>5. (f[M] \o g[n]) \o t[n + 1] = f[M] \o (g[n] \o t[n + 1])
          <6> DEFINE x == f[M]
                     y == g[n]
                     z == t[n + 1]
          <6>1. x \in Seq(A) /\ y \in Seq(A) /\ z \in Seq(A)
            BY <5>4
          <6> HIDE DEF x, y, z
          <6>2. (x \o y) \o z = x \o (y \o z)
            BY <6>1, ConcatAssociates
          <6> QED  BY <6>2 DEF x, y, z
        <5> QED  BY <4>2, <5>2, <5>3, <5>5
      <4> QED  BY <4>3, <4>4
    <3>3. \A n \in Nat : n \in T => n + 1 \in T
      <4>1. \A n \in Nat : follows(n) => follows(n + 1)
        BY <3>2
      <4> HIDE DEF follows
      <4> QED  BY <4>1
    <3> HIDE DEF T
    <3> QED  BY <3>1, <3>3, InductionOnNat
  <2>9. N \in 1..N
    BY <1>1, <1>5
  <2>10. h[M + N] = f[M] \o g[N]
    BY <1>1, <2>8, <2>9
  <2>11. FlattenSeq(c) = h[M + N] /\ FlattenSeq(s) = f[M] /\ FlattenSeq(t) = g[N]
    BY <1>1, <2>1, <2>2, <2>3 DEF FlatteningOf, M, N
  <2> QED  BY <2>10, <2>11 DEF c
<1> QED  BY <1>1, <1>3, <1>4, <1>5

-----------------------------------------------------------------------------
(* What children are attributed to: terms of the model, and open content.  *)
Taken == {ByElement(d) : d \in Elements \cup {Globals[q] : q \in DOMAIN Globals}} \cup {ByWildcard(w) : w \in Wildcard}
OpenTaken(m) == ByOpen(m.open.wildcard)
Attributed(m) == Taken \cup {OpenTaken(m)}

IsMatcher(m) == m.particle \in Particles /\ m.children \in Seq(Name)

(* The outcome o, of the children after pos, weaves the run r of the word  *)
(* w: the children f[1], f[2], ... of it are those of w, attributed as in  *)
(* r, and the others are taken by interleaved open content.                *)
WeavesBy(m, pos, o, w, r, f) ==
    /\ f \in [1..Len(r) -> 1..Len(o)]
    /\ \A i, j \in 1..Len(r) : i < j => f[i] < f[j]
    /\ \A i \in 1..Len(r) : o[f[i]] = r[i] /\ w[i] = m.children[pos + f[i]]
    /\ \A k \in 1..Len(o) : \/ \E i \in 1..Len(r) : f[i] = k
                            \/ o[k] = OpenTaken(m) /\ Interleaves(m, m.children[pos + k])

Weaves(m, pos, o, w, r) ==
    Len(w) = Len(r) /\ pos + Len(o) <= Len(m.children) /\ \E f : WeavesBy(m, pos, o, w, r, f)

(* ... and what it takes last is not for open content.                     *)
Tight(o) == o = << >> \/ o[Len(o)] \in Taken

LEMMA OpenIsNotTaken ==
    \A m : OpenTaken(m) \notin Taken
  BY DEF OpenTaken, Taken, ByOpen, ByElement, ByWildcard

LEMMA WeavesNothing ==
    ASSUME NEW m, IsMatcher(m), NEW pos \in Positions(m)
    PROVE  Weaves(m, pos, << >>, << >>, << >>)
<1>1. Len(m.children) \in Nat /\ pos <= Len(m.children)
  BY DEF IsMatcher, Positions
<1> DEFINE f == [i \in 1..0 |-> 0]
<1>2. WeavesBy(m, pos, << >>, << >>, << >>, f)
  BY DEF WeavesBy
<1>3. \E g : WeavesBy(m, pos, << >>, << >>, << >>, g)
  BY <1>2
<1>4. Len(<< >>) = 0 /\ pos + Len(<< >>) <= Len(m.children)
  BY <1>1 DEF Positions
<1> QED  BY <1>3, <1>4 DEF Weaves

LEMMA WeavesTaken ==
    ASSUME NEW m, IsMatcher(m), NEW pos \in Positions(m), pos # Len(m.children), NEW a \in Taken
    PROVE  Weaves(m, pos, <<a>>, <<m.children[pos + 1]>>, <<a>>)
<1>1. Len(m.children) \in Nat /\ pos + 1 <= Len(m.children)
  BY DEF IsMatcher, Positions
<1> DEFINE f == [i \in 1..1 |-> 1]
<1>2. WeavesBy(m, pos, <<a>>, <<m.children[pos + 1]>>, <<a>>, f)
  BY DEF WeavesBy
<1>3. \E g : WeavesBy(m, pos, <<a>>, <<m.children[pos + 1]>>, <<a>>, g)
  BY <1>2
<1> QED  BY <1>1, <1>3 DEF Weaves

LEMMA WeavesOpen ==
    ASSUME NEW m, IsMatcher(m), NEW pos \in Positions(m), pos # Len(m.children),
           Interleaves(m, m.children[pos + 1])
    PROVE  Weaves(m, pos, <<OpenTaken(m)>>, << >>, << >>)
<1>1. Len(m.children) \in Nat /\ pos + 1 <= Len(m.children)
  BY DEF IsMatcher, Positions
<1> DEFINE f == [i \in 1..0 |-> 0]
<1>2. WeavesBy(m, pos, <<OpenTaken(m)>>, << >>, << >>, f)
  BY DEF WeavesBy
<1>3. \E g : WeavesBy(m, pos, <<OpenTaken(m)>>, << >>, << >>, g)
  BY <1>2
<1> QED  BY <1>1, <1>3 DEF Weaves

LEMMA WeavesConcat ==
    ASSUME NEW m, IsMatcher(m), NEW pos \in Positions(m),
           NEW o1 \in Seq(Attributed(m)), NEW w1 \in Seq(Name), NEW r1 \in Seq(Taken),
           NEW o2 \in Seq(Attributed(m)), NEW w2 \in Seq(Name), NEW r2 \in Seq(Taken),
           Weaves(m, pos, o1, w1, r1), Weaves(m, pos + Len(o1), o2, w2, r2)
    PROVE  Weaves(m, pos, o1 \o o2, w1 \o w2, r1 \o r2)
<1>1. /\ pos \in Nat /\ Len(m.children) \in Nat
      /\ Len(o1 \o o2) = Len(o1) + Len(o2) /\ Len(w1 \o w2) = Len(w1) + Len(w2) /\ Len(r1 \o r2) = Len(r1) + Len(r2)
      /\ Len(o1) \in Nat /\ Len(o2) \in Nat /\ Len(w1) \in Nat /\ Len(w2) \in Nat /\ Len(r1) \in Nat /\ Len(r2) \in Nat
  BY ConcatFacts DEF IsMatcher, Positions
<1> DEFINE n == Len(r1)
           l == Len(o1)
<1>2. PICK f1 : WeavesBy(m, pos, o1, w1, r1, f1)
  BY DEF Weaves
<1>3. PICK f2 : WeavesBy(m, pos + l, o2, w2, r2, f2)
  BY DEF Weaves
<1>4. Len(w1) = n /\ Len(w2) = Len(r2) /\ (pos + l) + Len(o2) <= Len(m.children)
  BY DEF Weaves
<1> DEFINE f == [i \in 1..(n + Len(r2)) |-> IF i <= n THEN f1[i] ELSE l + f2[i - n]]
<1>15. f1 \in [1..n -> 1..l] /\ f2 \in [1..Len(r2) -> 1..Len(o2)]
  BY <1>2, <1>3 DEF WeavesBy
<1>5. \A i \in 1..n : i \in 1..(n + Len(r2)) /\ f[i] = f1[i] /\ f1[i] \in 1..l
  <2> SUFFICES ASSUME NEW i \in 1..n PROVE i \in 1..(n + Len(r2)) /\ f[i] = f1[i] /\ f1[i] \in 1..l
    OBVIOUS
  <2>1. i \in 1..(n + Len(r2)) /\ i <= n
    BY <1>1
  <2> QED  BY <2>1, <1>15
<1>6. \A i \in 1..Len(r2) : n + i \in 1..(n + Len(r2)) /\ f[n + i] = l + f2[i] /\ f2[i] \in 1..Len(o2)
  <2> SUFFICES ASSUME NEW i \in 1..Len(r2)
               PROVE  n + i \in 1..(n + Len(r2)) /\ f[n + i] = l + f2[i] /\ f2[i] \in 1..Len(o2)
    OBVIOUS
  <2>1. n + i \in 1..(n + Len(r2)) /\ ~(n + i <= n) /\ (n + i) - n = i
    BY <1>1
  <2> QED  BY <2>1, <1>15
<1>7. \A i \in 1..(n + Len(r2)) : i \in 1..n \/ \E j \in 1..Len(r2) : i = n + j
  <2> SUFFICES ASSUME NEW i \in 1..(n + Len(r2)), i \notin 1..n PROVE \E j \in 1..Len(r2) : i = n + j
    OBVIOUS
  <2>1. i - n \in 1..Len(r2) /\ i = n + (i - n)
    BY <1>1
  <2> QED  BY <2>1
<1>8. \A k \in 1..(l + Len(o2)) : k \in 1..l \/ \E j \in 1..Len(o2) : k = l + j
  <2> SUFFICES ASSUME NEW k \in 1..(l + Len(o2)), k \notin 1..l PROVE \E j \in 1..Len(o2) : k = l + j
    OBVIOUS
  <2>1. k - l \in 1..Len(o2) /\ k = l + (k - l)
    BY <1>1
  <2> QED  BY <2>1
<1>9. f \in [1..Len(r1 \o r2) -> 1..Len(o1 \o o2)]
  <2>1. \A i \in 1..(n + Len(r2)) : f[i] \in 1..(l + Len(o2))
    <3> SUFFICES ASSUME NEW i \in 1..(n + Len(r2)) PROVE f[i] \in 1..(l + Len(o2))
      OBVIOUS
    <3> HIDE DEF f
    <3>1. CASE i \in 1..n
      BY <3>1, <1>1, <1>5
    <3>2. CASE i \notin 1..n
      <4>1. PICK j \in 1..Len(r2) : i = n + j
        BY <3>2, <1>7
      <4>2. f[i] = l + f2[j] /\ f2[j] \in 1..Len(o2)
        BY <4>1, <1>6
      <4> QED  BY <4>2, <1>1
    <3> QED  BY <3>1, <3>2
  <2> QED  BY <1>1, <2>1
<1> HIDE DEF f
<1>10. \A i, j \in 1..Len(r1 \o r2) : i < j => f[i] < f[j]
  <2> SUFFICES ASSUME NEW i \in 1..(n + Len(r2)), NEW j \in 1..(n + Len(r2)), i < j PROVE f[i] < f[j]
    BY <1>1
  <2>1. CASE i \in 1..n /\ j \in 1..n
    BY <2>1, <1>2, <1>5 DEF WeavesBy
  <2>2. CASE i \in 1..n /\ j \notin 1..n
    <3>1. PICK j2 \in 1..Len(r2) : j = n + j2
      BY <2>2, <1>7
    <3>2. f[j] = l + f2[j2] /\ f2[j2] \in 1..Len(o2) /\ f[i] = f1[i] /\ f1[i] \in 1..l
      BY <2>2, <3>1, <1>5, <1>6
    <3>3. l \in Nat
      BY <1>1
    <3> HIDE DEF l
    <3> QED  BY <3>2, <3>3
  <2>3. CASE i \notin 1..n
    <3>1. PICK i2 \in 1..Len(r2) : i = n + i2
      BY <2>3, <1>7
    <3>2. PICK j2 \in 1..Len(r2) : j = n + j2
      <4>1. j \notin 1..n
        BY <3>1, <1>1
      <4> QED  BY <4>1, <1>7
    <3>3. i2 < j2
      BY <3>1, <3>2, <1>1
    <3>4. f2[i2] < f2[j2]
      BY <3>3, <1>3 DEF WeavesBy
    <3>5. f[i] = l + f2[i2] /\ f[j] = l + f2[j2] /\ f2[i2] \in 1..Len(o2) /\ f2[j2] \in 1..Len(o2)
      BY <3>1, <3>2, <1>6
    <3>6. l \in Nat
      BY <1>1
    <3> HIDE DEF l
    <3> QED  BY <3>4, <3>5, <3>6
  <2> QED  BY <2>1, <2>2, <2>3
<1>11. \A i \in 1..Len(r1 \o r2) : (o1 \o o2)[f[i]] = (r1 \o r2)[i] /\ (w1 \o w2)[i] = m.children[pos + f[i]]
  <2> SUFFICES ASSUME NEW i \in 1..(n + Len(r2))
               PROVE  (o1 \o o2)[f[i]] = (r1 \o r2)[i] /\ (w1 \o w2)[i] = m.children[pos + f[i]]
    BY <1>1
  <2>1. CASE i \in 1..n
    <3>1. o1[f1[i]] = r1[i] /\ w1[i] = m.children[pos + f1[i]]
      BY <2>1, <1>2 DEF WeavesBy
    <3>2. (o1 \o o2)[f1[i]] = o1[f1[i]] /\ (r1 \o r2)[i] = r1[i] /\ (w1 \o w2)[i] = w1[i]
      BY <2>1, <1>4, <1>5, ConcatFacts
    <3> QED  BY <2>1, <3>1, <3>2, <1>5
  <2>2. CASE i \notin 1..n
    <3>1. PICK j \in 1..Len(r2) : i = n + j
      BY <2>2, <1>7
    <3>2. o2[f2[j]] = r2[j] /\ w2[j] = m.children[(pos + l) + f2[j]]
      BY <1>3 DEF WeavesBy
    <3>3. /\ (o1 \o o2)[l + f2[j]] = o2[f2[j]]
          /\ (r1 \o r2)[n + j] = r2[j]
          /\ (w1 \o w2)[n + j] = w2[j]
      <4>1. f2[j] \in 1..Len(o2)
        BY <1>6
      <4>2. (o1 \o o2)[l + f2[j]] = o2[f2[j]]
        <5> DEFINE x == f2[j]
        <5>1. x \in 1..Len(o2)
          BY <4>1
        <5> HIDE DEF x
        <5>2. (o1 \o o2)[l + x] = o2[x]
          BY <5>1, ConcatFacts
        <5> QED  BY <5>2 DEF x
      <4>3. (r1 \o r2)[n + j] = r2[j]
        BY ConcatFacts
      <4>4. (w1 \o w2)[n + j] = w2[j]
        BY <1>4, ConcatFacts
      <4> QED  BY <4>2, <4>3, <4>4
    <3>4. (pos + l) + f2[j] = pos + (l + f2[j])
      BY <1>1, <1>6
    <3> QED  BY <3>1, <3>2, <3>3, <3>4, <1>6
  <2> QED  BY <2>1, <2>2
<1>12. \A k \in 1..Len(o1 \o o2) : \/ \E i \in 1..Len(r1 \o r2) : f[i] = k
                                   \/ (o1 \o o2)[k] = OpenTaken(m) /\ Interleaves(m, m.children[pos + k])
  <2> SUFFICES ASSUME NEW k \in 1..(l + Len(o2))
               PROVE  \/ \E i \in 1..(n + Len(r2)) : f[i] = k
                      \/ (o1 \o o2)[k] = OpenTaken(m) /\ Interleaves(m, m.children[pos + k])
    BY <1>1
  <2>1. CASE k \in 1..l
    <3>1. (\E i \in 1..n : f1[i] = k) \/ (o1[k] = OpenTaken(m) /\ Interleaves(m, m.children[pos + k]))
      BY <2>1, <1>2 DEF WeavesBy
    <3>2. (o1 \o o2)[k] = o1[k]
      BY <2>1, ConcatFacts
    <3> QED  BY <3>1, <3>2, <1>5
  <2>2. CASE k \notin 1..l
    <3>1. PICK j \in 1..Len(o2) : k = l + j
      BY <2>2, <1>8
    <3>2. (\E i \in 1..Len(r2) : f2[i] = j) \/ (o2[j] = OpenTaken(m) /\ Interleaves(m, m.children[(pos + l) + j]))
      BY <1>3 DEF WeavesBy
    <3>3. (o1 \o o2)[l + j] = o2[j] /\ (pos + l) + j = pos + (l + j)
      BY <1>1, ConcatFacts
    <3> QED  BY <3>1, <3>2, <3>3, <1>6
  <2> QED  BY <2>1, <2>2
<1>13. WeavesBy(m, pos, o1 \o o2, w1 \o w2, r1 \o r2, f)
  BY <1>9, <1>10, <1>11, <1>12 DEF WeavesBy
<1>14. \E g : WeavesBy(m, pos, o1 \o o2, w1 \o w2, r1 \o r2, g)
  BY <1>13
<1>16. Len(w1 \o w2) = Len(r1 \o r2) /\ pos + Len(o1 \o o2) <= Len(m.children)
  BY <1>1, <1>4
<1> QED  BY <1>14, <1>16 DEF Weaves

LEMMA EmptyIsZero ==
    ASSUME NEW A, NEW s \in Seq(A)
    PROVE  Len(s) \in Nat /\ (s = << >> <=> Len(s) = 0)
  OBVIOUS

LEMMA SameSeq ==
    ASSUME NEW A, NEW s \in Seq(A), NEW t \in Seq(A), Len(t) = Len(s), \A i \in 1..Len(s) : t[i] = s[i]
    PROVE  s = t
<1>1. s = [i \in 1..Len(s) |-> s[i]] /\ t = [i \in 1..Len(t) |-> t[i]]
  OBVIOUS
<1> QED  BY <1>1

LEMMA CutFacts ==
    ASSUME NEW A, NEW s \in Seq(A), NEW c \in 0..Len(s)
    PROVE  /\ SubSeq(s, 1, c) \in Seq(A) /\ Len(SubSeq(s, 1, c)) = c
           /\ \A i \in 1..c : SubSeq(s, 1, c)[i] = s[i]
           /\ SubSeq(s, c + 1, Len(s)) \in Seq(A) /\ Len(SubSeq(s, c + 1, Len(s))) = Len(s) - c
           /\ \A i \in 1..(Len(s) - c) : SubSeq(s, c + 1, Len(s))[i] = s[c + i]
           /\ s = SubSeq(s, 1, c) \o SubSeq(s, c + 1, Len(s))
<1>1. Len(s) \in Nat /\ c \in Nat /\ c <= Len(s)
  OBVIOUS
<1>2. SubSeq(s, 1, c) \in Seq(A) /\ Len(SubSeq(s, 1, c)) = c /\ \A i \in 1..c : SubSeq(s, 1, c)[i] = s[i]
  BY <1>1
<1>3. SubSeq(s, c + 1, Len(s)) \in Seq(A) /\ Len(SubSeq(s, c + 1, Len(s))) = Len(s) - c
      /\ \A i \in 1..(Len(s) - c) : SubSeq(s, c + 1, Len(s))[i] = s[c + i]
  BY <1>1
<1> DEFINE t == SubSeq(s, 1, c)
           u == SubSeq(s, c + 1, Len(s))
<1>4. /\ t \in Seq(A) /\ Len(t) = c /\ \A i \in 1..c : t[i] = s[i]
      /\ u \in Seq(A) /\ Len(u) = Len(s) - c /\ \A i \in 1..(Len(s) - c) : u[i] = s[c + i]
  BY <1>2, <1>3
<1> HIDE DEF t, u
<1>5. t \o u \in Seq(A) /\ Len(t \o u) = Len(s)
  BY <1>1, <1>4
<1>6. \A i \in 1..Len(s) : (t \o u)[i] = s[i]
  <2> SUFFICES ASSUME NEW i \in 1..Len(s) PROVE (t \o u)[i] = s[i]
    OBVIOUS
  <2>1. CASE i <= c
    <3>1. i \in 1..Len(t) /\ t[i] = s[i]
      BY <2>1, <1>1, <1>4
    <3> QED  BY <3>1, <1>4, ConcatFacts
  <2>2. CASE i > c
    <3>1. i - c \in 1..(Len(s) - c) /\ c + (i - c) = i
      BY <2>2, <1>1
    <3>2. u[i - c] = s[i] /\ i - c \in 1..Len(u)
      BY <3>1, <1>4
    <3>3. (t \o u)[Len(t) + (i - c)] = u[i - c]
      BY <3>2, <1>4, ConcatFacts
    <3> QED  BY <3>1, <3>2, <3>3, <1>4
  <2>3. i <= c \/ i > c
    BY <1>1
  <2> QED  BY <2>1, <2>2, <2>3
<1>7. s = t \o u
  BY <1>5, <1>6, SameSeq
<1> QED  BY <1>4, <1>7 DEF t, u

LEMMA EmptyWeave ==
    ASSUME NEW m, NEW pos, NEW w \in Seq(Name), NEW r \in Seq(Taken), Weaves(m, pos, << >>, w, r)
    PROVE  w = << >> /\ r = << >>
<1>1. PICK f : f \in [1..Len(r) -> 1..Len(<< >>)]
  BY DEF Weaves, WeavesBy
<1>2. Len(r) = 0
  <2> SUFFICES ASSUME Len(r) # 0 PROVE FALSE
    OBVIOUS
  <2>1. 1 \in 1..Len(r) /\ Len(<< >>) = 0
    OBVIOUS
  <2>2. f[1] \in 1..0
    BY <1>1, <2>1
  <2> QED  BY <2>2
<1>3. Len(w) = 0
  BY <1>2 DEF Weaves
<1> QED  BY <1>2, <1>3

LEMMA TightWeaveOfNothing ==
    ASSUME NEW m, NEW pos, NEW o \in Seq(Attributed(m)), Weaves(m, pos, o, << >>, << >>), Tight(o)
    PROVE  o = << >>
<1> SUFFICES ASSUME o # << >> PROVE FALSE
  OBVIOUS
<1>1. PICK f : WeavesBy(m, pos, o, << >>, << >>, f)
  BY DEF Weaves
<1>2. Len(o) \in 1..Len(o) /\ Len(<< >>) = 0
  OBVIOUS
<1>3. o[Len(o)] = OpenTaken(m)
  BY <1>1, <1>2 DEF WeavesBy
<1> QED  BY <1>3, OpenIsNotTaken DEF Tight

SplitWeave(m, pos, o, w1, r1, w2, r2) ==
    \E o1 \in Seq(Attributed(m)), o2 \in Seq(Attributed(m)) :
      /\ o = o1 \o o2 /\ Tight(o1) /\ Tight(o2)
      /\ Weaves(m, pos, o1, w1, r1) /\ Weaves(m, pos + Len(o1), o2, w2, r2)

LEMMA WeavesSplit ==
    ASSUME NEW m, IsMatcher(m), NEW pos \in Positions(m), NEW o \in Seq(Attributed(m)), Tight(o),
           NEW w1 \in Seq(Name), NEW r1 \in Seq(Taken), NEW w2 \in Seq(Name), NEW r2 \in Seq(Taken),
           Len(w1) = Len(r1), Weaves(m, pos, o, w1 \o w2, r1 \o r2)
    PROVE  SplitWeave(m, pos, o, w1, r1, w2, r2)
<1> DEFINE n == Len(r1)
           l == Len(r2)
<1>1. /\ pos \in Nat /\ Len(m.children) \in Nat /\ Len(o) \in Nat /\ n \in Nat /\ l \in Nat
      /\ Len(r1 \o r2) = n + l /\ Len(w1 \o w2) = Len(w1) + Len(w2) /\ Len(w2) \in Nat
  <2>1. pos \in Nat /\ Len(m.children) \in Nat
    BY DEF IsMatcher, Positions
  <2>2. Len(r1 \o r2) = n + l /\ Len(w1 \o w2) = Len(w1) + Len(w2)
    BY ConcatFacts
  <2> QED  BY <2>1, <2>2
<1>2. PICK f : WeavesBy(m, pos, o, w1 \o w2, r1 \o r2, f)
  BY DEF Weaves
<1>3. pos + Len(o) <= Len(m.children) /\ Len(w2) = l
  BY <1>1 DEF Weaves
<1> DEFINE c == IF n = 0 THEN 0 ELSE f[n]
           o1 == SubSeq(o, 1, c)
           o2 == SubSeq(o, c + 1, Len(o))
<1>4. f \in [1..(n + l) -> 1..Len(o)] /\ \A i, j \in 1..(n + l) : i < j => f[i] < f[j]
  BY <1>1, <1>2 DEF WeavesBy
<1>5. c \in 0..Len(o)
  <2>1. n # 0 => n \in 1..(n + l)
    BY <1>1
  <2> QED  BY <2>1, <1>1, <1>4
<1>6. \A i \in 1..n : i \in 1..(n + l) /\ f[i] \in 1..c
  <2> SUFFICES ASSUME NEW i \in 1..n PROVE i \in 1..(n + l) /\ f[i] \in 1..c
    OBVIOUS
  <2>1. i \in 1..(n + l) /\ n \in 1..(n + l) /\ n # 0 /\ c = f[n]
    BY <1>1
  <2>2. f[i] \in 1..Len(o) /\ f[n] \in 1..Len(o) /\ (i < n => f[i] < f[n])
    BY <2>1, <1>4
  <2> HIDE DEF c
  <2> QED  BY <2>1, <2>2, <1>1
<1>7. \A i \in 1..l : n + i \in 1..(n + l) /\ f[n + i] \in (c + 1)..Len(o) /\ f[n + i] - c \in 1..(Len(o) - c)
  <2> SUFFICES ASSUME NEW i \in 1..l
               PROVE  n + i \in 1..(n + l) /\ f[n + i] \in (c + 1)..Len(o) /\ f[n + i] - c \in 1..(Len(o) - c)
    OBVIOUS
  <2>1. n + i \in 1..(n + l)
    BY <1>1
  <2>2. f[n + i] \in 1..Len(o)
    BY <2>1, <1>4
  <2>3. f[n + i] > c
    <3>1. CASE n = 0
      BY <2>2, <3>1, <1>1
    <3>2. CASE n # 0
      <4>1. n \in 1..(n + l) /\ n < n + i
        BY <3>2, <1>1
      <4>2. f[n] < f[n + i]
        BY <4>1, <2>1, <1>4
      <4> QED  BY <4>2, <4>1, <3>2, <1>4, <2>2
    <3> QED  BY <3>1, <3>2
  <2> HIDE DEF c
  <2> QED  BY <2>1, <2>2, <2>3, <1>1, <1>5
<1> HIDE DEF c
<1>8. /\ o1 \in Seq(Attributed(m)) /\ Len(o1) = c /\ \A i \in 1..c : o1[i] = o[i]
      /\ o2 \in Seq(Attributed(m)) /\ Len(o2) = Len(o) - c /\ \A i \in 1..(Len(o) - c) : o2[i] = o[c + i]
      /\ o = o1 \o o2
  BY <1>5, CutFacts
<1> HIDE DEF o1, o2
<1>9. \A i \in 1..n : (r1 \o r2)[i] = r1[i] /\ (w1 \o w2)[i] = w1[i]
  BY ConcatFacts
<1>10. \A i \in 1..l : (r1 \o r2)[n + i] = r2[i] /\ (w1 \o w2)[n + i] = w2[i]
  <2> SUFFICES ASSUME NEW i \in 1..l PROVE (r1 \o r2)[n + i] = r2[i] /\ (w1 \o w2)[n + i] = w2[i]
    OBVIOUS
  <2>1. (r1 \o r2)[n + i] = r2[i]
    BY ConcatFacts
  <2>2. (w1 \o w2)[Len(w1) + i] = w2[i]
    BY <1>3, ConcatFacts
  <2> QED  BY <2>1, <2>2
<1>11. \A i \in 1..(n + l) : /\ o[f[i]] = (r1 \o r2)[i]
                             /\ (w1 \o w2)[i] = m.children[pos + f[i]]
  BY <1>1, <1>2 DEF WeavesBy
<1>12. \A k \in 1..Len(o) : \/ \E i \in 1..(n + l) : f[i] = k
                            \/ o[k] = OpenTaken(m) /\ Interleaves(m, m.children[pos + k])
  BY <1>1, <1>2 DEF WeavesBy
<1>13. \A i \in 1..(n + l) : i \in 1..n \/ \E j \in 1..l : i = n + j
  <2> SUFFICES ASSUME NEW i \in 1..(n + l), i \notin 1..n PROVE \E j \in 1..l : i = n + j
    OBVIOUS
  <2>1. i - n \in 1..l /\ i = n + (i - n)
    BY <1>1
  <2> QED  BY <2>1
<1> DEFINE f1 == [i \in 1..n |-> f[i]]
           f2 == [i \in 1..l |-> f[n + i] - c]
<1>14. WeavesBy(m, pos, o1, w1, r1, f1)
  <2>1. f1 \in [1..n -> 1..Len(o1)]
    BY <1>6, <1>8
  <2>2. \A i, j \in 1..n : i < j => f1[i] < f1[j]
    BY <1>4, <1>6
  <2>3. \A i \in 1..n : o1[f1[i]] = r1[i] /\ w1[i] = m.children[pos + f1[i]]
    BY <1>6, <1>8, <1>9, <1>11
  <2>4. ASSUME NEW k \in 1..Len(o1)
        PROVE  (\E i \in 1..n : f1[i] = k) \/ (o1[k] = OpenTaken(m) /\ Interleaves(m, m.children[pos + k]))
    <3>1. k \in 1..c /\ k \in 1..Len(o) /\ o1[k] = o[k]
      BY <1>1, <1>5, <1>8
    <3>2. ASSUME NEW i \in 1..(n + l), f[i] = k PROVE i \in 1..n
      <4>1. \A j \in 1..l : f[n + j] # k
        BY <3>1, <1>5, <1>7
      <4> QED  BY <3>2, <4>1, <1>13
    <3> QED  BY <3>1, <3>2, <1>12
  <2> QED  BY <2>1, <2>2, <2>3, <2>4 DEF WeavesBy
<1>15. WeavesBy(m, pos + Len(o1), o2, w2, r2, f2)
  <2>1. f2 \in [1..l -> 1..Len(o2)]
    BY <1>7, <1>8
  <2>2. ASSUME NEW i \in 1..l, NEW j \in 1..l, i < j PROVE f2[i] < f2[j]
    <3>1. n + i < n + j /\ n + i \in 1..(n + l) /\ n + j \in 1..(n + l)
      BY <2>2, <1>1
    <3>2. f[n + i] < f[n + j]
      BY <3>1, <1>4
    <3>3. f[n + i] \in 1..Len(o) /\ f[n + j] \in 1..Len(o)
      BY <3>1, <1>4
    <3>4. c \in Nat
      BY <1>5
    <3> QED  BY <3>2, <3>3, <3>4
  <2>3. ASSUME NEW i \in 1..l PROVE o2[f2[i]] = r2[i] /\ w2[i] = m.children[(pos + Len(o1)) + f2[i]]
    <3>1. o2[f2[i]] = o[c + (f[n + i] - c)] /\ c + (f[n + i] - c) = f[n + i]
      <4>1. f2[i] = f[n + i] - c /\ f[n + i] - c \in 1..(Len(o) - c)
        BY <1>7
      <4>2. c + (f[n + i] - c) = f[n + i]
        BY <1>5, <1>7
      <4>3. o2[f[n + i] - c] = o[c + (f[n + i] - c)]
        BY <4>1, <1>8
      <4> HIDE DEF f2
      <4> QED  BY <4>1, <4>2, <4>3
    <3>2. (pos + Len(o1)) + f2[i] = pos + f[n + i]
      <4> DEFINE x == f[n + i]
      <4>1. x \in Nat /\ c \in Nat /\ pos \in Nat /\ f2[i] = x - c /\ Len(o1) = c
        <5>1. f2[i] = x - c /\ x \in (c + 1)..Len(o)
          BY <1>7
        <5>2. c \in Nat /\ pos \in Nat /\ Len(o1) = c
          BY <1>1, <1>5, <1>8
        <5> HIDE DEF x, f2
        <5> QED  BY <5>1, <5>2
      <4> HIDE DEF x, f2
      <4>2. (pos + Len(o1)) + f2[i] = pos + x
        BY <4>1
      <4> QED  BY <4>2 DEF x
    <3>3. o[f[n + i]] = r2[i] /\ w2[i] = m.children[pos + f[n + i]]
      BY <1>7, <1>10, <1>11
    <3> QED  BY <3>1, <3>2, <3>3
  <2>4. ASSUME NEW k \in 1..Len(o2)
        PROVE  \/ \E i \in 1..l : f2[i] = k
               \/ o2[k] = OpenTaken(m) /\ Interleaves(m, m.children[(pos + Len(o1)) + k])
    <3>1. k \in 1..(Len(o) - c) /\ c + k \in 1..Len(o) /\ o2[k] = o[c + k] /\ (pos + Len(o1)) + k = pos + (c + k)
      <4>1. k \in 1..(Len(o) - c)
        BY <1>8
      <4>2. Len(o) \in Nat /\ c \in Nat /\ pos \in Nat /\ Len(o1) = c
        BY <1>1, <1>5, <1>8
      <4>3. c + k \in 1..Len(o) /\ (pos + Len(o1)) + k = pos + (c + k)
        BY <4>1, <4>2
      <4>4. o2[k] = o[c + k]
        BY <4>1, <1>8
      <4> QED  BY <4>1, <4>3, <4>4
    <3>2. ASSUME NEW i \in 1..(n + l), f[i] = c + k PROVE \E j \in 1..l : f2[j] = k
      <4>1. i \notin 1..n
        BY <3>1, <3>2, <1>5, <1>6
      <4>2. PICK j \in 1..l : i = n + j
        BY <4>1, <1>13
      <4>3. f2[j] = k
        BY <3>1, <3>2, <4>2, <1>5
      <4> QED  BY <4>3
    <3> QED  BY <3>1, <3>2, <1>12
  <2> QED  BY <2>1, <2>2, <2>3, <2>4 DEF WeavesBy
<1>16. Weaves(m, pos, o1, w1, r1)
  <2>1. pos + Len(o1) <= Len(m.children)
    BY <1>1, <1>3, <1>5, <1>8
  <2>2. \E g : WeavesBy(m, pos, o1, w1, r1, g)
    BY <1>14
  <2> QED  BY <2>1, <2>2 DEF Weaves
<1>17. Weaves(m, pos + Len(o1), o2, w2, r2)
  <2>1. (pos + Len(o1)) + Len(o2) <= Len(m.children)
    BY <1>1, <1>3, <1>5, <1>8
  <2>2. \E g : WeavesBy(m, pos + Len(o1), o2, w2, r2, g)
    BY <1>15
  <2> QED  BY <2>1, <2>2, <1>3 DEF Weaves
<1>18. Tight(o1)
  <2> SUFFICES ASSUME n # 0 PROVE o1[Len(o1)] \in Taken
    <3>1. n = 0 => o1 = << >>
      BY <1>8 DEF c
    <3> QED  BY <3>1 DEF Tight
  <2>1. n \in 1..n /\ c = f[n] /\ c \in 1..c
    BY <1>1, <1>6 DEF c
  <2>2. o1[c] = o[c] /\ o[f[n]] = r1[n] /\ r1[n] \in Taken
    BY <2>1, <1>6, <1>8, <1>9, <1>11
  <2> QED  BY <2>1, <2>2, <1>8
<1>19. Tight(o2)
  <2> SUFFICES ASSUME o2 # << >> PROVE o2[Len(o2)] \in Taken
    BY DEF Tight
  <2>1. Len(o2) # 0
    BY <1>8
  <2>2. Len(o2) \in 1..(Len(o) - c) /\ c + Len(o2) = Len(o) /\ o # << >>
    BY <2>1, <1>1, <1>5, <1>8
  <2>3. o2[Len(o2)] = o[Len(o)]
    BY <2>2, <1>8
  <2> QED  BY <2>2, <2>3 DEF Tight
<1> QED  BY <1>8, <1>16, <1>17, <1>18, <1>19 DEF SplitWeave

LEMMA ConsFacts ==
    ASSUME NEW A, NEW a \in A, NEW t \in Seq(A)
    PROVE  /\ <<a>> \o t \in Seq(A) /\ Len(<<a>> \o t) = 1 + Len(t)
           /\ (<<a>> \o t)[1] = a /\ \A i \in 1..Len(t) : (<<a>> \o t)[1 + i] = t[i]
<1>1. <<a>> \in Seq(A) /\ Len(<<a>>) = 1 /\ <<a>>[1] = a /\ 1 \in 1..1
  OBVIOUS
<1>2. \A s \in Seq(A) : Len(s) = 1 /\ s[1] = a =>
        /\ s \o t \in Seq(A) /\ Len(s \o t) = 1 + Len(t)
        /\ (s \o t)[1] = a /\ \A i \in 1..Len(t) : (s \o t)[1 + i] = t[i]
  <2> SUFFICES ASSUME NEW s \in Seq(A), Len(s) = 1, s[1] = a
               PROVE  /\ s \o t \in Seq(A) /\ Len(s \o t) = 1 + Len(t)
                      /\ (s \o t)[1] = a /\ \A i \in 1..Len(t) : (s \o t)[1 + i] = t[i]
    OBVIOUS
  <2>1. /\ s \o t \in Seq(A) /\ Len(s \o t) = Len(s) + Len(t)
        /\ \A i \in 1..Len(s) : (s \o t)[i] = s[i]
        /\ \A i \in 1..Len(t) : (s \o t)[Len(s) + i] = t[i]
    BY ConcatFacts
  <2> QED  BY <2>1
<1> QED  BY <1>1, <1>2

LEMMA TailFacts ==
    ASSUME NEW A, NEW s \in Seq(A), s # << >>
    PROVE  /\ Len(s) \in Nat \ {0} /\ s[1] \in A /\ Tail(s) \in Seq(A) /\ Len(Tail(s)) = Len(s) - 1
           /\ \A i \in 1..(Len(s) - 1) : Tail(s)[i] = s[i + 1]
           /\ s = <<s[1]>> \o Tail(s)
<1> DEFINE t == Tail(s)
           u == <<s[1]>> \o t
<1>1. /\ Len(s) \in Nat \ {0} /\ s[1] \in A /\ t \in Seq(A) /\ Len(t) = Len(s) - 1
      /\ \A i \in 1..(Len(s) - 1) : t[i] = s[i + 1]
  OBVIOUS
<1> HIDE DEF t
<1>2. /\ u \in Seq(A) /\ Len(u) = 1 + Len(t)
      /\ u[1] = s[1] /\ \A i \in 1..Len(t) : u[1 + i] = t[i]
  BY <1>1, ConsFacts
<1> HIDE DEF u
<1>3. \A i \in 1..Len(s) : u[i] = s[i]
  <2> SUFFICES ASSUME NEW i \in 1..Len(s), i # 1 PROVE u[i] = s[i]
    BY <1>2
  <2>1. i - 1 \in 1..(Len(s) - 1) /\ 1 + (i - 1) = i /\ (i - 1) + 1 = i
    BY <1>1
  <2>2. u[1 + (i - 1)] = t[i - 1] /\ t[i - 1] = s[(i - 1) + 1]
    BY <2>1, <1>1, <1>2
  <2> QED  BY <2>1, <2>2
<1>4. s = u
  BY <1>1, <1>2, <1>3, SameSeq
<1> QED  BY <1>1, <1>4 DEF t, u

LEMMA WeavesHead ==
    ASSUME NEW m, IsMatcher(m), NEW pos \in Positions(m), NEW o \in Seq(Attributed(m)), Tight(o), o # << >>,
           NEW w \in Seq(Name), NEW r \in Seq(Taken), Weaves(m, pos, o, w, r)
    PROVE  /\ pos + 1 \in Positions(m) /\ pos # Len(m.children) /\ Tight(Tail(o))
           /\ \/ /\ r # << >> /\ w # << >> /\ o[1] = r[1] /\ w[1] = m.children[pos + 1]
                 /\ Weaves(m, pos + 1, Tail(o), Tail(w), Tail(r))
              \/ /\ o[1] = OpenTaken(m) /\ Interleaves(m, m.children[pos + 1])
                 /\ Weaves(m, pos + 1, Tail(o), w, r)
<1> DEFINE n == Len(r)
           l == Len(o)
           t == Tail(o)
<1>1. l \in Nat \ {0} /\ t \in Seq(Attributed(m)) /\ Len(t) = l - 1 /\ \A i \in 1..(l - 1) : t[i] = o[i + 1]
  BY TailFacts
<1>2. pos \in Nat /\ Len(m.children) \in Nat /\ n \in Nat /\ Len(w) \in Nat
  BY DEF IsMatcher, Positions
<1>3. Len(w) = n /\ pos + l <= Len(m.children)
  BY DEF Weaves
<1>4. PICK f : WeavesBy(m, pos, o, w, r, f)
  BY DEF Weaves
<1>5. pos + 1 \in Positions(m) /\ pos # Len(m.children)
  BY <1>1, <1>2, <1>3 DEF Positions
<1> HIDE DEF t
<1>6. Tight(t)
  <2> SUFFICES ASSUME t # << >> PROVE t[Len(t)] \in Taken
    BY DEF Tight
  <2>1. Len(t) # 0
    <3>1. t \in Seq(Attributed(m))
      BY <1>1
    <3> QED  BY <3>1, EmptyIsZero
  <2>2. l - 1 \in 1..(l - 1) /\ (l - 1) + 1 = l
    BY <2>1, <1>1
  <2>3. t[Len(t)] = o[l]
    BY <2>2, <1>1
  <2> QED  BY <2>3 DEF Tight
<1>7. (pos + 1) + Len(t) <= Len(m.children)
  BY <1>1, <1>2, <1>3
<1>8. f \in [1..n -> 1..l] /\ \A i, j \in 1..n : i < j => f[i] < f[j]
  BY <1>4 DEF WeavesBy
<1>9. \A i \in 1..n : o[f[i]] = r[i] /\ w[i] = m.children[pos + f[i]]
  BY <1>4 DEF WeavesBy
<1>10. \A k \in 1..l : \/ \E i \in 1..n : f[i] = k
                       \/ o[k] = OpenTaken(m) /\ Interleaves(m, m.children[pos + k])
  BY <1>4 DEF WeavesBy
<1>11. \A k \in 1..(l - 1) : k + 1 \in 1..l /\ (pos + 1) + k = pos + (k + 1)
  BY <1>1, <1>2
<1>12. CASE \E i \in 1..n : f[i] = 1
  <2>1. PICK i0 \in 1..n : f[i0] = 1
    BY <1>12
  <2>2. 1 \in 1..n /\ n # 0
    BY <1>2
  <2>3. f[1] = 1
    <3>1. f[1] \in 1..l /\ (1 < i0 => f[1] < f[i0])
      BY <2>2, <1>8
    <3> QED  BY <2>1, <3>1, <1>1
  <2>4. r # << >> /\ w # << >>
    BY <2>2, <1>2, <1>3
  <2>5. o[1] = r[1] /\ w[1] = m.children[pos + 1]
    BY <2>2, <2>3, <1>9
  <2> DEFINE w2 == Tail(w)
             r2 == Tail(r)
  <2>6. w2 \in Seq(Name) /\ Len(w2) = n - 1 /\ \A i \in 1..(n - 1) : w2[i] = w[i + 1]
    BY <2>4, <1>3, TailFacts
  <2>7. r2 \in Seq(Taken) /\ Len(r2) = n - 1 /\ \A i \in 1..(n - 1) : r2[i] = r[i + 1]
    BY <2>4, TailFacts
  <2> HIDE DEF w2, r2
  <2> DEFINE g == [i \in 1..(n - 1) |-> f[i + 1] - 1]
  <2>8. \A i \in 1..(n - 1) : i + 1 \in 1..n /\ f[i + 1] \in 2..l /\ f[i + 1] - 1 \in 1..(l - 1)
    <3> SUFFICES ASSUME NEW i \in 1..(n - 1)
                 PROVE  i + 1 \in 1..n /\ f[i + 1] \in 2..l /\ f[i + 1] - 1 \in 1..(l - 1)
      OBVIOUS
    <3>1. i + 1 \in 1..n /\ 1 < i + 1
      BY <1>2
    <3>2. f[1] < f[i + 1] /\ f[i + 1] \in 1..l
      BY <2>2, <3>1, <1>8
    <3> QED  BY <2>3, <3>1, <3>2, <1>1
  <2>9. WeavesBy(m, pos + 1, t, w2, r2, g)
    <3>1. g \in [1..(n - 1) -> 1..(l - 1)]
      BY <2>8
    <3>2. ASSUME NEW i \in 1..(n - 1), NEW j \in 1..(n - 1), i < j PROVE g[i] < g[j]
      <4>1. i + 1 < j + 1 /\ i + 1 \in 1..n /\ j + 1 \in 1..n
        BY <2>8, <3>2
      <4>2. f[i + 1] < f[j + 1] /\ f[i + 1] \in 2..l /\ f[j + 1] \in 2..l
        BY <4>1, <2>8, <1>8
      <4> QED  BY <4>2, <1>1
    <3>3. ASSUME NEW i \in 1..(n - 1) PROVE t[g[i]] = r2[i] /\ w2[i] = m.children[(pos + 1) + g[i]]
      <4>1. g[i] = f[i + 1] - 1 /\ g[i] \in 1..(l - 1) /\ g[i] + 1 = f[i + 1]
        BY <2>8
      <4>2. t[g[i]] = o[f[i + 1]] /\ (pos + 1) + g[i] = pos + f[i + 1]
        <5> HIDE DEF g
        <5>1. t[g[i]] = o[g[i] + 1]
          BY <4>1, <1>1
        <5> QED  BY <4>1, <5>1, <1>11
      <4>3. o[f[i + 1]] = r[i + 1] /\ w[i + 1] = m.children[pos + f[i + 1]]
        BY <2>8, <1>9
      <4> QED  BY <4>2, <4>3, <2>6, <2>7
    <3>4. ASSUME NEW k \in 1..(l - 1)
          PROVE  \/ \E i \in 1..(n - 1) : g[i] = k
                 \/ t[k] = OpenTaken(m) /\ Interleaves(m, m.children[(pos + 1) + k])
      <4>1. k + 1 \in 1..l /\ t[k] = o[k + 1] /\ (pos + 1) + k = pos + (k + 1)
        BY <1>1, <1>11
      <4>2. ASSUME NEW i \in 1..n, f[i] = k + 1 PROVE \E j \in 1..(n - 1) : g[j] = k
        <5>1. i # 1
          BY <4>2, <2>3
        <5>2. i - 1 \in 1..(n - 1) /\ (i - 1) + 1 = i
          BY <5>1, <1>2
        <5>3. g[i - 1] = k
          BY <4>2, <5>2
        <5> QED  BY <5>2, <5>3
      <4> QED  BY <4>1, <4>2, <1>10
    <3> QED  BY <3>1, <3>2, <3>3, <3>4, <2>6, <2>7, <1>1 DEF WeavesBy
  <2>10. \E h : WeavesBy(m, pos + 1, t, w2, r2, h)
    BY <2>9
  <2>11. Weaves(m, pos + 1, t, w2, r2)
    BY <2>6, <2>7, <2>10, <1>7 DEF Weaves
  <2> QED  BY <2>4, <2>5, <2>11, <1>5, <1>6 DEF t, w2, r2
<1>13. CASE ~ \E i \in 1..n : f[i] = 1
  <2>1. 1 \in 1..l
    BY <1>1
  <2>2. o[1] = OpenTaken(m) /\ Interleaves(m, m.children[pos + 1])
    BY <2>1, <1>10, <1>13
  <2> DEFINE g == [i \in 1..n |-> f[i] - 1]
  <2>3. \A i \in 1..n : f[i] \in 2..l /\ f[i] - 1 \in 1..(l - 1)
    <3> SUFFICES ASSUME NEW i \in 1..n PROVE f[i] \in 2..l /\ f[i] - 1 \in 1..(l - 1)
      OBVIOUS
    <3>1. f[i] \in 1..l /\ f[i] # 1
      BY <1>8, <1>13
    <3> QED  BY <3>1, <1>1
  <2>4. WeavesBy(m, pos + 1, t, w, r, g)
    <3>1. g \in [1..n -> 1..(l - 1)]
      BY <2>3
    <3>2. ASSUME NEW i \in 1..n, NEW j \in 1..n, i < j PROVE g[i] < g[j]
      <4>1. f[i] < f[j] /\ f[i] \in 2..l /\ f[j] \in 2..l
        BY <2>3, <3>2, <1>8
      <4> QED  BY <4>1, <1>1
    <3>3. ASSUME NEW i \in 1..n PROVE t[g[i]] = r[i] /\ w[i] = m.children[(pos + 1) + g[i]]
      <4>1. g[i] = f[i] - 1 /\ g[i] \in 1..(l - 1) /\ g[i] + 1 = f[i]
        BY <2>3
      <4>2. t[g[i]] = o[f[i]] /\ (pos + 1) + g[i] = pos + f[i]
        <5> HIDE DEF g
        <5>1. t[g[i]] = o[g[i] + 1]
          BY <4>1, <1>1
        <5> QED  BY <4>1, <5>1, <1>11
      <4> QED  BY <4>2, <1>9
    <3>4. ASSUME NEW k \in 1..(l - 1)
          PROVE  \/ \E i \in 1..n : g[i] = k
                 \/ t[k] = OpenTaken(m) /\ Interleaves(m, m.children[(pos + 1) + k])
      <4>1. k + 1 \in 1..l /\ t[k] = o[k + 1] /\ (pos + 1) + k = pos + (k + 1)
        BY <1>1, <1>11
      <4>2. ASSUME NEW i \in 1..n, f[i] = k + 1 PROVE g[i] = k
        BY <4>2
      <4> QED  BY <4>1, <4>2, <1>10
    <3> QED  BY <3>1, <3>2, <3>3, <3>4, <1>1 DEF WeavesBy
  <2>5. \E h : WeavesBy(m, pos + 1, t, w, r, h)
    BY <2>4
  <2>6. Weaves(m, pos + 1, t, w, r)
    BY <2>5, <1>3, <1>7 DEF Weaves
  <2> QED  BY <2>2, <2>6, <1>5, <1>6 DEF t
<1> QED  BY <1>12, <1>13

-----------------------------------------------------------------------------
(* Outcomes of a position, and a language that gives runs per word: that   *)
(* the outcomes weave runs of it only, and all of them.                    *)
Search(m) ==
    {g \in [Positions(m) -> Seq(Seq(Attributed(m)))] :
       \A pos \in Positions(m) : \A o \in ToSet(g[pos]) : pos + Len(o) <= Len(m.children)}

Language ==
    {h \in [Seq(Name) -> SUBSET Seq(Taken)] : \A w \in Seq(Name) : \A r \in h[w] : Len(r) = Len(w)}

Sound(m, pos, outcomes, h) ==
    \A o \in ToSet(outcomes) : \E w \in Seq(Name) : \E r \in h[w] : Weaves(m, pos, o, w, r)

Complete(m, pos, outcomes, h) ==
    \A w \in Seq(Name) : \A r \in h[w] : \A o \in Seq(Attributed(m)) :
      Tight(o) /\ Weaves(m, pos, o, w, r) => o \in ToSet(outcomes)

AgreeAt(m, pos, outcomes, h) ==
    outcomes \in Seq(Seq(Attributed(m))) /\ Sound(m, pos, outcomes, h) /\ Complete(m, pos, outcomes, h)

Agree(m, g, h) ==
    /\ g \in [Positions(m) -> Seq(Seq(Attributed(m)))] /\ h \in Language
    /\ \A pos \in Positions(m) : AgreeAt(m, pos, g[pos], h)

LEMMA PositionFacts ==
    ASSUME NEW m, IsMatcher(m), NEW pos \in Positions(m)
    PROVE  /\ Len(m.children) \in Nat /\ pos \in Nat /\ pos <= Len(m.children)
           /\ pos # Len(m.children) => pos + 1 \in Positions(m) /\ m.children[pos + 1] \in Name
           /\ \A n \in Nat : pos + n <= Len(m.children) => pos + n \in Positions(m)
<1>1. m.children \in Seq(Name) /\ pos \in 0..Len(m.children)
  BY DEF IsMatcher, Positions
<1> QED  BY <1>1 DEF Positions

LEMMA SearchFacts ==
    ASSUME NEW m, IsMatcher(m), NEW g \in Search(m), NEW pos \in Positions(m)
    PROVE  /\ g[pos] \in Seq(Seq(Attributed(m)))
           /\ \A o \in ToSet(g[pos]) : /\ o \in Seq(Attributed(m)) /\ Len(o) \in Nat
                                       /\ pos + Len(o) <= Len(m.children) /\ pos + Len(o) \in Positions(m)
<1>1. g[pos] \in Seq(Seq(Attributed(m))) /\ \A o \in ToSet(g[pos]) : pos + Len(o) <= Len(m.children)
  BY DEF Search
<1>2. \A o \in ToSet(g[pos]) : o \in Seq(Attributed(m))
  BY <1>1, MemberOfSeq
<1> SUFFICES ASSUME NEW o \in ToSet(g[pos])
             PROVE  o \in Seq(Attributed(m)) /\ Len(o) \in Nat /\ pos + Len(o) <= Len(m.children) /\ pos + Len(o) \in Positions(m)
  BY <1>1
<1>3. o \in Seq(Attributed(m)) /\ Len(o) \in Nat /\ pos + Len(o) <= Len(m.children)
  BY <1>1, <1>2
<1> QED  BY <1>3, PositionFacts

LEMMA LanguageFacts ==
    ASSUME NEW h \in Language, NEW w \in Seq(Name), NEW r \in h[w]
    PROVE  r \in Seq(Taken) /\ Len(r) = Len(w)
  BY DEF Language

(* A term accepts a child in at most one way.                              *)
LEMMA AcceptsOne ==
    ASSUME NEW m, NEW p \in Particles, NEW q
    PROVE  /\ Accept(m, p.term, q) \subseteq Taken
           /\ \A a, b \in Accept(m, p.term, q) : a = b
<1>1. p.term.kind = "element" => p.term.decl \in Elements
  BY ParticleShape, LeafFacts DEF IsGroup
<1>2. p.term.kind = "wildcard" => p.term.wildcard \in Wildcard
  BY ParticleShape, LeafFacts DEF IsGroup
<1>3. CASE p.term.kind = "element"
  <2>1. Accept(m, p.term, q) = {ByElement(d) : d \in AcceptElement(p.term.decl, q)}
    BY <1>3 DEF Accept
  <2>2. \A d \in AcceptElement(p.term.decl, q) : d \in Elements \cup {Globals[x] : x \in DOMAIN Globals}
    BY <1>1, <1>3 DEF AcceptElement, Substitutable
  <2>3. \A d, e \in AcceptElement(p.term.decl, q) : d = e
    BY DEF AcceptElement
  <2> QED  BY <2>1, <2>2, <2>3 DEF Taken
<1>4. CASE p.term.kind = "wildcard"
  <2>1. Accept(m, p.term, q) \subseteq {ByWildcard(p.term.wildcard)}
    BY <1>4 DEF Accept
  <2> QED  BY <2>1, <1>2, <1>4 DEF Taken
<1>5. CASE p.term.kind \notin {"element", "wildcard"}
  <2>1. Accept(m, p.term, q) = {}
    BY <1>5 DEF Accept
  <2> QED  BY <2>1
<1> QED  BY <1>3, <1>4, <1>5

LEMMA TakenIsAttributed ==
    ASSUME NEW m
    PROVE  /\ Taken \subseteq Attributed(m) /\ OpenTaken(m) \in Attributed(m)
           /\ \A a \in Attributed(m) : <<a>> \in Seq(Attributed(m)) /\ Len(<<a>>) = 1
           /\ \A r \in Seq(Taken) : r \in Seq(Attributed(m))
  BY DEF Attributed

ByTaking(m, t, pos, outcomes, o) ==
    \E a \in Accept(m, t, m.children[pos + 1]), o2 \in ToSet(outcomes) : o = <<a>> \o o2

ByAbsorbing(m, pos, outcomes, o) ==
    Interleaves(m, m.children[pos + 1]) /\ \E o2 \in ToSet(outcomes) : o = <<OpenTaken(m)>> \o o2

LEMMA TakingFacts ==
    ASSUME NEW m, IsMatcher(m), NEW p \in Particles, NEW pos \in Positions(m),
           NEW outcomes \in Seq(Seq(Attributed(m)))
    PROVE  /\ Taking(m, p.term, pos, outcomes) \in Seq(Seq(Attributed(m)))
           /\ \A o : o \in ToSet(Taking(m, p.term, pos, outcomes)) <=> ByTaking(m, p.term, pos, outcomes, o)
<1> DEFINE accepted == Accept(m, p.term, m.children[pos + 1])
           a == CHOOSE b \in accepted : TRUE
           taking == Taking(m, p.term, pos, outcomes)
<1>1. taking = If(accepted # {}, Prefixed(<<a>>, outcomes))
  BY DEF Taking
<1>2. accepted \subseteq Taken /\ \A x, y \in accepted : x = y
  BY AcceptsOne
<1> HIDE DEF accepted, taking
<1> SUFFICES /\ taking \in Seq(Seq(Attributed(m)))
             /\ \A o : o \in ToSet(taking) <=> \E b \in accepted, o2 \in ToSet(outcomes) : o = <<b>> \o o2
  BY DEF accepted, taking, ByTaking
<1>3. CASE accepted = {}
  <2>1. taking = << >>
    BY <1>1, <1>3 DEF If
  <2>2. ToSet(<< >>) = {} /\ << >> \in Seq(Seq(Attributed(m)))
    BY DEF ToSet
  <2> QED  BY <2>1, <2>2, <1>3
<1>4. CASE accepted # {}
  <2>1. a \in accepted
    BY <1>4
  <2> HIDE DEF a
  <2>2. accepted = {a} /\ <<a>> \in Seq(Attributed(m))
    BY <2>1, <1>2, TakenIsAttributed
  <2>3. taking = Prefixed(<<a>>, outcomes)
    BY <1>1, <1>4 DEF If
  <2>4. /\ Prefixed(<<a>>, outcomes) \in Seq(Seq(Attributed(m)))
        /\ ToSet(Prefixed(<<a>>, outcomes)) = {<<a>> \o o : o \in ToSet(outcomes)}
    BY <2>2, PrefixedFacts
  <2>5. \A o : o \in ToSet(taking) <=> \E o2 \in ToSet(outcomes) : o = <<a>> \o o2
    BY <2>3, <2>4
  <2> QED  BY <2>2, <2>3, <2>4, <2>5
<1> QED  BY <1>3, <1>4

LEMMA AbsorbingFacts ==
    ASSUME NEW m, NEW pos, NEW outcomes \in Seq(Seq(Attributed(m)))
    PROVE  /\ Absorbing(m, pos, outcomes) \in Seq(Seq(Attributed(m)))
           /\ \A o : o \in ToSet(Absorbing(m, pos, outcomes)) <=> ByAbsorbing(m, pos, outcomes, o)
<1> DEFINE absorbing == Absorbing(m, pos, outcomes)
           before == Prefixed(<<OpenTaken(m)>>, outcomes)
<1>1. <<OpenTaken(m)>> \in Seq(Attributed(m))
  BY TakenIsAttributed
<1>2. before \in Seq(Seq(Attributed(m))) /\ ToSet(before) = {<<OpenTaken(m)>> \o o : o \in ToSet(outcomes)}
  BY <1>1, PrefixedFacts
<1>3. absorbing = If(Interleaves(m, m.children[pos + 1]), before)
  BY DEF Absorbing, OpenTaken
<1>4. Interleaves(m, m.children[pos + 1]) \in BOOLEAN
  BY DEF Interleaves
<1> HIDE DEF absorbing, before
<1>5. /\ absorbing \in Seq(Seq(Attributed(m)))
      /\ ToSet(absorbing) = IF Interleaves(m, m.children[pos + 1]) THEN ToSet(before) ELSE {}
  BY <1>2, <1>3, <1>4, IfFacts
<1>6. \A o : o \in ToSet(absorbing) <=>
            Interleaves(m, m.children[pos + 1]) /\ \E o2 \in ToSet(outcomes) : o = <<OpenTaken(m)>> \o o2
  BY <1>2, <1>5
<1> QED  BY <1>5, <1>6 DEF absorbing, ByAbsorbing

-----------------------------------------------------------------------------
(* Functions of the position that ask for later positions only.            *)
Remaining(m) == [pos \in Positions(m) |-> Len(m.children) - pos]

LEMMA RemainingFacts ==
    ASSUME NEW m, IsMatcher(m)
    PROVE  /\ Remaining(m) \in [Positions(m) -> Nat]
           /\ \A pos, q \in Positions(m) : Remaining(m)[q] < Remaining(m)[pos] <=> q > pos
<1>1. Len(m.children) \in Nat
  BY DEF IsMatcher
<1> DEFINE L == Len(m.children)
<1> HIDE DEF L
<1>2. Positions(m) = 0..L /\ Remaining(m) = [pos \in 0..L |-> L - pos] /\ L \in Nat
  BY <1>1 DEF Positions, Remaining, L
<1>3. \A pos \in 0..L : L - pos \in Nat
  BY <1>2
<1> QED  BY <1>2, <1>3

LEMMA PositionInduction ==
    ASSUME NEW m, IsMatcher(m), NEW S,
           \A pos \in Positions(m) : (\A q \in Positions(m) : q > pos => q \in S) => pos \in S
    PROVE  Positions(m) \subseteq S
<1>1. Remaining(m) \in [Positions(m) -> Nat]
  BY RemainingFacts
<1> DEFINE P == Positions(m)
           rank == Remaining(m)
<1>2. \A x \in P : (\A y \in P : rank[y] < rank[x] => y \in S) => x \in S
  BY RemainingFacts
<1>4. rank \in [P -> Nat]
  BY <1>1
<1> HIDE DEF P, rank
<1>3. P \subseteq S
  BY <1>2, <1>4, RankedInduction
<1> QED  BY <1>3 DEF P

Later(m, step, R) ==
    /\ R # {} /\ step \in [Positions(m) -> [[Positions(m) -> R] -> R]]
    /\ \A pos \in Positions(m) : \A g, h \in [Positions(m) -> R] :
         (\A q \in Positions(m) : q > pos => g[q] = h[q]) => step[pos][g] = step[pos][h]

LEMMA PositionRecursion ==
    \A m, step, R : IsMatcher(m) /\ Later(m, step, R) =>
      \E f \in [Positions(m) -> R] : \A pos \in Positions(m) : f[pos] = step[pos][f]
<1> SUFFICES ASSUME NEW m, NEW step, NEW R, IsMatcher(m), Later(m, step, R)
             PROVE  \E f \in [Positions(m) -> R] : \A pos \in Positions(m) : f[pos] = step[pos][f]
  OBVIOUS
<1>1. StepsByRank(Positions(m), Remaining(m), step, R)
  BY RemainingFacts DEF StepsByRank, Later
<1>2. WellRanked(Positions(m), Remaining(m), step, R)
  BY <1>1, RemainingFacts DEF WellRanked, Later
<1> QED  BY <1>2, RankedRecursion

-----------------------------------------------------------------------------
(* matchLeaf                                                               *)
IsLeafSearch(m, t, f) ==
    f = [pos \in Positions(m) |->
           IF pos = Len(m.children) THEN << >>
           ELSE Taking(m, t, pos, Nothing) \o Absorbing(m, pos, f[pos + 1])]

LEMMA LeafSearchExists ==
    ASSUME NEW m, IsMatcher(m), NEW p \in Particles
    PROVE  IsLeafSearch(m, p.term, MatchLeaf(m, p.term))
<1> DEFINE t == p.term
           P == Positions(m)
           R == Seq(Seq(Attributed(m)))
           body(pos, f) == IF pos = Len(m.children) THEN << >>
                           ELSE Taking(m, t, pos, Nothing) \o Absorbing(m, pos, f[pos + 1])
           step == [pos \in P |-> [f \in [P -> R] |-> body(pos, f)]]
<1>1. ASSUME NEW pos \in P, NEW f \in [P -> R] PROVE body(pos, f) \in R
  <2>1. CASE pos = Len(m.children)
    BY <2>1
  <2>2. CASE pos # Len(m.children)
    <3>1. f[pos + 1] \in R
      BY <2>2, PositionFacts
    <3>2. Taking(m, t, pos, Nothing) \in R
      BY NothingFacts, TakingFacts
    <3>3. Absorbing(m, pos, f[pos + 1]) \in R
      BY <3>1, AbsorbingFacts
    <3> QED  BY <2>2, <3>2, <3>3, ConcatFacts
  <2> QED  BY <2>1, <2>2
<1>2. step \in [P -> [[P -> R] -> R]]
  BY <1>1
<1>3. << >> \in R
  OBVIOUS
<1>4. Later(m, step, R)
  <2> SUFFICES ASSUME NEW pos \in P, NEW g \in [P -> R], NEW h \in [P -> R],
                      \A q \in P : q > pos => g[q] = h[q]
               PROVE  step[pos][g] = step[pos][h]
    BY <1>2, <1>3 DEF Later
  <2>1. pos # Len(m.children) => g[pos + 1] = h[pos + 1]
    BY PositionFacts
  <2> QED  BY <2>1
<1>5. PICK f \in [P -> R] : \A pos \in P : f[pos] = step[pos][f]
  <2> HIDE DEF step, R
  <2> QED  BY <1>4, PositionRecursion
<1>6. IsLeafSearch(m, t, f)
  BY <1>5 DEF IsLeafSearch
<1> DEFINE h == CHOOSE g : IsLeafSearch(m, t, g)
<1>7. IsLeafSearch(m, t, h)
  BY <1>6
<1>8. MatchLeaf(m, t) = h
  BY DEF MatchLeaf, IsLeafSearch
<1> QED  BY <1>7, <1>8

LEMMA ConcatEmpty ==
    ASSUME NEW A, NEW s \in Seq(A)
    PROVE  s \o << >> = s /\ << >> \o s = s
  OBVIOUS

LeafRuns(m, t) == [w \in Seq(Name) |-> RunsOfLeaf(m, t, w)]

LEMMA LeafRunsFacts ==
    ASSUME NEW m, NEW p \in Particles
    PROVE  /\ LeafRuns(m, p.term) \in Language
           /\ \A w \in Seq(Name) : \A r : r \in LeafRuns(m, p.term)[w] <=>
                Len(w) = 1 /\ \E a \in Accept(m, p.term, w[1]) : r = <<a>>
<1>1. \A w \in Seq(Name) : \A r : r \in LeafRuns(m, p.term)[w] <=>
        Len(w) = 1 /\ \E a \in Accept(m, p.term, w[1]) : r = <<a>>
  BY DEF LeafRuns, RunsOfLeaf
<1>2. \A w \in Seq(Name) : \A r \in LeafRuns(m, p.term)[w] : r \in Seq(Taken) /\ Len(r) = Len(w)
  <2> SUFFICES ASSUME NEW w \in Seq(Name), NEW r \in LeafRuns(m, p.term)[w] PROVE r \in Seq(Taken) /\ Len(r) = Len(w)
    OBVIOUS
  <2>1. PICK a \in Accept(m, p.term, w[1]) : r = <<a>> /\ Len(w) = 1
    BY <1>1
  <2>2. a \in Taken
    BY AcceptsOne
  <2> QED  BY <2>1, <2>2
<1>3. LeafRuns(m, p.term) \in [Seq(Name) -> SUBSET Seq(Taken)]
  <2>1. \A w \in Seq(Name) : LeafRuns(m, p.term)[w] \in SUBSET Seq(Taken)
    BY <1>2
  <2>2. LeafRuns(m, p.term) = [w \in Seq(Name) |-> LeafRuns(m, p.term)[w]]
    BY DEF LeafRuns
  <2> QED  BY <2>1, <2>2
<1> QED  BY <1>1, <1>2, <1>3 DEF Language

LEMMA WeavesAfterTaken ==
    ASSUME NEW m, IsMatcher(m), NEW pos \in Positions(m), pos # Len(m.children), NEW a \in Taken,
           NEW o \in Seq(Attributed(m)), NEW w \in Seq(Name), NEW r \in Seq(Taken), Weaves(m, pos + 1, o, w, r)
    PROVE  Weaves(m, pos, <<a>> \o o, <<m.children[pos + 1]>> \o w, <<a>> \o r)
<1>1. Weaves(m, pos, <<a>>, <<m.children[pos + 1]>>, <<a>>)
  BY WeavesTaken
<1>2. <<a>> \in Seq(Attributed(m)) /\ <<a>> \in Seq(Taken) /\ Len(<<a>>) = 1
  BY TakenIsAttributed
<1>3. <<m.children[pos + 1]>> \in Seq(Name)
  BY PositionFacts
<1>4. Weaves(m, pos + Len(<<a>>), o, w, r)
  BY <1>2
<1> QED  BY <1>1, <1>2, <1>3, <1>4, WeavesConcat

LEMMA WeavesAfterOpen ==
    ASSUME NEW m, IsMatcher(m), NEW pos \in Positions(m), pos # Len(m.children),
           Interleaves(m, m.children[pos + 1]),
           NEW o \in Seq(Attributed(m)), NEW w \in Seq(Name), NEW r \in Seq(Taken), Weaves(m, pos + 1, o, w, r)
    PROVE  Weaves(m, pos, <<OpenTaken(m)>> \o o, w, r)
<1>1. Weaves(m, pos, <<OpenTaken(m)>>, << >>, << >>)
  BY WeavesOpen
<1>2. <<OpenTaken(m)>> \in Seq(Attributed(m)) /\ Len(<<OpenTaken(m)>>) = 1
  BY TakenIsAttributed
<1>3. << >> \in Seq(Name) /\ << >> \in Seq(Taken)
  OBVIOUS
<1>4. Weaves(m, pos + Len(<<OpenTaken(m)>>), o, w, r)
  BY <1>2
<1>5. Weaves(m, pos, <<OpenTaken(m)>> \o o, << >> \o w, << >> \o r)
  BY <1>1, <1>2, <1>3, <1>4, WeavesConcat
<1>6. << >> \o w = w /\ << >> \o r = r
  BY ConcatEmpty
<1> QED  BY <1>5, <1>6

(* A term by itself is found, with whatever open content comes before it.  *)
LEMMA LeafAgrees ==
    ASSUME NEW m, IsMatcher(m), NEW p \in Particles
    PROVE  Agree(m, MatchLeaf(m, p.term), LeafRuns(m, p.term))
<1> DEFINE t == p.term
           g == MatchLeaf(m, t)
           h == LeafRuns(m, t)
           P == Positions(m)
           A == Attributed(m)
           S == {pos \in P : AgreeAt(m, pos, g[pos], h)}
<1>1. /\ h \in Language
      /\ \A w \in Seq(Name) : \A r : r \in h[w] <=> Len(w) = 1 /\ \E a \in Accept(m, t, w[1]) : r = <<a>>
  BY LeafRunsFacts
<1>2. g = [pos \in P |-> IF pos = Len(m.children) THEN << >>
                          ELSE Taking(m, t, pos, Nothing) \o Absorbing(m, pos, g[pos + 1])]
  BY LeafSearchExists DEF IsLeafSearch
<1> HIDE DEF g, h
<1>3. ASSUME NEW pos \in P, \A q \in P : q > pos => AgreeAt(m, q, g[q], h) PROVE AgreeAt(m, pos, g[pos], h)
  <2>1. CASE pos = Len(m.children)
    <3>1. g[pos] = << >> /\ ToSet(<< >>) = {} /\ << >> \in Seq(Seq(A))
      BY <1>2, <2>1 DEF ToSet
    <3>2. ASSUME NEW w \in Seq(Name), NEW r \in h[w], NEW o \in Seq(A), Tight(o), Weaves(m, pos, o, w, r)
          PROVE  FALSE
      <4>1. Len(o) = 0
        BY <2>1, <3>2, PositionFacts DEF Weaves
      <4>2. r \in Seq(Taken) /\ Len(w) = 1 /\ o = << >>
        BY <1>1, <4>1, LanguageFacts
      <4>3. w = << >>
        BY <3>2, <4>2, EmptyWeave
      <4> QED  BY <4>2, <4>3
    <3> QED  BY <3>1, <3>2 DEF AgreeAt, Sound, Complete
  <2>2. CASE pos # Len(m.children)
    <3> DEFINE c == m.children[pos + 1]
               later == g[pos + 1]
               taking == Taking(m, t, pos, Nothing)
               absorbing == Absorbing(m, pos, later)
    <3>1. pos + 1 \in P /\ c \in Name /\ pos + 1 > pos
      BY <2>2, PositionFacts
    <3>2. AgreeAt(m, pos + 1, later, h)
      BY <1>3, <3>1
    <3> HIDE DEF later
    <3>3. later \in Seq(Seq(A)) /\ Sound(m, pos + 1, later, h) /\ Complete(m, pos + 1, later, h)
      BY <3>2 DEF AgreeAt
    <3>4. /\ taking \in Seq(Seq(A))
          /\ \A o : o \in ToSet(taking) <=> ByTaking(m, t, pos, Nothing, o)
      BY NothingFacts, TakingFacts
    <3>5. /\ absorbing \in Seq(Seq(A))
          /\ \A o : o \in ToSet(absorbing) <=> ByAbsorbing(m, pos, later, o)
      BY <3>3, AbsorbingFacts
    <3>6. g[pos] = taking \o absorbing
      BY <1>2, <2>2 DEF later
    <3> HIDE DEF taking, absorbing
    <3>7. g[pos] \in Seq(Seq(A)) /\ ToSet(g[pos]) = ToSet(taking) \cup ToSet(absorbing)
      BY <3>4, <3>5, <3>6, ConcatFacts, ToSetConcat
    <3> HIDE DEF c
    <3>8. ASSUME NEW o \in ToSet(taking)
          PROVE  \E w \in Seq(Name) : \E r \in h[w] : Weaves(m, pos, o, w, r)
      <4>1. PICK a \in Accept(m, t, c) : o = <<a>> \o << >>
        BY <3>4, NothingFacts DEF ByTaking, c
      <4>2. a \in Taken
        BY AcceptsOne
      <4>3. o = <<a>>
        BY <4>1, <4>2
      <4>4. Weaves(m, pos, <<a>>, <<c>>, <<a>>)
        BY <2>2, <4>2, WeavesTaken DEF c
      <4>5. <<c>> \in Seq(Name) /\ Len(<<c>>) = 1 /\ <<c>>[1] = c
        BY <3>1
      <4>6. <<a>> \in h[<<c>>]
        BY <1>1, <4>5
      <4> QED  BY <4>3, <4>4, <4>5, <4>6
    <3>9. ASSUME NEW o \in ToSet(absorbing)
          PROVE  \E w \in Seq(Name) : \E r \in h[w] : Weaves(m, pos, o, w, r)
      <4>1. PICK o2 \in ToSet(later) : o = <<OpenTaken(m)>> \o o2
        BY <3>5 DEF ByAbsorbing
      <4>2. Interleaves(m, c) /\ o2 \in Seq(A)
        BY <3>3, <3>5, MemberOfSeq DEF ByAbsorbing, c
      <4>3. PICK w \in Seq(Name) : \E r \in h[w] : Weaves(m, pos + 1, o2, w, r)
        BY <3>3 DEF Sound
      <4>4. PICK r \in h[w] : Weaves(m, pos + 1, o2, w, r)
        BY <4>3
      <4>5. r \in Seq(Taken)
        BY <1>1, LanguageFacts
      <4>6. Weaves(m, pos, o, w, r)
        BY <2>2, <4>1, <4>2, <4>4, <4>5, WeavesAfterOpen DEF c
      <4> QED  BY <4>6
    <3>10. ASSUME NEW w \in Seq(Name), NEW r \in h[w], NEW o \in Seq(A), Tight(o), Weaves(m, pos, o, w, r)
          PROVE  o \in ToSet(taking) \cup ToSet(absorbing)
      <4>1. PICK a \in Accept(m, t, w[1]) : r = <<a>>
        BY <1>1
      <4>8. Len(w) = 1
        BY <1>1
      <4>2. a \in Taken /\ r \in Seq(Taken)
        BY <1>1, AcceptsOne, LanguageFacts
      <4>3. o # << >>
        <5> SUFFICES ASSUME o = << >> PROVE FALSE
          OBVIOUS
        <5>1. w = << >>
          BY <3>10, <4>2, EmptyWeave
        <5> QED  BY <4>8, <5>1
      <4>4. o = <<o[1]>> \o Tail(o) /\ Tail(o) \in Seq(A)
        BY <4>3, TailFacts
      <4>5. /\ Tight(Tail(o))
            /\ \/ o[1] = r[1] /\ w[1] = c /\ Weaves(m, pos + 1, Tail(o), Tail(w), Tail(r))
               \/ o[1] = OpenTaken(m) /\ Interleaves(m, c) /\ Weaves(m, pos + 1, Tail(o), w, r)
        BY <3>10, <4>2, <4>3, WeavesHead DEF c
      <4>6. CASE o[1] = r[1] /\ w[1] = c /\ Weaves(m, pos + 1, Tail(o), Tail(w), Tail(r))
        <5>1. Tail(w) = << >> /\ Tail(r) = << >> /\ r[1] = a
          <6>1. Len(Tail(w)) = 0 /\ Tail(w) \in Seq(Name)
            <7>1. w # << >>
              <8> SUFFICES ASSUME w = << >> PROVE FALSE
                OBVIOUS
              <8>1. Len(<< >>) = 0
                OBVIOUS
              <8> QED  BY <4>8, <8>1
            <7> QED  BY <7>1, <4>8, TailFacts
          <6>2. Len(r) = 1 /\ r[1] = a
            BY <4>1
          <6>3. Len(Tail(r)) = 0 /\ Tail(r) \in Seq(Taken)
            BY <4>2, <6>2
          <6>4. Tail(w) = << >>
            BY <6>1, EmptyIsZero
          <6>5. Tail(r) = << >>
            BY <6>3, EmptyIsZero
          <6> QED  BY <6>2, <6>4, <6>5
        <5>2. Tail(o) = << >>
          BY <4>4, <4>5, <4>6, <5>1, TightWeaveOfNothing
        <5>3. o = <<a>> \o << >> /\ a \in Accept(m, t, c) /\ << >> \in ToSet(Nothing)
          BY <4>1, <4>4, <4>6, <5>1, <5>2, NothingFacts
        <5> QED  BY <3>4, <5>3 DEF ByTaking, c
      <4>7. CASE o[1] = OpenTaken(m) /\ Interleaves(m, c) /\ Weaves(m, pos + 1, Tail(o), w, r)
        <5>1. Tail(o) \in ToSet(later)
          BY <3>3, <4>4, <4>5, <4>7 DEF Complete
        <5> QED  BY <3>5, <4>4, <4>7, <5>1 DEF ByAbsorbing, c
      <4> QED  BY <4>5, <4>6, <4>7
    <3> QED  BY <3>7, <3>8, <3>9, <3>10 DEF AgreeAt, Sound, Complete
  <2> QED  BY <2>1, <2>2
<1>4. P \subseteq S
  <2>1. \A pos \in P : (\A q \in P : q > pos => q \in S) => pos \in S
    BY <1>3
  <2> HIDE DEF S
  <2> QED  BY <2>1, PositionInduction
<1>5. \A pos \in P : AgreeAt(m, pos, g[pos], h)
  BY <1>4
<1>6. g \in [P -> Seq(Seq(A))]
  <2>1. \A pos \in P : g[pos] \in Seq(Seq(A))
    BY <1>5 DEF AgreeAt
  <2> HIDE DEF P, A
  <2> QED  BY <1>2, <2>1
<1> QED  BY <1>1, <1>5, <1>6 DEF Agree, g, h

LEMMA AgreeFacts ==
    ASSUME NEW m, IsMatcher(m), NEW g, NEW h, Agree(m, g, h), NEW pos \in Positions(m)
    PROVE  /\ g[pos] \in Seq(Seq(Attributed(m))) /\ AgreeAt(m, pos, g[pos], h) /\ h \in Language
           /\ \A k \in DOMAIN g[pos] : /\ g[pos][k] \in Seq(Attributed(m)) /\ g[pos][k] \in ToSet(g[pos])
                                       /\ pos + Len(g[pos][k]) \in Positions(m)
<1>1. AgreeAt(m, pos, g[pos], h) /\ h \in Language
  BY DEF Agree
<1>2. g[pos] \in Seq(Seq(Attributed(m))) /\ Sound(m, pos, g[pos], h)
  BY <1>1 DEF AgreeAt
<1>3. ASSUME NEW k \in DOMAIN g[pos]
      PROVE  /\ g[pos][k] \in Seq(Attributed(m)) /\ g[pos][k] \in ToSet(g[pos])
             /\ pos + Len(g[pos][k]) \in Positions(m)
  <2>1. g[pos][k] \in Seq(Attributed(m)) /\ g[pos][k] \in ToSet(g[pos])
    BY <1>2, MemberOfSeq
  <2>2. pos + Len(g[pos][k]) <= Len(m.children)
    BY <1>2, <2>1 DEF Sound, Weaves
  <2>3. Len(g[pos][k]) \in Nat
    BY <2>1
  <2> QED  BY <2>1, <2>2, <2>3, PositionFacts
<1> QED  BY <1>1, <1>2, <1>3

-----------------------------------------------------------------------------
(* One after the other: of the outcomes, of the runs, and of both.         *)
Continued(first, next) == FlattenSeq([k \in DOMAIN first |-> Prefixed(first[k], next[k])])

ByContinuing(first, next, o) == \E k \in DOMAIN first : \E o2 \in ToSet(next[k]) : o = first[k] \o o2

LEMMA ContinuedFacts ==
    ASSUME NEW A, NEW first \in Seq(Seq(A)), NEW next \in [DOMAIN first -> Seq(Seq(A))]
    PROVE  /\ Continued(first, next) \in Seq(Seq(A))
           /\ \A o : o \in ToSet(Continued(first, next)) <=> ByContinuing(first, next, o)
<1> DEFINE parts == [k \in DOMAIN first |-> Prefixed(first[k], next[k])]
<1>1. \A k \in DOMAIN first : /\ Prefixed(first[k], next[k]) \in Seq(Seq(A))
                              /\ ToSet(Prefixed(first[k], next[k])) = {first[k] \o o : o \in ToSet(next[k])}
  <2> SUFFICES ASSUME NEW k \in DOMAIN first
               PROVE  /\ Prefixed(first[k], next[k]) \in Seq(Seq(A))
                      /\ ToSet(Prefixed(first[k], next[k])) = {first[k] \o o : o \in ToSet(next[k])}
    OBVIOUS
  <2>1. first[k] \in Seq(A) /\ next[k] \in Seq(Seq(A))
    OBVIOUS
  <2> QED  BY <2>1, PrefixedFacts
<1>2. parts \in Seq(Seq(Seq(A))) /\ DOMAIN parts = DOMAIN first
  <2>1. DOMAIN first = 1..Len(first) /\ Len(first) \in Nat
    OBVIOUS
  <2> QED  BY <1>1, <2>1
<1>3. /\ FlattenSeq(parts) \in Seq(Seq(A))
      /\ ToSet(FlattenSeq(parts)) = UNION {ToSet(parts[i]) : i \in DOMAIN parts}
  BY <1>2, FlattenFacts
<1>4. \A k \in DOMAIN first : ToSet(parts[k]) = {first[k] \o o : o \in ToSet(next[k])}
  BY <1>1
<1>5. Continued(first, next) = FlattenSeq(parts)
  BY DEF Continued
<1> HIDE DEF parts
<1>6. ASSUME NEW o
      PROVE  o \in ToSet(FlattenSeq(parts)) <=> ByContinuing(first, next, o)
  <2>1. o \in ToSet(FlattenSeq(parts)) <=> \E k \in DOMAIN first : o \in ToSet(parts[k])
    BY <1>2, <1>3
  <2> QED  BY <2>1, <1>4 DEF ByContinuing
<1> QED  BY <1>3, <1>5, <1>6

LEMMA ConcatenationFacts ==
    ASSUME NEW A, NEW B, NEW a \in A, NEW b \in B
    PROVE  a \o b \in Concatenations(A, B)
  BY DEF Concatenations

Joined(h1, h2) == [v \in Seq(Name) |-> UNION {Concatenations(h1[c[1]], h2[c[2]]) : c \in Cuts(v)}]

JoinedRun(h1, h2, v, r) ==
    \E v1, v2 \in Seq(Name) : \E r1 \in h1[v1], r2 \in h2[v2] : v = v1 \o v2 /\ r = r1 \o r2

LEMMA CutsFacts ==
    ASSUME NEW v \in Seq(Name)
    PROVE  /\ \A c \in Cuts(v) : c[1] \in Seq(Name) /\ c[2] \in Seq(Name) /\ v = c[1] \o c[2]
           /\ \A v1, v2 \in Seq(Name) : v = v1 \o v2 => <<v1, v2>> \in Cuts(v)
<1>1. ASSUME NEW c \in Cuts(v)
      PROVE  c[1] \in Seq(Name) /\ c[2] \in Seq(Name) /\ v = c[1] \o c[2]
  <2>1. PICK n \in 0..Len(v) : c = <<SubSeq(v, 1, n), SubSeq(v, n + 1, Len(v))>>
    BY DEF Cuts
  <2> DEFINE s == SubSeq(v, 1, n)
             t == SubSeq(v, n + 1, Len(v))
  <2>2. s \in Seq(Name) /\ t \in Seq(Name) /\ v = s \o t
    BY CutFacts
  <2>3. c[1] = s /\ c[2] = t
    BY <2>1
  <2> HIDE DEF s, t
  <2> QED  BY <2>2, <2>3
<1>2. ASSUME NEW v1 \in Seq(Name), NEW v2 \in Seq(Name), v = v1 \o v2
      PROVE  <<v1, v2>> \in Cuts(v)
  <2> DEFINE n == Len(v1)
             s == SubSeq(v, 1, n)
             t == SubSeq(v, n + 1, Len(v))
  <2>1. n \in 0..Len(v) /\ Len(v) = n + Len(v2) /\ Len(v2) \in Nat /\ n \in Nat
    BY <1>2, ConcatFacts
  <2>2. /\ s \in Seq(Name) /\ Len(s) = n /\ \A i \in 1..n : s[i] = v[i]
        /\ t \in Seq(Name) /\ Len(t) = Len(v) - n /\ \A i \in 1..(Len(v) - n) : t[i] = v[n + i]
    BY <2>1, CutFacts
  <2>3. (\A i \in 1..n : v[i] = v1[i]) /\ (\A i \in 1..Len(v2) : v[n + i] = v2[i])
    BY <1>2, ConcatFacts
  <2> HIDE DEF s, t
  <2>4. s = v1
    <3>1. \A i \in 1..Len(v1) : s[i] = v1[i]
      BY <2>2, <2>3
    <3> QED  BY <2>2, <3>1, SameSeq
  <2>5. t = v2
    <3>1. Len(t) = Len(v2) /\ Len(v) - n = Len(v2)
      BY <2>1, <2>2
    <3>2. \A i \in 1..Len(v2) : t[i] = v2[i]
      BY <2>2, <2>3, <3>1
    <3> QED  BY <2>2, <3>1, <3>2, SameSeq
  <2> QED  BY <2>1, <2>4, <2>5 DEF Cuts, s, t
<1> QED  BY <1>1, <1>2

LEMMA JoinedFacts ==
    ASSUME NEW h1 \in Language, NEW h2 \in Language
    PROVE  /\ Joined(h1, h2) \in Language
           /\ \A v \in Seq(Name) : \A r : r \in Joined(h1, h2)[v] <=> JoinedRun(h1, h2, v, r)
<1> DEFINE h == Joined(h1, h2)
<1>1. ASSUME NEW v \in Seq(Name), NEW r, r \in h[v] PROVE JoinedRun(h1, h2, v, r)
  <2>1. PICK c \in Cuts(v) : r \in Concatenations(h1[c[1]], h2[c[2]])
    BY <1>1 DEF Joined
  <2>2. PICK r1 \in h1[c[1]], r2 \in h2[c[2]] : r = r1 \o r2
    BY <2>1 DEF Concatenations
  <2>3. c[1] \in Seq(Name) /\ c[2] \in Seq(Name) /\ v = c[1] \o c[2]
    BY CutsFacts
  <2> QED  BY <2>2, <2>3 DEF JoinedRun
<1>2. ASSUME NEW v \in Seq(Name), NEW r, JoinedRun(h1, h2, v, r) PROVE r \in h[v]
  <2>1. PICK v1 \in Seq(Name), v2 \in Seq(Name) : \E r1 \in h1[v1], r2 \in h2[v2] : v = v1 \o v2 /\ r = r1 \o r2
    BY <1>2 DEF JoinedRun
  <2>2. PICK r1 \in h1[v1], r2 \in h2[v2] : v = v1 \o v2 /\ r = r1 \o r2
    BY <2>1
  <2> DEFINE c == <<v1, v2>>
  <2>3. c \in Cuts(v) /\ c[1] = v1 /\ c[2] = v2
    BY <2>2, CutsFacts
  <2> HIDE DEF c
  <2>4. r \in Concatenations(h1[v1], h2[v2])
    BY <2>2, ConcatenationFacts
  <2>5. r \in Concatenations(h1[c[1]], h2[c[2]])
    BY <2>3, <2>4
  <2> QED  BY <2>3, <2>5 DEF Joined
<1>3. ASSUME NEW v \in Seq(Name), NEW r \in h[v] PROVE r \in Seq(Taken) /\ Len(r) = Len(v)
  <2>0. JoinedRun(h1, h2, v, r)
    BY <1>1
  <2>1. PICK v1 \in Seq(Name), v2 \in Seq(Name) : \E r1 \in h1[v1], r2 \in h2[v2] : v = v1 \o v2 /\ r = r1 \o r2
    BY <2>0 DEF JoinedRun
  <2>2. PICK r1 \in h1[v1], r2 \in h2[v2] : v = v1 \o v2 /\ r = r1 \o r2
    BY <2>1
  <2>3. r1 \in Seq(Taken) /\ Len(r1) = Len(v1) /\ r2 \in Seq(Taken) /\ Len(r2) = Len(v2)
    BY LanguageFacts
  <2>4. Len(v1 \o v2) = Len(v1) + Len(v2)
    BY ConcatFacts
  <2>5. r1 \o r2 \in Seq(Taken) /\ Len(r1 \o r2) = Len(r1) + Len(r2)
    BY <2>3, ConcatFacts
  <2> QED  BY <2>2, <2>3, <2>4, <2>5
<1>4. h \in [Seq(Name) -> SUBSET Seq(Taken)]
  <2>1. h = [v \in Seq(Name) |-> h[v]]
    BY DEF Joined
  <2> HIDE DEF h
  <2> QED  BY <1>3, <2>1
<1> QED  BY <1>1, <1>2, <1>3, <1>4 DEF Language

LEMMA JoinedAgrees ==
    ASSUME NEW m, IsMatcher(m), NEW pos \in Positions(m), NEW h1 \in Language, NEW h2 \in Language,
           NEW first \in Seq(Seq(Attributed(m))), AgreeAt(m, pos, first, h1),
           NEW next \in [DOMAIN first -> Seq(Seq(Attributed(m)))],
           \A k \in DOMAIN first : pos + Len(first[k]) \in Positions(m) /\ AgreeAt(m, pos + Len(first[k]), next[k], h2)
    PROVE  AgreeAt(m, pos, Continued(first, next), Joined(h1, h2))
<1> DEFINE A == Attributed(m)
           outcomes == Continued(first, next)
           h == Joined(h1, h2)
<1>1. /\ outcomes \in Seq(Seq(A))
      /\ \A o : o \in ToSet(outcomes) <=> ByContinuing(first, next, o)
  BY ContinuedFacts
<1>2. \A v \in Seq(Name) : \A r : r \in h[v] <=> JoinedRun(h1, h2, v, r)
  BY JoinedFacts
<1> HIDE DEF outcomes, h
<1>3. ASSUME NEW o \in ToSet(outcomes)
      PROVE  \E w \in Seq(Name) : \E r \in h[w] : Weaves(m, pos, o, w, r)
  <2>1. PICK k \in DOMAIN first : \E o2 \in ToSet(next[k]) : o = first[k] \o o2
    BY <1>1, <1>3 DEF ByContinuing
  <2>2. PICK o2 \in ToSet(next[k]) : o = first[k] \o o2
    BY <2>1
  <2> DEFINE o1 == first[k]
  <2>3. o1 \in Seq(A) /\ o1 \in ToSet(first)
    BY MemberOfSeq
  <2>4. next[k] \in Seq(Seq(A)) /\ AgreeAt(m, pos + Len(o1), next[k], h2)
    OBVIOUS
  <2>5. o2 \in Seq(A)
    BY <2>4, MemberOfSeq
  <2> HIDE DEF o1
  <2>6. PICK w1 \in Seq(Name) : \E r1 \in h1[w1] : Weaves(m, pos, o1, w1, r1)
    BY <2>3 DEF AgreeAt, Sound
  <2>7. PICK r1 \in h1[w1] : Weaves(m, pos, o1, w1, r1)
    BY <2>6
  <2>8. PICK w2 \in Seq(Name) : \E r2 \in h2[w2] : Weaves(m, pos + Len(o1), o2, w2, r2)
    BY <2>4 DEF AgreeAt, Sound
  <2>9. PICK r2 \in h2[w2] : Weaves(m, pos + Len(o1), o2, w2, r2)
    BY <2>8
  <2>10. r1 \in Seq(Taken) /\ r2 \in Seq(Taken)
    BY LanguageFacts
  <2>11. Weaves(m, pos, o1 \o o2, w1 \o w2, r1 \o r2)
    BY <2>3, <2>5, <2>7, <2>9, <2>10, WeavesConcat
  <2>12. w1 \o w2 \in Seq(Name)
    BY ConcatFacts
  <2>13. JoinedRun(h1, h2, w1 \o w2, r1 \o r2)
    BY DEF JoinedRun
  <2>14. r1 \o r2 \in h[w1 \o w2]
    BY <1>2, <2>12, <2>13
  <2> QED  BY <2>2, <2>11, <2>12, <2>14 DEF o1
<1>4. ASSUME NEW w \in Seq(Name), NEW r \in h[w], NEW o \in Seq(A), Tight(o), Weaves(m, pos, o, w, r)
      PROVE  o \in ToSet(outcomes)
  <2>0. JoinedRun(h1, h2, w, r)
    BY <1>2
  <2>1. PICK w1 \in Seq(Name), w2 \in Seq(Name) : \E r1 \in h1[w1], r2 \in h2[w2] : w = w1 \o w2 /\ r = r1 \o r2
    BY <2>0 DEF JoinedRun
  <2>2. PICK r1 \in h1[w1], r2 \in h2[w2] : w = w1 \o w2 /\ r = r1 \o r2
    BY <2>1
  <2>3. r1 \in Seq(Taken) /\ r2 \in Seq(Taken) /\ Len(w1) = Len(r1)
    BY LanguageFacts
  <2>4. Weaves(m, pos, o, w1 \o w2, r1 \o r2)
    BY <1>4, <2>2
  <2>5. PICK o1 \in Seq(A), o2 \in Seq(A) :
          /\ o = o1 \o o2 /\ Tight(o1) /\ Tight(o2)
          /\ Weaves(m, pos, o1, w1, r1) /\ Weaves(m, pos + Len(o1), o2, w2, r2)
    <3>1. SplitWeave(m, pos, o, w1, r1, w2, r2)
      BY <1>4, <2>3, <2>4, WeavesSplit
    <3> QED  BY <3>1 DEF SplitWeave
  <2>6. o1 \in ToSet(first)
    BY <2>5 DEF AgreeAt, Complete
  <2>7. PICK k \in DOMAIN first : first[k] = o1
    BY <2>6 DEF ToSet
  <2>8. AgreeAt(m, pos + Len(o1), next[k], h2)
    BY <2>7
  <2>9. o2 \in ToSet(next[k])
    BY <2>5, <2>8 DEF AgreeAt, Complete
  <2>10. ByContinuing(first, next, o)
    BY <2>5, <2>7, <2>9 DEF ByContinuing
  <2> QED  BY <1>1, <2>10
<1>5. Sound(m, pos, outcomes, h) /\ Complete(m, pos, outcomes, h)
  BY <1>3, <1>4 DEF Sound, Complete
<1> QED  BY <1>1, <1>5 DEF AgreeAt, outcomes, h

-----------------------------------------------------------------------------
(* Functions of the member of a sequence that ask for the next one only.   *)
LEMMA DownInduction ==
    ASSUME NEW N \in Nat, NEW S, N + 1 \in S, \A i \in 1..N : i + 1 \in S => i \in S
    PROVE  1..(N + 1) \subseteq S
<1> DEFINE T == {k \in Nat : k <= N => (N + 1) - k \in S}
<1>1. 0 \in T
  OBVIOUS
<1>2. ASSUME NEW k \in Nat, k \in T PROVE k + 1 \in T
  <2> SUFFICES ASSUME k + 1 <= N PROVE (N + 1) - (k + 1) \in S
    OBVIOUS
  <2>1. (N + 1) - k \in S /\ (N + 1) - (k + 1) \in 1..N /\ ((N + 1) - (k + 1)) + 1 = (N + 1) - k
    BY <1>2
  <2> QED  BY <2>1
<1>3. Nat \subseteq T
  BY <1>1, <1>2, InductionOnNat
<1> SUFFICES ASSUME NEW i \in 1..(N + 1) PROVE i \in S
  OBVIOUS
<1>4. (N + 1) - i \in Nat /\ (N + 1) - i <= N /\ (N + 1) - ((N + 1) - i) = i
  OBVIOUS
<1> QED  BY <1>3, <1>4

Downward(N, first, step, f) == f = [i \in 1..(N + 1) |-> IF i > N THEN first ELSE step[i][f[i + 1]]]

LEMMA DownRecursion ==
    \A N, R, first, step :
      N \in Nat /\ first \in R /\ step \in [1..N -> [R -> R]] => \E f : Downward(N, first, step, f)
<1> SUFFICES ASSUME NEW N \in Nat, NEW R, NEW first \in R, NEW step \in [1..N -> [R -> R]]
             PROVE  \E f : Downward(N, first, step, f)
  OBVIOUS
<1> DEFINE D == 1..(N + 1)
           rank == [i \in D |-> (N + 1) - i]
           body(i, g) == IF i > N THEN first ELSE step[i][g[i + 1]]
           next == [i \in D |-> [g \in [D -> R] |-> body(i, g)]]
<1>1. rank \in [D -> Nat]
  OBVIOUS
<1>2. \A i \in D : i <= N => i \in 1..N /\ i + 1 \in D /\ rank[i + 1] < rank[i]
  OBVIOUS
<1> HIDE DEF D, rank
<1>3. \A i \in D, g \in [D -> R] : body(i, g) \in R
  <2> SUFFICES ASSUME NEW i \in D, NEW g \in [D -> R] PROVE body(i, g) \in R
    OBVIOUS
  <2>1. i \in Int
    BY DEF D
  <2>2. CASE i > N
    BY <2>2
  <2>3. CASE i <= N
    <3>1. i \in 1..N /\ g[i + 1] \in R
      BY <1>2, <2>3
    <3> QED  BY <2>1, <2>3, <3>1
  <2> QED  BY <2>1, <2>2, <2>3
<1>4. \A i \in D, g \in [D -> R] : next[i][g] = body(i, g)
  OBVIOUS
<1>5. next \in [D -> [[D -> R] -> R]]
  BY <1>3
<1>6. ASSUME NEW i \in D, NEW g \in [D -> R], NEW h \in [D -> R],
             \A j \in D : rank[j] < rank[i] => g[j] = h[j]
      PROVE  body(i, g) = body(i, h)
  <2>1. CASE i > N
    BY <2>1
  <2>2. CASE ~(i > N)
    <3>1. i <= N
      BY <2>2 DEF D
    <3>2. g[i + 1] = h[i + 1]
      BY <1>2, <1>6, <3>1
    <3> QED  BY <2>2, <3>2
  <2> QED  BY <2>1, <2>2
<1> HIDE DEF next, body
<1>7. \A i \in D : \A g, h \in [D -> R] :
        (\A j \in D : rank[j] < rank[i] => g[j] = h[j]) => next[i][g] = next[i][h]
  BY <1>4, <1>6
<1>8. WellRanked(D, rank, next, R)
  BY <1>1, <1>5, <1>7 DEF WellRanked, StepsByRank
<1>9. PICK f \in [D -> R] : \A i \in D : f[i] = next[i][f]
  BY <1>8, RankedRecursion
<1>10. \A i \in D : f[i] = body(i, f)
  BY <1>4, <1>9
<1>11. f = [i \in D |-> body(i, f)]
  BY <1>9, <1>10
<1> QED  BY <1>11 DEF Downward, D, body

-----------------------------------------------------------------------------
(* matchSeq                                                                *)
LEMMA EmptyRunAgrees ==
    ASSUME NEW m, IsMatcher(m)
    PROVE  Agree(m, [pos \in Positions(m) |-> Nothing], [v \in Seq(Name) |-> EmptyRun(v)])
<1> DEFINE g == [pos \in Positions(m) |-> Nothing]
           h == [v \in Seq(Name) |-> EmptyRun(v)]
<1>1. \A v \in Seq(Name) : \A r : r \in h[v] <=> v = << >> /\ r = << >>
  BY DEF EmptyRun
<1>2. \A v \in Seq(Name) : h[v] \in SUBSET Seq(Taken) /\ \A r \in h[v] : Len(r) = Len(v)
  BY <1>1
<1>3. h \in Language
  BY <1>2 DEF Language
<1>4. Nothing \in Seq(Seq(Attributed(m))) /\ ToSet(Nothing) = {<< >>}
  BY NothingFacts
<1>5. ASSUME NEW pos \in Positions(m) PROVE AgreeAt(m, pos, Nothing, h)
  <2> HIDE DEF h
  <2>0. << >> \in Seq(Name)
    OBVIOUS
  <2>1. << >> \in Seq(Name) /\ << >> \in h[<< >>]
    BY <1>1, <2>0
  <2>2. Weaves(m, pos, << >>, << >>, << >>)
    BY WeavesNothing
  <2>3. Sound(m, pos, Nothing, h)
    BY <1>4, <2>1, <2>2 DEF Sound
  <2>4. ASSUME NEW w \in Seq(Name), NEW r \in h[w], NEW o \in Seq(Attributed(m)), Tight(o), Weaves(m, pos, o, w, r)
        PROVE  o \in ToSet(Nothing)
    <3>1. w = << >> /\ r = << >>
      BY <1>1
    <3>2. o = << >>
      BY <2>4, <3>1, TightWeaveOfNothing
    <3> QED  BY <1>4, <3>2
  <2> QED  BY <1>4, <2>3, <2>4 DEF AgreeAt, Complete
<1>6. g \in [Positions(m) -> Seq(Seq(Attributed(m)))] /\ \A pos \in Positions(m) : g[pos] = Nothing
  BY <1>4
<1> HIDE DEF g, h
<1>7. Agree(m, g, h)
  BY <1>3, <1>5, <1>6 DEF Agree
<1> QED  BY <1>7 DEF g, h

Following(m, g1, g2) ==
    [pos \in Positions(m) |-> Continued(g1[pos], [k \in DOMAIN g1[pos] |-> g2[pos + Len(g1[pos][k])]])]

LEMMA FollowingAgrees ==
    ASSUME NEW m, IsMatcher(m), NEW g1, NEW h1, Agree(m, g1, h1), NEW g2, NEW h2, Agree(m, g2, h2)
    PROVE  Agree(m, Following(m, g1, g2), Joined(h1, h2))
<1> DEFINE next(pos) == [k \in DOMAIN g1[pos] |-> g2[pos + Len(g1[pos][k])]]
<1>1. h1 \in Language /\ h2 \in Language
  BY DEF Agree
<1>2. ASSUME NEW pos \in Positions(m)
      PROVE  AgreeAt(m, pos, Continued(g1[pos], next(pos)), Joined(h1, h2))
  <2> DEFINE first == g1[pos]
             then == next(pos)
  <2>1. /\ first \in Seq(Seq(Attributed(m))) /\ AgreeAt(m, pos, first, h1)
        /\ \A k \in DOMAIN first : pos + Len(first[k]) \in Positions(m)
    BY AgreeFacts
  <2>2. \A k \in DOMAIN first : /\ then[k] \in Seq(Seq(Attributed(m)))
                                /\ AgreeAt(m, pos + Len(first[k]), then[k], h2)
    <3> SUFFICES ASSUME NEW k \in DOMAIN first
                 PROVE  /\ then[k] \in Seq(Seq(Attributed(m)))
                        /\ AgreeAt(m, pos + Len(first[k]), then[k], h2)
      OBVIOUS
    <3>1. pos + Len(first[k]) \in Positions(m)
      BY <2>1
    <3>2. then[k] = g2[pos + Len(first[k])]
      OBVIOUS
    <3> QED  BY <3>1, <3>2, AgreeFacts
  <2>3. then \in [DOMAIN first -> Seq(Seq(Attributed(m)))]
    <3>1. then = [k \in DOMAIN first |-> then[k]]
      OBVIOUS
    <3> HIDE DEF then, first
    <3> QED  BY <2>2, <3>1
  <2> HIDE DEF first, then
  <2>4. AgreeAt(m, pos, Continued(first, then), Joined(h1, h2))
    BY <1>1, <2>1, <2>2, <2>3, JoinedAgrees
  <2> QED  BY <2>4 DEF first, then
<1>3. Joined(h1, h2) \in Language
  BY <1>1, JoinedFacts
<1>4. \A pos \in Positions(m) : Following(m, g1, g2)[pos] = Continued(g1[pos], next(pos))
  BY DEF Following
<1>5. \A pos \in Positions(m) : /\ AgreeAt(m, pos, Following(m, g1, g2)[pos], Joined(h1, h2))
                                /\ Following(m, g1, g2)[pos] \in Seq(Seq(Attributed(m)))
  <2> HIDE DEF next
  <2> QED  BY <1>2, <1>4 DEF AgreeAt
<1>6. Following(m, g1, g2) = [pos \in Positions(m) |-> Following(m, g1, g2)[pos]]
  BY DEF Following
<1> QED  BY <1>3, <1>5, <1>6 DEF Agree

(* A search takes no more children than there are.                         *)
LEMMA AgreeSearches ==
    ASSUME NEW m, IsMatcher(m), NEW g, NEW h, Agree(m, g, h)
    PROVE  g \in Search(m) /\ h \in Language
<1>1. g \in [Positions(m) -> Seq(Seq(Attributed(m)))] /\ h \in Language
  BY DEF Agree
<1>2. \A pos \in Positions(m) : Sound(m, pos, g[pos], h)
  BY DEF Agree, AgreeAt
<1>3. \A pos \in Positions(m) : \A o \in ToSet(g[pos]) : pos + Len(o) <= Len(m.children)
  BY <1>2 DEF Sound, Weaves
<1> QED  BY <1>1, <1>3 DEF Search

IsSeqSearch(m, parts, inner, f) ==
    f = [i \in 1..(Len(parts) + 1) |->
           [pos \in Positions(m) |->
              IF i > Len(parts) THEN Nothing
              ELSE LET first == inner[i][pos]
                   IN  FlattenSeq([k \in DOMAIN first |-> Prefixed(first[k], f[i + 1][pos + Len(first[k])])])]]

IsSeqRuns(parts, runs, f) ==
    f = [i \in 1..(Len(parts) + 1) |->
           [v \in Seq(Name) |->
              IF i > Len(parts) THEN EmptyRun(v)
              ELSE UNION {Concatenations(runs[i][c[1]], f[i + 1][c[2]]) : c \in Cuts(v)}]]

LEMMA SeqSearchUnfolds ==
    ASSUME NEW m, NEW parts, Len(parts) \in Nat, NEW inner, NEW f, NEW first,
           first = [pos \in Positions(m) |-> Nothing],
           \A i \in 1..(Len(parts) + 1) :
             f[i] = IF i > Len(parts) THEN first ELSE Following(m, inner[i], f[i + 1]),
           f = [i \in 1..(Len(parts) + 1) |-> f[i]]
    PROVE  IsSeqSearch(m, parts, inner, f)
<1> DEFINE E(i) ==
           [pos \in Positions(m) |->
              IF i > Len(parts) THEN Nothing
              ELSE LET first2 == inner[i][pos]
                   IN  FlattenSeq([k \in DOMAIN first2 |-> Prefixed(first2[k], f[i + 1][pos + Len(first2[k])])])]
<1>1. ASSUME NEW i \in 1..(Len(parts) + 1) PROVE f[i] = E(i)
  <2>1. CASE i > Len(parts)
    BY <2>1
  <2>2. CASE ~(i > Len(parts))
    <3>1. f[i] = Following(m, inner[i], f[i + 1])
      BY <2>2
    <3>2. Following(m, inner[i], f[i + 1]) = E(i)
      BY <2>2 DEF Following, Continued
    <3> QED  BY <3>1, <3>2
  <2> QED  BY <2>1, <2>2
<1> HIDE DEF E
<1>2. f = [i \in 1..(Len(parts) + 1) |-> E(i)]
  BY <1>1
<1> QED  BY <1>2 DEF IsSeqSearch, E

LEMMA SeqRunsUnfolds ==
    ASSUME NEW parts, Len(parts) \in Nat, NEW runs, NEW f, NEW first,
           first = [v \in Seq(Name) |-> EmptyRun(v)],
           \A i \in 1..(Len(parts) + 1) :
             f[i] = IF i > Len(parts) THEN first ELSE Joined(runs[i], f[i + 1]),
           f = [i \in 1..(Len(parts) + 1) |-> f[i]]
    PROVE  IsSeqRuns(parts, runs, f)
<1> DEFINE E(i) ==
           [v \in Seq(Name) |->
              IF i > Len(parts) THEN EmptyRun(v)
              ELSE UNION {Concatenations(runs[i][c[1]], f[i + 1][c[2]]) : c \in Cuts(v)}]
<1>1. ASSUME NEW i \in 1..(Len(parts) + 1) PROVE f[i] = E(i)
  <2>1. CASE i > Len(parts)
    BY <2>1
  <2>2. CASE ~(i > Len(parts))
    <3>1. f[i] = Joined(runs[i], f[i + 1])
      BY <2>2
    <3>2. Joined(runs[i], f[i + 1]) = E(i)
      BY <2>2 DEF Joined
    <3> QED  BY <3>1, <3>2
  <2> QED  BY <2>1, <2>2
<1> HIDE DEF E
<1>2. f = [i \in 1..(Len(parts) + 1) |-> E(i)]
  BY <1>1
<1> QED  BY <1>2 DEF IsSeqRuns, E

(* Members' searches and languages, one after the other.                   *)
LEMMA SeqSearchExists ==
    ASSUME NEW m, IsMatcher(m), NEW parts, Len(parts) \in Nat, NEW inner,
           \A i \in 1..Len(parts) : inner[i] \in Search(m)
    PROVE  IsSeqSearch(m, parts, inner, CHOOSE f : IsSeqSearch(m, parts, inner, f))
<1> DEFINE N == Len(parts)
           A == Attributed(m)
           R == [Positions(m) -> Seq(Seq(A))]
           first == [pos \in Positions(m) |-> Nothing]
           step == [i \in 1..N |-> [g \in R |-> Following(m, inner[i], g)]]
<1>1. first \in R
  BY NothingFacts
<1>2. ASSUME NEW i \in 1..N, NEW g \in R PROVE Following(m, inner[i], g) \in R
  <2> DEFINE k1 == inner[i]
  <2>1. k1 \in Search(m)
    OBVIOUS
  <2> HIDE DEF k1
  <2>2. ASSUME NEW pos \in Positions(m)
        PROVE  Continued(k1[pos], [k \in DOMAIN k1[pos] |-> g[pos + Len(k1[pos][k])]]) \in Seq(Seq(A))
    <3> DEFINE s == k1[pos]
               next == [k \in DOMAIN s |-> g[pos + Len(s[k])]]
    <3>1. s \in Seq(Seq(A)) /\ \A o \in ToSet(s) : pos + Len(o) \in Positions(m)
      BY <2>1, SearchFacts
    <3> HIDE DEF s
    <3>2. \A k \in DOMAIN s : s[k] \in ToSet(s)
      BY <3>1, MemberOfSeq
    <3>3. next \in [DOMAIN s -> Seq(Seq(A))]
      BY <3>1, <3>2
    <3> HIDE DEF next
    <3>4. Continued(s, next) \in Seq(Seq(A))
      BY <3>1, <3>3, ContinuedFacts
    <3> QED  BY <3>4 DEF s, next
  <2>3. Following(m, k1, g) \in R
    BY <2>2 DEF Following
  <2> QED  BY <2>3 DEF k1
<1>3. step \in [1..N -> [R -> R]]
  BY <1>2
<1>4. \A i \in 1..N, g \in R : step[i][g] = Following(m, inner[i], g)
  OBVIOUS
<1> HIDE DEF R, first, step
<1>5. PICK f : Downward(N, first, step, f)
  BY <1>1, <1>3, DownRecursion
<1>6. f = [i \in 1..(N + 1) |-> f[i]]
  BY <1>5 DEF Downward
<1>7. \A i \in 1..(N + 1) : f[i] = IF i > N THEN first ELSE step[i][f[i + 1]]
  BY <1>5 DEF Downward
<1>8. \A i \in 1..(N + 1) : f[i] \in R
  <2> DEFINE S == {i \in 1..(N + 1) : f[i] \in R}
  <2>1. N + 1 \in S
    BY <1>1, <1>7
  <2>2. ASSUME NEW i \in 1..N, i + 1 \in S PROVE i \in S
    <3>1. f[i] = step[i][f[i + 1]] /\ f[i + 1] \in R /\ i \in 1..(N + 1)
      BY <1>7, <2>2
    <3> QED  BY <1>3, <3>1
  <2> HIDE DEF S
  <2>3. 1..(N + 1) \subseteq S
    BY <2>1, <2>2, DownInduction
  <2> QED  BY <2>3 DEF S
<1>9. ASSUME NEW i \in 1..(N + 1)
      PROVE  f[i] = IF i > N THEN first ELSE Following(m, inner[i], f[i + 1])
  <2>1. CASE i > N
    BY <1>7, <2>1
  <2>2. CASE ~(i > N)
    <3>1. i \in 1..N /\ i + 1 \in 1..(N + 1)
      BY <2>2
    <3> QED  BY <1>4, <1>7, <1>8, <2>2, <3>1
  <2> QED  BY <2>1, <2>2
<1>10. IsSeqSearch(m, parts, inner, f)
  BY <1>6, <1>9, SeqSearchUnfolds DEF first
<1> QED  BY <1>10

LEMMA SeqRunsExists ==
    ASSUME NEW parts, Len(parts) \in Nat, NEW runs, \A i \in 1..Len(parts) : runs[i] \in Language
    PROVE  IsSeqRuns(parts, runs, CHOOSE f : IsSeqRuns(parts, runs, f))
<1> DEFINE N == Len(parts)
           first == [v \in Seq(Name) |-> EmptyRun(v)]
           step == [i \in 1..N |-> [h \in Language |-> Joined(runs[i], h)]]
<1>1. first \in Language
  <2>1. \A v \in Seq(Name) : \A r : r \in first[v] <=> v = << >> /\ r = << >>
    BY DEF EmptyRun
  <2>2. \A v \in Seq(Name) : first[v] \in SUBSET Seq(Taken) /\ \A r \in first[v] : Len(r) = Len(v)
    BY <2>1
  <2> QED  BY <2>2 DEF Language
<1>2. \A i \in 1..N, h \in Language : Joined(runs[i], h) \in Language
  BY JoinedFacts
<1>3. step \in [1..N -> [Language -> Language]]
  BY <1>2
<1>4. \A i \in 1..N, h \in Language : step[i][h] = Joined(runs[i], h)
  OBVIOUS
<1> HIDE DEF first, step
<1>5. PICK f : Downward(N, first, step, f)
  BY <1>1, <1>3, DownRecursion
<1>6. f = [i \in 1..(N + 1) |-> f[i]]
  BY <1>5 DEF Downward
<1>7. \A i \in 1..(N + 1) : f[i] = IF i > N THEN first ELSE step[i][f[i + 1]]
  BY <1>5 DEF Downward
<1>8. \A i \in 1..(N + 1) : f[i] \in Language
  <2> DEFINE S == {i \in 1..(N + 1) : f[i] \in Language}
  <2>1. N + 1 \in S
    BY <1>1, <1>7
  <2>2. ASSUME NEW i \in 1..N, i + 1 \in S PROVE i \in S
    <3>1. f[i] = step[i][f[i + 1]] /\ f[i + 1] \in Language /\ i \in 1..(N + 1)
      BY <1>7, <2>2
    <3> QED  BY <1>3, <3>1
  <2> HIDE DEF S
  <2>3. 1..(N + 1) \subseteq S
    BY <2>1, <2>2, DownInduction
  <2> QED  BY <2>3 DEF S
<1>9. ASSUME NEW i \in 1..(N + 1)
      PROVE  f[i] = IF i > N THEN first ELSE Joined(runs[i], f[i + 1])
  <2>1. CASE i > N
    BY <1>7, <2>1
  <2>2. CASE ~(i > N)
    <3>1. i \in 1..N /\ i + 1 \in 1..(N + 1)
      BY <2>2
    <3> QED  BY <1>4, <1>7, <1>8, <2>2, <3>1
  <2> QED  BY <2>1, <2>2
<1>10. IsSeqRuns(parts, runs, f)
  BY <1>6, <1>9, SeqRunsUnfolds DEF first
<1> QED  BY <1>10

SeqRuns(parts, runs) == [w \in Seq(Name) |-> RunsInSeq(parts, runs, w)]

LEMMA SeqAgrees ==
    ASSUME NEW m, IsMatcher(m), NEW parts, Len(parts) \in Nat, NEW inner, NEW runs,
           \A i \in 1..Len(parts) : Agree(m, inner[i], runs[i])
    PROVE  Agree(m, MatchSeq(m, parts, inner), SeqRuns(parts, runs))
<1> DEFINE N == Len(parts)
           f == CHOOSE f : IsSeqSearch(m, parts, inner, f)
           e == CHOOSE e : IsSeqRuns(parts, runs, e)
           first == [pos \in Positions(m) |-> Nothing]
           empty == [v \in Seq(Name) |-> EmptyRun(v)]
<1>1. \A i \in 1..N : inner[i] \in Search(m) /\ runs[i] \in Language
  BY AgreeSearches
<1>2. IsSeqSearch(m, parts, inner, f)
  BY <1>1, SeqSearchExists
<1>3. IsSeqRuns(parts, runs, e)
  BY <1>1, SeqRunsExists
<1>4. MatchSeq(m, parts, inner) = f[1]
  BY DEF MatchSeq, IsSeqSearch
<1>5. \A w \in Seq(Name) : RunsInSeq(parts, runs, w) = e[1][w]
  BY DEF RunsInSeq, IsSeqRuns
<1> HIDE DEF f, e
<1>6. f[N + 1] = first /\ e[N + 1] = empty
  <2>1. N + 1 \in 1..(N + 1) /\ N + 1 > N
    OBVIOUS
  <2> QED  BY <1>2, <1>3, <2>1 DEF IsSeqSearch, IsSeqRuns
<1>7. \A i \in 1..N : f[i] = Following(m, inner[i], f[i + 1])
  <2> SUFFICES ASSUME NEW i \in 1..N PROVE f[i] = Following(m, inner[i], f[i + 1])
    OBVIOUS
  <2>1. i \in 1..(N + 1) /\ ~(i > N)
    OBVIOUS
  <2> QED  BY <1>2, <2>1 DEF IsSeqSearch, Following, Continued
<1>8. \A i \in 1..N : e[i] = Joined(runs[i], e[i + 1])
  <2> SUFFICES ASSUME NEW i \in 1..N PROVE e[i] = Joined(runs[i], e[i + 1])
    OBVIOUS
  <2>1. i \in 1..(N + 1) /\ ~(i > N)
    OBVIOUS
  <2> QED  BY <1>3, <2>1 DEF IsSeqRuns, Joined
<1>9. \A i \in 1..(N + 1) : Agree(m, f[i], e[i])
  <2> DEFINE S == {i \in 1..(N + 1) : Agree(m, f[i], e[i])}
  <2>1. N + 1 \in S
    <3>1. Agree(m, first, empty)
      BY EmptyRunAgrees
    <3>2. Agree(m, f[N + 1], e[N + 1])
      BY <1>6, <3>1
    <3> HIDE DEF first, empty
    <3> QED  BY <3>2
  <2>2. ASSUME NEW i \in 1..N, i + 1 \in S PROVE i \in S
    <3>1. Agree(m, f[i + 1], e[i + 1]) /\ i \in 1..(N + 1) /\ Agree(m, inner[i], runs[i])
      BY <2>2
    <3>2. Agree(m, Following(m, inner[i], f[i + 1]), Joined(runs[i], e[i + 1]))
      BY <3>1, FollowingAgrees
    <3> QED  BY <1>7, <1>8, <3>1, <3>2
  <2> HIDE DEF S
  <2>3. 1..(N + 1) \subseteq S
    BY <2>1, <2>2, DownInduction
  <2> QED  BY <2>3 DEF S
<1>10. Agree(m, f[1], e[1])
  BY <1>9
<1>11. SeqRuns(parts, runs) = e[1]
  <2>1. e[1] \in [Seq(Name) -> SUBSET Seq(Taken)]
    BY <1>10 DEF Agree, Language
  <2>2. SeqRuns(parts, runs) = [w \in Seq(Name) |-> e[1][w]]
    BY <1>5 DEF SeqRuns
  <2> QED  BY <2>1, <2>2
<1> QED  BY <1>4, <1>10, <1>11

(* RunsInSeq is a language when the members' runs are.                     *)
LEMMA SeqRunsFacts ==
    ASSUME NEW parts, Len(parts) \in Nat, NEW runs, \A i \in 1..Len(parts) : runs[i] \in Language
    PROVE  SeqRuns(parts, runs) \in Language
<1> DEFINE N == Len(parts)
           e == CHOOSE e : IsSeqRuns(parts, runs, e)
           empty == [v \in Seq(Name) |-> EmptyRun(v)]
<1>1. IsSeqRuns(parts, runs, e)
  BY SeqRunsExists
<1>2. \A w \in Seq(Name) : RunsInSeq(parts, runs, w) = e[1][w]
  BY DEF RunsInSeq, IsSeqRuns
<1> HIDE DEF e
<1>3. e[N + 1] = empty
  <2>1. N + 1 \in 1..(N + 1) /\ N + 1 > N
    OBVIOUS
  <2> QED  BY <1>1, <2>1 DEF IsSeqRuns
<1>4. empty \in Language
  <2>1. \A v \in Seq(Name) : \A r : r \in empty[v] <=> v = << >> /\ r = << >>
    BY DEF EmptyRun
  <2>2. \A v \in Seq(Name) : empty[v] \in SUBSET Seq(Taken) /\ \A r \in empty[v] : Len(r) = Len(v)
    BY <2>1
  <2> QED  BY <2>2 DEF Language
<1> HIDE DEF empty
<1>5. \A i \in 1..N : e[i] = Joined(runs[i], e[i + 1])
  <2> SUFFICES ASSUME NEW i \in 1..N PROVE e[i] = Joined(runs[i], e[i + 1])
    OBVIOUS
  <2>1. i \in 1..(N + 1) /\ ~(i > N)
    OBVIOUS
  <2> QED  BY <1>1, <2>1 DEF IsSeqRuns, Joined
<1>6. \A i \in 1..(N + 1) : e[i] \in Language
  <2> DEFINE S == {i \in 1..(N + 1) : e[i] \in Language}
  <2>1. N + 1 \in S
    BY <1>3, <1>4
  <2>2. ASSUME NEW i \in 1..N, i + 1 \in S PROVE i \in S
    <3>1. e[i + 1] \in Language /\ i \in 1..(N + 1)
      BY <2>2
    <3> QED  BY <1>5, <3>1, JoinedFacts
  <2> HIDE DEF S
  <2>3. 1..(N + 1) \subseteq S
    BY <2>1, <2>2, DownInduction
  <2> QED  BY <2>3 DEF S
<1>7. e[1] \in Language
  BY <1>6
<1>8. SeqRuns(parts, runs) = [w \in Seq(Name) |-> e[1][w]]
  BY <1>2 DEF SeqRuns
<1> QED  BY <1>7, <1>8 DEF Language

-----------------------------------------------------------------------------
(* A choice: the outcomes, and the runs, of one member or another.         *)
ChoiceRuns(parts, runs) == [w \in Seq(Name) |-> UNION {runs[i][w] : i \in DOMAIN parts}]

LEMMA ChoiceRunsFacts ==
    ASSUME NEW parts, NEW runs, \A i \in DOMAIN parts : runs[i] \in Language
    PROVE  /\ ChoiceRuns(parts, runs) \in Language
           /\ \A w \in Seq(Name) : \A r : r \in ChoiceRuns(parts, runs)[w] <=> \E i \in DOMAIN parts : r \in runs[i][w]
<1>1. ASSUME NEW w \in Seq(Name), NEW r
      PROVE  r \in ChoiceRuns(parts, runs)[w] <=> \E i \in DOMAIN parts : r \in runs[i][w]
  BY DEF ChoiceRuns
<1>2. ASSUME NEW w \in Seq(Name), NEW r \in ChoiceRuns(parts, runs)[w]
      PROVE  r \in Seq(Taken) /\ Len(r) = Len(w)
  <2>1. PICK i \in DOMAIN parts : r \in runs[i][w]
    BY <1>1
  <2> QED  BY <2>1, LanguageFacts
<1>3. ChoiceRuns(parts, runs) = [w \in Seq(Name) |-> ChoiceRuns(parts, runs)[w]]
  BY DEF ChoiceRuns
<1>4. ChoiceRuns(parts, runs) \in [Seq(Name) -> SUBSET Seq(Taken)]
  BY <1>2, <1>3
<1> QED  BY <1>1, <1>2, <1>4 DEF Language

LEMMA ChoiceAgrees ==
    ASSUME NEW m, IsMatcher(m), NEW A, NEW parts \in Seq(A), NEW inner, NEW runs,
           \A i \in DOMAIN parts : Agree(m, inner[i], runs[i])
    PROVE  Agree(m, MatchChoice(m, parts, inner), ChoiceRuns(parts, runs))
<1> DEFINE B == Seq(Attributed(m))
           g == MatchChoice(m, parts, inner)
           h == ChoiceRuns(parts, runs)
<1>1. h \in Language /\ \A w \in Seq(Name) : \A r : r \in h[w] <=> \E i \in DOMAIN parts : r \in runs[i][w]
  <2>1. \A i \in DOMAIN parts : runs[i] \in Language
    BY AgreeSearches
  <2> QED  BY <2>1, ChoiceRunsFacts
<1>2. ASSUME NEW pos \in Positions(m)
      PROVE  g[pos] \in Seq(B) /\ \A o : o \in ToSet(g[pos]) <=> \E i \in DOMAIN parts : o \in ToSet(inner[i][pos])
  <2> DEFINE seqs == [i \in DOMAIN parts |-> inner[i][pos]]
  <2>1. \A i \in DOMAIN parts : inner[i][pos] \in Seq(B)
    BY AgreeFacts
  <2>2. DOMAIN parts = 1..Len(parts) /\ Len(parts) \in Nat
    OBVIOUS
  <2>3. seqs \in Seq(Seq(B)) /\ DOMAIN seqs = DOMAIN parts /\ \A i \in DOMAIN parts : seqs[i] = inner[i][pos]
    BY <2>1, <2>2
  <2>4. g[pos] = FlattenSeq(seqs)
    BY DEF MatchChoice
  <2> HIDE DEF seqs, g
  <2>5. FlattenSeq(seqs) \in Seq(B) /\ ToSet(FlattenSeq(seqs)) = UNION {ToSet(seqs[i]) : i \in DOMAIN seqs}
    BY <2>3, FlattenFacts
  <2>6. \A o : o \in UNION {ToSet(seqs[i]) : i \in DOMAIN seqs} <=> \E i \in DOMAIN parts : o \in ToSet(inner[i][pos])
    BY <2>3
  <2> QED  BY <2>4, <2>5, <2>6
<1>3. g = [pos \in Positions(m) |-> g[pos]]
  BY DEF MatchChoice
<1> HIDE DEF g, h
<1>4. ASSUME NEW pos \in Positions(m) PROVE AgreeAt(m, pos, g[pos], h)
  <2>1. \A i \in DOMAIN parts : AgreeAt(m, pos, inner[i][pos], runs[i])
    BY AgreeFacts
  <2>2. ASSUME NEW o \in ToSet(g[pos])
        PROVE  \E w \in Seq(Name) : \E r \in h[w] : Weaves(m, pos, o, w, r)
    <3>1. PICK i \in DOMAIN parts : o \in ToSet(inner[i][pos])
      BY <1>2
    <3>2. PICK w \in Seq(Name) : \E r \in runs[i][w] : Weaves(m, pos, o, w, r)
      BY <2>1, <3>1 DEF AgreeAt, Sound
    <3>3. PICK r \in runs[i][w] : Weaves(m, pos, o, w, r)
      BY <3>2
    <3>4. r \in h[w]
      BY <1>1
    <3> QED  BY <3>3, <3>4
  <2>3. ASSUME NEW w \in Seq(Name), NEW r \in h[w], NEW o \in B, Tight(o), Weaves(m, pos, o, w, r)
        PROVE  o \in ToSet(g[pos])
    <3>1. PICK i \in DOMAIN parts : r \in runs[i][w]
      BY <1>1
    <3>2. o \in ToSet(inner[i][pos])
      BY <2>1, <2>3, <3>1 DEF AgreeAt, Complete
    <3> QED  BY <1>2, <3>2
  <2> QED  BY <1>2, <2>2, <2>3 DEF AgreeAt, Sound, Complete
<1>5. g \in [Positions(m) -> Seq(B)]
  BY <1>2, <1>3
<1>6. Agree(m, g, h)
  BY <1>1, <1>4, <1>5 DEF Agree
<1> QED  BY <1>6 DEF g, h

-----------------------------------------------------------------------------
(* matchAll: how many of the first n children are assigned to member j.    *)
OfMember(n, f, j) == {k \in 1..n : f[k] = j}

LEMMA CountFacts ==
    ASSUME NEW n \in Nat, NEW f, NEW j
    PROVE  IsFiniteSet(OfMember(n, f, j)) /\ Cardinality(OfMember(n, f, j)) \in Nat
<1>1. IsFiniteSet(1..n) /\ OfMember(n, f, j) \in SUBSET (1..n)
  BY FS_Interval DEF OfMember
<1>2. IsFiniteSet(OfMember(n, f, j))
  BY <1>1, FS_Subset
<1> QED  BY <1>2, FS_CardinalityType

LEMMA CountNone ==
    ASSUME NEW f, NEW j
    PROVE  Cardinality(OfMember(0, f, j)) = 0
<1>1. OfMember(0, f, j) = {}
  BY DEF OfMember
<1> QED  BY <1>1, FS_EmptySet

CountsOnFrom(n, f, g, j) ==
    Cardinality(OfMember(n + 1, f, j)) = Cardinality(OfMember(n, g, j)) + (IF f[1] = j THEN 1 ELSE 0)

LEMMA CountCons ==
    ASSUME NEW n \in Nat, NEW f, NEW g, \A k \in 1..n : g[k] = f[k + 1], NEW j
    PROVE  CountsOnFrom(n, f, g, j)
<1> DEFINE S == OfMember(n, g, j)
           F == [k \in S |-> k + 1]
           T == {k + 1 : k \in S}
<1>1. S \subseteq 1..n /\ IsFiniteSet(S) /\ Cardinality(S) \in Nat
  <2>1. S \subseteq 1..n
    BY DEF OfMember
  <2> QED  BY <2>1, CountFacts
<1>2. \A x \in 2..(n + 1) : x \in T <=> f[x] = j
  <2> SUFFICES ASSUME NEW x \in 2..(n + 1) PROVE x \in T <=> f[x] = j
    OBVIOUS
  <2>1. x - 1 \in 1..n /\ (x - 1) + 1 = x
    OBVIOUS
  <2>2. x \in T <=> x - 1 \in S
    BY <1>1, <2>1
  <2> QED  BY <2>1, <2>2 DEF OfMember
<1>3. T \subseteq 2..(n + 1)
  BY <1>1
<1>4. ExistsBijection(S, T)
  <2>1. F \in [S -> T]
    OBVIOUS
  <2>2. \A a, b \in S : F[a] = F[b] => a = b
    BY <1>1
  <2>3. \A t \in T : \E s \in S : F[s] = t
    OBVIOUS
  <2>4. F \in Bijection(S, T)
    <3> HIDE DEF F, T, S
    <3> QED  BY <2>1, <2>2, <2>3 DEF Bijection, Injection, Surjection, IsInjective
  <2> QED  BY <2>4 DEF ExistsBijection
<1> HIDE DEF T, S, F
<1>5. IsFiniteSet(T) /\ Cardinality(T) = Cardinality(S)
  BY <1>1, <1>4, FS_Bijection
<1>6. CASE f[1] = j
  <2>1. OfMember(n + 1, f, j) = T \cup {1}
    <3>1. ASSUME NEW x \in 1..(n + 1) PROVE x \in OfMember(n + 1, f, j) <=> x \in T \cup {1}
      <4>1. CASE x = 1
        BY <1>6, <4>1 DEF OfMember
      <4>2. CASE x # 1
        <5>1. x \in 2..(n + 1)
          BY <4>2
        <5> QED  BY <1>2, <4>2, <5>1 DEF OfMember
      <4> QED  BY <4>1, <4>2
    <3>2. T \cup {1} \subseteq 1..(n + 1) /\ OfMember(n + 1, f, j) \subseteq 1..(n + 1)
      BY <1>3 DEF OfMember
    <3> QED  BY <3>1, <3>2
  <2>2. 1 \notin T
    BY <1>3
  <2> QED  BY <1>5, <1>6, <2>1, <2>2, FS_AddElement DEF S, CountsOnFrom
<1>7. CASE f[1] # j
  <2>1. OfMember(n + 1, f, j) = T
    <3>1. ASSUME NEW x \in 1..(n + 1) PROVE x \in OfMember(n + 1, f, j) <=> x \in T
      <4>1. CASE x = 1
        BY <1>3, <1>7, <4>1 DEF OfMember
      <4>2. CASE x # 1
        <5>1. x \in 2..(n + 1)
          BY <4>2
        <5> QED  BY <1>2, <4>2, <5>1 DEF OfMember
      <4> QED  BY <4>1, <4>2
    <3>2. T \subseteq 1..(n + 1) /\ OfMember(n + 1, f, j) \subseteq 1..(n + 1)
      BY <1>3 DEF OfMember
    <3> QED  BY <3>1, <3>2
  <2> QED  BY <1>1, <1>5, <1>7, <2>1 DEF S, CountsOnFrom
<1> QED  BY <1>6, <1>7

(* After used[i] children for each member i, w is assigned by f, and r is  *)
(* the run this makes; which the members may still do.                     *)
Chosen(m, t, q) == CHOOSE a \in Accept(m, t, q) : TRUE
RunOf(m, parts, w, f) == [k \in 1..Len(w) |-> Chosen(m, parts[f[k]].term, w[k])]
Fit(parts, used, n, f) ==
    \A i \in DOMAIN parts : /\ used[i] + Cardinality(OfMember(n, f, i)) >= parts[i].min
                            /\ Within(used[i] + Cardinality(OfMember(n, f, i)), parts[i].max)
Suit(m, parts, w, f) == \A k \in 1..Len(w) : Accept(m, parts[f[k]].term, w[k]) # {}

AllRun(m, parts, used, w, r) ==
    \E f \in [1..Len(w) -> DOMAIN parts] : Suit(m, parts, w, f) /\ Fit(parts, used, Len(w), f) /\ r = RunOf(m, parts, w, f)

Respects(parts, used) == used \in [DOMAIN parts -> Nat] /\ \A i \in DOMAIN parts : Within(used[i], parts[i].max)
Met(parts, used) == \A i \in DOMAIN parts : used[i] >= parts[i].min
OneMore(used, i) == [used EXCEPT ![i] = @ + 1]

LEMMA SeqOfValues ==
    ASSUME NEW A, NEW n \in Nat, NEW s, s = [k \in 1..n |-> s[k]], \A k \in 1..n : s[k] \in A
    PROVE  s \in Seq(A) /\ Len(s) = n
<1>1. s \in [1..n -> A]
  OBVIOUS
<1> QED  BY <1>1

LEMMA SeqAsFunction ==
    ASSUME NEW A, NEW s \in Seq(A)
    PROVE  s = [k \in 1..Len(s) |-> s[k]]
  OBVIOUS

LEMMA ChosenFacts ==
    ASSUME NEW m, NEW p \in Particles, NEW q, Accept(m, p.term, q) # {}
    PROVE  /\ Chosen(m, p.term, q) \in Accept(m, p.term, q) /\ Chosen(m, p.term, q) \in Taken
           /\ \A a \in Accept(m, p.term, q) : a = Chosen(m, p.term, q)
<1> DEFINE c == Chosen(m, p.term, q)
<1>1. c \in Accept(m, p.term, q)
  BY DEF Chosen
<1>2. Accept(m, p.term, q) \subseteq Taken /\ \A a, b \in Accept(m, p.term, q) : a = b
  BY AcceptsOne
<1> HIDE DEF c
<1>3. c \in Accept(m, p.term, q) /\ c \in Taken /\ \A a \in Accept(m, p.term, q) : a = c
  BY <1>1, <1>2
<1> QED  BY <1>3 DEF c

LEMMA PartFacts ==
    ASSUME NEW parts \in Seq(Particles), NEW i \in DOMAIN parts
    PROVE  parts[i] \in Particles /\ parts[i].min \in Nat /\ parts[i].max \in Nat \cup {Unbounded}
<1>1. parts[i] \in Particles
  OBVIOUS
<1> QED  BY <1>1, ParticleShape

LEMMA OneMoreFacts ==
    ASSUME NEW parts, NEW used \in [DOMAIN parts -> Nat], NEW i \in DOMAIN parts
    PROVE  /\ OneMore(used, i) \in [DOMAIN parts -> Nat]
           /\ \A j \in DOMAIN parts : OneMore(used, i)[j] = used[j] + (IF i = j THEN 1 ELSE 0)
  BY DEF OneMore

LEMMA AllRunEmpty ==
    ASSUME NEW m, NEW parts \in Seq(Particles), NEW used, Respects(parts, used), NEW r
    PROVE  AllRun(m, parts, used, << >>, r) <=> r = << >> /\ Met(parts, used)
<1> DEFINE e == << >>
<1>1. Len(e) = 0
  OBVIOUS
<1>2. \A f : Fit(parts, used, 0, f) <=> Met(parts, used)
  <2> SUFFICES ASSUME NEW f PROVE Fit(parts, used, 0, f) <=> Met(parts, used)
    OBVIOUS
  <2>1. \A i \in DOMAIN parts : Cardinality(OfMember(0, f, i)) = 0
    BY CountNone
  <2>2. \A i \in DOMAIN parts : used[i] \in Nat /\ used[i] + 0 = used[i] /\ Within(used[i], parts[i].max)
    BY DEF Respects
  <2> QED  BY <2>1, <2>2 DEF Fit, Met
<1>3. \A f : Suit(m, parts, e, f)
  BY <1>1 DEF Suit
<1>4. \A f : RunOf(m, parts, e, f) = << >>
  <2> SUFFICES ASSUME NEW f PROVE RunOf(m, parts, e, f) = << >>
    OBVIOUS
  <2>1. RunOf(m, parts, e, f) \in Seq({}) /\ Len(RunOf(m, parts, e, f)) = 0
    BY <1>1 DEF RunOf
  <2> QED  BY <2>1
<1>5. \E f : f \in [1..0 -> DOMAIN parts]
  <2>1. [k \in 1..0 |-> k] \in [1..0 -> DOMAIN parts]
    OBVIOUS
  <2> QED  BY <2>1
<1> HIDE DEF e
<1>6. AllRun(m, parts, used, e, r) <=> r = << >> /\ Met(parts, used)
  BY <1>1, <1>2, <1>3, <1>4, <1>5 DEF AllRun
<1> QED  BY <1>6 DEF e

LEMMA AllRunHead ==
    ASSUME NEW m, NEW parts \in Seq(Particles), NEW used, Respects(parts, used),
           NEW w \in Seq(Name), w # << >>, NEW r, AllRun(m, parts, used, w, r)
    PROVE  /\ r \in Seq(Taken) /\ Len(r) = Len(w)
           /\ \E i \in DOMAIN parts :
                /\ MayRepeat(parts[i], used[i]) /\ Respects(parts, OneMore(used, i))
                /\ r[1] \in Accept(m, parts[i].term, w[1])
                /\ AllRun(m, parts, OneMore(used, i), Tail(w), Tail(r))
<1> DEFINE n == Len(w) - 1
           v == Tail(w)
<1>1. /\ n \in Nat /\ Len(w) = n + 1 /\ v \in Seq(Name) /\ Len(v) = n /\ w[1] \in Name
      /\ \A k \in 1..n : v[k] = w[k + 1]
  BY TailFacts
<1> HIDE DEF n, v
<1>2. PICK f \in [1..(n + 1) -> DOMAIN parts] :
        Suit(m, parts, w, f) /\ Fit(parts, used, n + 1, f) /\ r = RunOf(m, parts, w, f)
  BY <1>1 DEF AllRun
<1> DEFINE g == [k \in 1..n |-> f[k + 1]]
           i == f[1]
           used2 == OneMore(used, i)
<1>3. i \in DOMAIN parts /\ 1 \in 1..(n + 1) /\ \A k \in 1..n : k + 1 \in 1..(n + 1)
  BY <1>1
<1>4. g \in [1..n -> DOMAIN parts] /\ \A k \in 1..n : g[k] = f[k + 1]
  BY <1>3
<1>5. used2 \in [DOMAIN parts -> Nat] /\ \A j \in DOMAIN parts : used2[j] = used[j] + (IF i = j THEN 1 ELSE 0)
  BY <1>3, OneMoreFacts DEF Respects
<1>16. i = f[1]
  OBVIOUS
<1> HIDE DEF g, i, used2
<1>6. \A j \in DOMAIN parts :
        /\ Cardinality(OfMember(n, g, j)) \in Nat /\ Cardinality(OfMember(n + 1, f, j)) \in Nat
        /\ used2[j] + Cardinality(OfMember(n, g, j)) = used[j] + Cardinality(OfMember(n + 1, f, j))
  <2> SUFFICES ASSUME NEW j \in DOMAIN parts
               PROVE  /\ Cardinality(OfMember(n, g, j)) \in Nat /\ Cardinality(OfMember(n + 1, f, j)) \in Nat
                      /\ used2[j] + Cardinality(OfMember(n, g, j)) = used[j] + Cardinality(OfMember(n + 1, f, j))
    OBVIOUS
  <2>1. Cardinality(OfMember(n, g, j)) \in Nat /\ used[j] \in Nat
    BY <1>1, CountFacts DEF Respects
  <2>2. Cardinality(OfMember(n + 1, f, j)) = Cardinality(OfMember(n, g, j)) + (IF i = j THEN 1 ELSE 0)
    <3>1. Cardinality(OfMember(n + 1, f, j)) = Cardinality(OfMember(n, g, j)) + (IF f[1] = j THEN 1 ELSE 0)
      <4>1. n \in Nat
        BY <1>1
      <4>2. \A k \in 1..n : g[k] = f[k + 1]
        BY <1>4
      <4>3. CountsOnFrom(n, f, g, j)
        BY <4>1, <4>2, CountCons
      <4> QED  BY <4>3 DEF CountsOnFrom
    <3> QED  BY <1>16, <3>1
  <2>3. used2[j] = used[j] + (IF i = j THEN 1 ELSE 0)
    BY <1>5
  <2> DEFINE a == Cardinality(OfMember(n, g, j))
             b == Cardinality(OfMember(n + 1, f, j))
             c == IF i = j THEN 1 ELSE 0
  <2>4. a \in Nat /\ used[j] \in Nat /\ b = a + c /\ used2[j] = used[j] + c /\ c \in Nat
    BY <2>1, <2>2, <2>3
  <2> HIDE DEF a, b, c
  <2>5. a \in Nat /\ b \in Nat /\ used2[j] + a = used[j] + b
    BY <2>4
  <2> QED  BY <2>5 DEF a, b
<1>7. Fit(parts, used2, n, g)
  BY <1>2, <1>6 DEF Fit
<1>8. Respects(parts, used2)
  <2> SUFFICES ASSUME NEW j \in DOMAIN parts PROVE Within(used2[j], parts[j].max)
    BY <1>5 DEF Respects
  <2>1. Within(used2[j] + Cardinality(OfMember(n, g, j)), parts[j].max)
    BY <1>7 DEF Fit
  <2>2. used2[j] \in Nat /\ Cardinality(OfMember(n, g, j)) \in Nat /\ parts[j].max \in Nat \cup {Unbounded}
    BY <1>5, <1>6, PartFacts
  <2> QED  BY <2>1, <2>2 DEF Within, Unbounded
<1>9. MayRepeat(parts[i], used[i])
  <2>1. Within(used2[i], parts[i].max) /\ used2[i] = used[i] + 1 /\ used[i] \in Nat
    BY <1>3, <1>5, <1>8 DEF Respects
  <2>2. parts[i].max \in Nat \cup {Unbounded}
    BY <1>3, PartFacts
  <2> QED  BY <2>1, <2>2 DEF Within, MayRepeat, Unbounded
<1>10. ASSUME NEW k \in 1..(n + 1)
       PROVE  /\ r[k] = Chosen(m, parts[f[k]].term, w[k])
              /\ r[k] \in Accept(m, parts[f[k]].term, w[k]) /\ r[k] \in Taken
  <2>1. r[k] = Chosen(m, parts[f[k]].term, w[k])
    BY <1>1, <1>2 DEF RunOf
  <2>2. Accept(m, parts[f[k]].term, w[k]) # {} /\ f[k] \in DOMAIN parts
    BY <1>1, <1>2 DEF Suit
  <2> DEFINE p == parts[f[k]]
  <2>3. p \in Particles
    BY <2>2, PartFacts
  <2> HIDE DEF p
  <2>4. r[k] = Chosen(m, p.term, w[k]) /\ Accept(m, p.term, w[k]) # {}
    BY <2>1, <2>2 DEF p
  <2>5. Chosen(m, p.term, w[k]) \in Accept(m, p.term, w[k]) /\ Chosen(m, p.term, w[k]) \in Taken
    BY <2>3, <2>4, ChosenFacts
  <2> QED  BY <2>4, <2>5 DEF p
<1>11. r \in Seq(Taken) /\ Len(r) = n + 1
  <2>1. r = [k \in 1..(n + 1) |-> r[k]]
    BY <1>1, <1>2 DEF RunOf
  <2>2. \A k \in 1..(n + 1) : r[k] \in Taken
    BY <1>10
  <2> QED  BY <1>1, <2>1, <2>2, SeqOfValues
<1>12. Suit(m, parts, v, g)
  <2> SUFFICES ASSUME NEW k \in 1..n PROVE Accept(m, parts[g[k]].term, v[k]) # {}
    BY <1>1 DEF Suit
  <2>1. k + 1 \in 1..(n + 1) /\ g[k] = f[k + 1] /\ v[k] = w[k + 1]
    BY <1>1, <1>3, <1>4
  <2> QED  BY <1>1, <1>2, <2>1 DEF Suit
<1>13. Tail(r) = RunOf(m, parts, v, g)
  <2>1. r # << >>
    <3> SUFFICES ASSUME r = << >> PROVE FALSE
      OBVIOUS
    <3>1. Len(<< >>) = 0
      OBVIOUS
    <3> QED  BY <1>1, <1>11, <3>1
  <2>2. Tail(r) \in Seq(Taken) /\ Len(Tail(r)) = n /\ \A k \in 1..n : Tail(r)[k] = r[k + 1]
    BY <1>1, <1>11, <2>1, TailFacts
  <2>3. \A k \in 1..n : r[k + 1] = Chosen(m, parts[g[k]].term, v[k])
    BY <1>1, <1>3, <1>4, <1>10
  <2> DEFINE t == Tail(r)
  <2>6. t \in Seq(Taken) /\ Len(t) = n
    BY <2>2
  <2> HIDE DEF t
  <2>7. t = [k \in 1..n |-> t[k]]
    BY <2>6, SeqAsFunction
  <2>4. Tail(r) = [k \in 1..n |-> Tail(r)[k]]
    BY <2>7 DEF t
  <2>5. \A k \in 1..n : Tail(r)[k] = Chosen(m, parts[g[k]].term, v[k])
    BY <2>2, <2>3
  <2> QED  BY <1>1, <2>4, <2>5 DEF RunOf
<1>14. AllRun(m, parts, used2, v, Tail(r))
  BY <1>1, <1>4, <1>7, <1>12, <1>13 DEF AllRun
<1>15. r[1] \in Accept(m, parts[i].term, w[1])
  BY <1>3, <1>10 DEF i
<1> QED  BY <1>1, <1>3, <1>8, <1>9, <1>11, <1>14, <1>15 DEF used2, v

LEMMA RunOfFacts ==
    ASSUME NEW m, NEW parts \in Seq(Particles), NEW w \in Seq(Name),
           NEW f \in [1..Len(w) -> DOMAIN parts], Suit(m, parts, w, f)
    PROVE  /\ RunOf(m, parts, w, f) \in Seq(Taken) /\ Len(RunOf(m, parts, w, f)) = Len(w)
           /\ \A k \in 1..Len(w) : RunOf(m, parts, w, f)[k] = Chosen(m, parts[f[k]].term, w[k])
<1> DEFINE n == Len(w)
           r == RunOf(m, parts, w, f)
<1>1. n \in Nat
  OBVIOUS
<1>2. r = [k \in 1..n |-> r[k]] /\ \A k \in 1..n : r[k] = Chosen(m, parts[f[k]].term, w[k])
  BY DEF RunOf
<1> HIDE DEF r
<1>3. ASSUME NEW k \in 1..n PROVE r[k] \in Taken
  <2> DEFINE p == parts[f[k]]
  <2>1. p \in Particles
    BY PartFacts
  <2>2. r[k] = Chosen(m, p.term, w[k]) /\ Accept(m, p.term, w[k]) # {}
    BY <1>2 DEF Suit
  <2> HIDE DEF p
  <2>3. Chosen(m, p.term, w[k]) \in Taken
    BY <2>1, <2>2, ChosenFacts
  <2> QED  BY <2>2, <2>3
<1> HIDE DEF n
<1>4. r \in Seq(Taken) /\ Len(r) = n
  BY <1>1, <1>2, <1>3, SeqOfValues
<1> QED  BY <1>2, <1>4 DEF r, n

LEMMA AllRunCons ==
    ASSUME NEW m, NEW parts \in Seq(Particles), NEW used \in [DOMAIN parts -> Nat], NEW i \in DOMAIN parts,
           NEW q \in Name, NEW a \in Accept(m, parts[i].term, q), NEW v \in Seq(Name),
           NEW s, AllRun(m, parts, OneMore(used, i), v, s)
    PROVE  AllRun(m, parts, used, <<q>> \o v, <<a>> \o s)
<1> DEFINE n == Len(v)
           w == <<q>> \o v
           t == <<a>> \o s
<1>1. PICK f \in [1..n -> DOMAIN parts] :
        Suit(m, parts, v, f) /\ Fit(parts, OneMore(used, i), n, f) /\ s = RunOf(m, parts, v, f)
  BY DEF AllRun
<1>2. /\ s \in Seq(Taken) /\ Len(s) = n /\ n \in Nat
      /\ \A k \in 1..n : s[k] = Chosen(m, parts[f[k]].term, v[k])
  BY <1>1, RunOfFacts
<1> DEFINE p == parts[i]
<1>3. p \in Particles
  BY PartFacts
<1> HIDE DEF p
<1>4. a \in Taken /\ a = Chosen(m, p.term, q) /\ Accept(m, p.term, q) # {}
  <2>1. Accept(m, p.term, q) # {} /\ a \in Accept(m, p.term, q)
    BY DEF p
  <2>2. a = Chosen(m, p.term, q) /\ Chosen(m, p.term, q) \in Taken
    BY <1>3, <2>1, ChosenFacts
  <2> QED  BY <2>1, <2>2
<1>5. w \in Seq(Name) /\ Len(w) = 1 + n /\ w[1] = q /\ \A k \in 1..n : w[1 + k] = v[k]
  BY ConsFacts
<1>6. t \in Seq(Taken) /\ Len(t) = 1 + n /\ t[1] = a /\ \A k \in 1..n : t[1 + k] = s[k]
  BY <1>2, <1>4, ConsFacts
<1> HIDE DEF w, t, n
<1> DEFINE f2 == [k \in 1..(n + 1) |-> IF k = 1 THEN i ELSE f[k - 1]]
<1>7. f2[1] = i /\ \A k \in 1..n : f[k] = f2[k + 1]
  <2>1. \A k \in 1..n : k + 1 \in 1..(n + 1) /\ k + 1 # 1 /\ (k + 1) - 1 = k
    BY <1>2
  <2>2. 1 \in 1..(n + 1)
    BY <1>2
  <2> QED  BY <2>1, <2>2
<1>8. f2 \in [1..(n + 1) -> DOMAIN parts]
  <2>1. \A k \in 1..(n + 1) : k # 1 => k - 1 \in 1..n
    BY <1>2
  <2> QED  BY <2>1
<1>9. \A k \in 1..(n + 1) : k = 1 \/ \E l \in 1..n : k = 1 + l /\ k = l + 1
  <2> SUFFICES ASSUME NEW k \in 1..(n + 1), k # 1 PROVE \E l \in 1..n : k = 1 + l /\ k = l + 1
    OBVIOUS
  <2>1. k - 1 \in 1..n /\ k = 1 + (k - 1) /\ k = (k - 1) + 1
    BY <1>2
  <2> QED  BY <2>1
<1> HIDE DEF f2
<1>13. Len(w) = n + 1 /\ Len(t) = n + 1
  BY <1>2, <1>5, <1>6
<1>10. Suit(m, parts, w, f2)
  <2> SUFFICES ASSUME NEW k \in 1..(n + 1) PROVE Accept(m, parts[f2[k]].term, w[k]) # {}
    BY <1>13 DEF Suit
  <2>1. CASE k = 1
    BY <1>4, <1>5, <1>7, <2>1 DEF p
  <2>2. CASE k # 1
    <3>1. PICK l \in 1..n : k = 1 + l /\ k = l + 1
      BY <1>9, <2>2
    <3>2. w[k] = v[l] /\ f2[k] = f[l]
      BY <1>5, <1>7, <3>1
    <3>3. Accept(m, parts[f[l]].term, v[l]) # {}
      BY <1>1 DEF Suit, n
    <3> QED  BY <3>2, <3>3
  <2> QED  BY <2>1, <2>2
<1>11. Fit(parts, used, n + 1, f2)
  <2> SUFFICES ASSUME NEW j \in DOMAIN parts
               PROVE  /\ used[j] + Cardinality(OfMember(n + 1, f2, j)) >= parts[j].min
                      /\ Within(used[j] + Cardinality(OfMember(n + 1, f2, j)), parts[j].max)
    BY DEF Fit
  <2>1. CountsOnFrom(n, f2, f, j)
    <3>1. n \in Nat
      BY <1>2
    <3>2. \A k \in 1..n : f[k] = f2[k + 1]
      BY <1>7
    <3> QED  BY <3>1, <3>2, CountCons
  <2>2. Cardinality(OfMember(n + 1, f2, j)) = Cardinality(OfMember(n, f, j)) + (IF i = j THEN 1 ELSE 0)
    BY <1>7, <2>1 DEF CountsOnFrom
  <2>3. OneMore(used, i)[j] = used[j] + (IF i = j THEN 1 ELSE 0) /\ used[j] \in Nat
    BY OneMoreFacts
  <2>4. Cardinality(OfMember(n, f, j)) \in Nat
    BY <1>2, CountFacts
  <2>5. OneMore(used, i)[j] + Cardinality(OfMember(n, f, j)) = used[j] + Cardinality(OfMember(n + 1, f2, j))
    BY <2>2, <2>3, <2>4
  <2>6. /\ OneMore(used, i)[j] + Cardinality(OfMember(n, f, j)) >= parts[j].min
        /\ Within(OneMore(used, i)[j] + Cardinality(OfMember(n, f, j)), parts[j].max)
    BY <1>1 DEF Fit
  <2> QED  BY <2>5, <2>6
<1>12. t = RunOf(m, parts, w, f2)
  <2>1. Len(w) = n + 1
    BY <1>2, <1>5
  <2>2. RunOf(m, parts, w, f2) \in Seq(Taken) /\ Len(RunOf(m, parts, w, f2)) = Len(w)
        /\ \A k \in 1..Len(w) : RunOf(m, parts, w, f2)[k] = Chosen(m, parts[f2[k]].term, w[k])
    BY <1>5, <1>8, <1>10, <2>1, RunOfFacts
  <2>3. ASSUME NEW k \in 1..(n + 1) PROVE t[k] = Chosen(m, parts[f2[k]].term, w[k])
    <3>1. CASE k = 1
      BY <1>4, <1>5, <1>6, <1>7, <3>1 DEF p
    <3>2. CASE k # 1
      <4>1. PICK l \in 1..n : k = 1 + l /\ k = l + 1
        BY <1>9, <3>2
      <4>2. w[k] = v[l] /\ f2[k] = f[l] /\ t[k] = s[l]
        BY <1>5, <1>6, <1>7, <4>1
      <4> QED  BY <1>2, <4>2
    <3> QED  BY <3>1, <3>2
  <2>4. \A k \in 1..Len(t) : RunOf(m, parts, w, f2)[k] = t[k]
    <3> SUFFICES ASSUME NEW k \in 1..(n + 1) PROVE RunOf(m, parts, w, f2)[k] = t[k]
      BY <1>13
    <3>1. k \in 1..Len(w)
      BY <1>13
    <3> QED  BY <2>2, <2>3, <3>1
  <2>5. t \in Seq(Taken) /\ Len(RunOf(m, parts, w, f2)) = Len(t)
    BY <1>6, <1>13, <2>2
  <2> DEFINE run == RunOf(m, parts, w, f2)
  <2>6. run \in Seq(Taken) /\ Len(run) = Len(t) /\ \A k \in 1..Len(t) : run[k] = t[k]
    BY <2>2, <2>4, <2>5
  <2> HIDE DEF run, t
  <2>7. t = run
    BY <2>5, <2>6, SameSeq
  <2> QED  BY <2>7 DEF run
<1>14. AllRun(m, parts, used, w, t)
  BY <1>8, <1>10, <1>11, <1>12, <1>13 DEF AllRun
<1> QED  BY <1>14 DEF w, t

(* The search of an all group, at a position, from that at the next one.   *)
Counts(parts) == [DOMAIN parts -> Nat]
AllTakings(m, parts, pos, used, next) ==
    FlattenSeq([i \in DOMAIN parts |->
      If(MayRepeat(parts[i], used[i]), Taking(m, parts[i].term, pos, next[OneMore(used, i)]))])
AllStep(m, parts, pos, next) ==
    [used \in Counts(parts) |->
       If(Met(parts, used), Nothing)
       \o IF pos = Len(m.children) THEN << >>
          ELSE AllTakings(m, parts, pos, used, next) \o Absorbing(m, pos, next[used])]
ByTakingSome(m, parts, pos, used, next, o) ==
    \E i \in DOMAIN parts : /\ MayRepeat(parts[i], used[i])
                            /\ ByTaking(m, parts[i].term, pos, next[OneMore(used, i)], o)

LEMMA MetFacts ==
    ASSUME NEW A, NEW parts, NEW used
    PROVE  /\ If(Met(parts, used), Nothing) \in Seq(Seq(A))
           /\ \A o : o \in ToSet(If(Met(parts, used), Nothing)) <=> Met(parts, used) /\ o = << >>
<1> DEFINE cond == Met(parts, used)
<1>1. cond \in BOOLEAN
  BY DEF Met
<1> HIDE DEF cond
<1>2. Nothing \in Seq(Seq(A)) /\ ToSet(Nothing) = {<< >>}
  BY NothingFacts
<1>3. /\ If(cond, Nothing) \in Seq(Seq(A))
      /\ ToSet(If(cond, Nothing)) = IF cond THEN ToSet(Nothing) ELSE {}
  BY <1>1, <1>2, IfFacts
<1>4. \A o : o \in ToSet(If(cond, Nothing)) <=> cond /\ o = << >>
  BY <1>2, <1>3
<1> QED  BY <1>3, <1>4 DEF cond

LEMMA AllTakingsFacts ==
    ASSUME NEW m, IsMatcher(m), NEW parts \in Seq(Particles), NEW pos \in Positions(m),
           NEW used \in Counts(parts), NEW next \in [Counts(parts) -> Seq(Seq(Attributed(m)))]
    PROVE  /\ AllTakings(m, parts, pos, used, next) \in Seq(Seq(Attributed(m)))
           /\ \A o : o \in ToSet(AllTakings(m, parts, pos, used, next)) <=> ByTakingSome(m, parts, pos, used, next, o)
<1> DEFINE B == Seq(Attributed(m))
           cond(i) == MayRepeat(parts[i], used[i])
           taking(i) == Taking(m, parts[i].term, pos, next[OneMore(used, i)])
           seqs == [i \in DOMAIN parts |-> If(cond(i), taking(i))]
<1>1. ASSUME NEW i \in DOMAIN parts
      PROVE  /\ taking(i) \in Seq(B)
             /\ \A o : o \in ToSet(taking(i)) <=> ByTaking(m, parts[i].term, pos, next[OneMore(used, i)], o)
  <2> DEFINE p == parts[i]
             g == next[OneMore(used, i)]
  <2>1. p \in Particles
    BY PartFacts
  <2>2. OneMore(used, i) \in Counts(parts)
    BY OneMoreFacts DEF Counts
  <2>3. g \in Seq(B)
    BY <2>2
  <2> HIDE DEF p, g
  <2>4. /\ Taking(m, p.term, pos, g) \in Seq(B)
        /\ \A o : o \in ToSet(Taking(m, p.term, pos, g)) <=> ByTaking(m, p.term, pos, g, o)
    BY <2>1, <2>3, TakingFacts
  <2> QED  BY <2>4 DEF p, g
<1> HIDE DEF taking
<1>2. ASSUME NEW i \in DOMAIN parts
      PROVE  /\ If(cond(i), taking(i)) \in Seq(B)
             /\ \A o : o \in ToSet(If(cond(i), taking(i))) <=> cond(i) /\ o \in ToSet(taking(i))
  <2> DEFINE c == cond(i)
             g == taking(i)
  <2>1. c \in BOOLEAN
    BY DEF MayRepeat
  <2>2. g \in Seq(B)
    BY <1>1
  <2> HIDE DEF c, g
  <2>3. If(c, g) \in Seq(B) /\ ToSet(If(c, g)) = IF c THEN ToSet(g) ELSE {}
    BY <2>1, <2>2, IfFacts
  <2>4. \A o : o \in ToSet(If(c, g)) <=> c /\ o \in ToSet(g)
    BY <2>3
  <2> QED  BY <2>3, <2>4 DEF c, g
<1> HIDE DEF cond
<1>3. seqs \in Seq(Seq(B)) /\ DOMAIN seqs = DOMAIN parts /\ \A i \in DOMAIN parts : seqs[i] = If(cond(i), taking(i))
  <2>1. DOMAIN parts = 1..Len(parts) /\ Len(parts) \in Nat
    OBVIOUS
  <2> QED  BY <1>2, <2>1
<1>4. AllTakings(m, parts, pos, used, next) = FlattenSeq(seqs)
  BY DEF AllTakings, cond, taking
<1> HIDE DEF seqs
<1>5. FlattenSeq(seqs) \in Seq(B) /\ ToSet(FlattenSeq(seqs)) = UNION {ToSet(seqs[i]) : i \in DOMAIN seqs}
  BY <1>3, FlattenFacts
<1>6. ASSUME NEW o PROVE o \in ToSet(FlattenSeq(seqs)) <=> ByTakingSome(m, parts, pos, used, next, o)
  <2>1. o \in ToSet(FlattenSeq(seqs)) <=> \E i \in DOMAIN parts : o \in ToSet(If(cond(i), taking(i)))
    BY <1>3, <1>5
  <2>2. o \in ToSet(FlattenSeq(seqs)) <=> \E i \in DOMAIN parts : cond(i) /\ o \in ToSet(taking(i))
    BY <1>2, <2>1
  <2>3. \A i \in DOMAIN parts : o \in ToSet(taking(i)) <=> ByTaking(m, parts[i].term, pos, next[OneMore(used, i)], o)
    BY <1>1
  <2> QED  BY <2>2, <2>3 DEF ByTakingSome, cond
<1> QED  BY <1>4, <1>5, <1>6

LEMMA AllStepFacts ==
    ASSUME NEW m, IsMatcher(m), NEW parts \in Seq(Particles), NEW pos \in Positions(m), pos # Len(m.children),
           NEW next \in [Counts(parts) -> Seq(Seq(Attributed(m)))], NEW used \in Counts(parts)
    PROVE  /\ AllStep(m, parts, pos, next)[used] \in Seq(Seq(Attributed(m)))
           /\ \A o : o \in ToSet(AllStep(m, parts, pos, next)[used]) <=>
                       \/ Met(parts, used) /\ o = << >>
                       \/ ByTakingSome(m, parts, pos, used, next, o)
                       \/ ByAbsorbing(m, pos, next[used], o)
<1> DEFINE B == Seq(Attributed(m))
           leaving == If(Met(parts, used), Nothing)
           taking == AllTakings(m, parts, pos, used, next)
           absorbing == Absorbing(m, pos, next[used])
<1>1. leaving \in Seq(B) /\ \A o : o \in ToSet(leaving) <=> Met(parts, used) /\ o = << >>
  BY MetFacts
<1>2. taking \in Seq(B) /\ \A o : o \in ToSet(taking) <=> ByTakingSome(m, parts, pos, used, next, o)
  BY AllTakingsFacts
<1>3. absorbing \in Seq(B) /\ \A o : o \in ToSet(absorbing) <=> ByAbsorbing(m, pos, next[used], o)
  BY AbsorbingFacts
<1>4. AllStep(m, parts, pos, next)[used] = leaving \o (taking \o absorbing)
  BY DEF AllStep
<1> HIDE DEF leaving, taking, absorbing
<1>5. taking \o absorbing \in Seq(B) /\ ToSet(taking \o absorbing) = ToSet(taking) \cup ToSet(absorbing)
  BY <1>2, <1>3, ConcatFacts, ToSetConcat
<1> DEFINE rest == taking \o absorbing
<1> HIDE DEF rest
<1>6. rest \in Seq(B) /\ ToSet(rest) = ToSet(taking) \cup ToSet(absorbing)
  BY <1>5 DEF rest
<1>7. leaving \o rest \in Seq(B) /\ ToSet(leaving \o rest) = ToSet(leaving) \cup ToSet(rest)
  BY <1>1, <1>6, ConcatFacts, ToSetConcat
<1>8. AllStep(m, parts, pos, next)[used] = leaving \o rest
  BY <1>4 DEF rest
<1> QED  BY <1>1, <1>2, <1>3, <1>6, <1>7, <1>8

LEMMA AllStepLast ==
    ASSUME NEW m, IsMatcher(m), NEW parts, NEW next, NEW used \in Counts(parts)
    PROVE  /\ AllStep(m, parts, Len(m.children), next)[used] \in Seq(Seq(Attributed(m)))
           /\ \A o : o \in ToSet(AllStep(m, parts, Len(m.children), next)[used]) <=> Met(parts, used) /\ o = << >>
<1> DEFINE B == Seq(Attributed(m))
           leaving == If(Met(parts, used), Nothing)
<1>1. leaving \in Seq(B) /\ \A o : o \in ToSet(leaving) <=> Met(parts, used) /\ o = << >>
  BY MetFacts
<1>2. AllStep(m, parts, Len(m.children), next)[used] = leaving \o << >>
  BY DEF AllStep
<1> HIDE DEF leaving
<1>3. leaving \o << >> = leaving
  BY <1>1, ConcatEmpty
<1> QED  BY <1>1, <1>2, <1>3

IsAllSearch(m, parts, f) ==
    f = [pos \in Positions(m) |->
          [used \in [DOMAIN parts -> Nat] |->
             If(\A i \in DOMAIN parts : used[i] >= parts[i].min, Nothing)
             \o IF pos = Len(m.children) THEN << >>
                ELSE FlattenSeq([i \in DOMAIN parts |->
                       If(MayRepeat(parts[i], used[i]),
                          Taking(m, parts[i].term, pos, f[pos + 1][[used EXCEPT ![i] = @ + 1]]))])
                     \o Absorbing(m, pos, f[pos + 1][used])]]

LEMMA AllSearchUnfolds ==
    ASSUME NEW m, NEW parts, NEW f
    PROVE  IsAllSearch(m, parts, f) <=> f = [pos \in Positions(m) |-> AllStep(m, parts, pos, f[pos + 1])]
  BY DEF IsAllSearch, AllStep, AllTakings, Met, OneMore, Counts

LEMMA AllSearchExists ==
    ASSUME NEW m, IsMatcher(m), NEW parts \in Seq(Particles)
    PROVE  IsAllSearch(m, parts, CHOOSE f : IsAllSearch(m, parts, f))
<1> DEFINE P == Positions(m)
           B == Seq(Attributed(m))
           R == [Counts(parts) -> Seq(B)]
           body(pos, f) == AllStep(m, parts, pos, f[pos + 1])
           step == [pos \in P |-> [f \in [P -> R] |-> body(pos, f)]]
<1>1. ASSUME NEW pos \in P, NEW f \in [P -> R] PROVE body(pos, f) \in R
  <2>1. ASSUME NEW used \in Counts(parts) PROVE body(pos, f)[used] \in Seq(B)
    <3>1. CASE pos = Len(m.children)
      BY <3>1, AllStepLast
    <3>2. CASE pos # Len(m.children)
      <4> DEFINE next == f[pos + 1]
      <4>1. pos + 1 \in P
        BY <3>2, PositionFacts
      <4>2. next \in R
        BY <4>1
      <4> HIDE DEF next
      <4>3. AllStep(m, parts, pos, next)[used] \in Seq(B)
        BY <3>2, <4>2, AllStepFacts
      <4> QED  BY <4>3 DEF next
    <3> QED  BY <3>1, <3>2
  <2>2. body(pos, f) = [used \in Counts(parts) |-> body(pos, f)[used]]
    BY DEF AllStep
  <2> HIDE DEF body
  <2> QED  BY <2>1, <2>2
<1>2. step \in [P -> [[P -> R] -> R]]
  <2> HIDE DEF body, R
  <2> QED  BY <1>1
<1>3. R # {}
  <2>1. [used \in Counts(parts) |-> << >>] \in R
    OBVIOUS
  <2> QED  BY <2>1
<1>4. Later(m, step, R)
  <2> SUFFICES ASSUME NEW pos \in P, NEW g \in [P -> R], NEW h \in [P -> R],
                      \A q \in P : q > pos => g[q] = h[q]
               PROVE  body(pos, g) = body(pos, h)
    <3> HIDE DEF body, R
    <3> QED  BY <1>2, <1>3 DEF Later
  <2>1. CASE pos # Len(m.children)
    <3>1. pos + 1 \in P /\ pos + 1 > pos
      BY <2>1, PositionFacts
    <3>2. g[pos + 1] = h[pos + 1]
      BY <3>1
    <3> QED  BY <3>2
  <2>2. CASE pos = Len(m.children)
    BY <2>2 DEF AllStep
  <2> QED  BY <2>1, <2>2
<1>5. PICK f \in [P -> R] : \A pos \in P : f[pos] = step[pos][f]
  <2> HIDE DEF step, R
  <2> QED  BY <1>4, PositionRecursion
<1>6. \A pos \in P : f[pos] = AllStep(m, parts, pos, f[pos + 1])
  BY <1>5
<1>7. f = [pos \in P |-> AllStep(m, parts, pos, f[pos + 1])]
  <2> HIDE DEF R
  <2>1. f = [pos \in P |-> f[pos]]
    OBVIOUS
  <2> QED  BY <1>6, <2>1
<1>8. IsAllSearch(m, parts, f)
  BY <1>7, AllSearchUnfolds
<1> QED  BY <1>8

(* The runs from given counts, as a language.                              *)
AllFrom(m, parts, used) == [w \in Seq(Name) |-> {r \in Seq(Taken) : AllRun(m, parts, used, w, r)}]

LEMMA AllFromFacts ==
    ASSUME NEW m, NEW parts \in Seq(Particles), NEW used
    PROVE  /\ AllFrom(m, parts, used) \in Language
           /\ \A w \in Seq(Name) : \A r : r \in AllFrom(m, parts, used)[w] <=> AllRun(m, parts, used, w, r)
<1>1. ASSUME NEW w \in Seq(Name), NEW r, AllRun(m, parts, used, w, r) PROVE r \in Seq(Taken) /\ Len(r) = Len(w)
  <2>1. PICK f \in [1..Len(w) -> DOMAIN parts] : Suit(m, parts, w, f) /\ r = RunOf(m, parts, w, f)
    BY <1>1 DEF AllRun
  <2> QED  BY <2>1, RunOfFacts
<1>2. \A w \in Seq(Name) : \A r : r \in AllFrom(m, parts, used)[w] <=> AllRun(m, parts, used, w, r)
  BY <1>1 DEF AllFrom
<1>3. AllFrom(m, parts, used) \in [Seq(Name) -> SUBSET Seq(Taken)]
  BY DEF AllFrom
<1> QED  BY <1>1, <1>2, <1>3 DEF Language

LEMMA AllAgreesHere ==
    ASSUME NEW m, IsMatcher(m), NEW parts \in Seq(Particles), NEW used, Respects(parts, used),
           NEW pos \in Positions(m), NEW outcomes \in Seq(Seq(Attributed(m))),
           NEW next, pos # Len(m.children) =>
             /\ next \in [Counts(parts) -> Seq(Seq(Attributed(m)))]
             /\ \A u : Respects(parts, u) => AgreeAt(m, pos + 1, next[u], AllFrom(m, parts, u)),
           \A o : o \in ToSet(outcomes) <=>
                    \/ Met(parts, used) /\ o = << >>
                    \/ pos # Len(m.children) /\ ByTakingSome(m, parts, pos, used, next, o)
                    \/ pos # Len(m.children) /\ ByAbsorbing(m, pos, next[used], o)
    PROVE  AgreeAt(m, pos, outcomes, AllFrom(m, parts, used))
<1> DEFINE A == Attributed(m)
           h == AllFrom(m, parts, used)
           c == m.children[pos + 1]
<1>1. h \in Language /\ \A w \in Seq(Name) : \A r : r \in h[w] <=> AllRun(m, parts, used, w, r)
  BY AllFromFacts
<1>2. used \in Counts(parts)
  BY DEF Respects, Counts
<1> HIDE DEF h
<1>3. ASSUME NEW o, Met(parts, used), o = << >>
      PROVE  \E w \in Seq(Name) : \E r \in h[w] : Weaves(m, pos, o, w, r)
  <2>0. << >> \in Seq(Name)
    OBVIOUS
  <2>1. AllRun(m, parts, used, << >>, << >>)
    BY <1>3, AllRunEmpty
  <2>2. << >> \in h[<< >>]
    BY <1>1, <2>0, <2>1
  <2>3. Weaves(m, pos, << >>, << >>, << >>)
    BY WeavesNothing
  <2> QED  BY <1>3, <2>0, <2>2, <2>3
<1>4. ASSUME NEW o, pos # Len(m.children), ByTakingSome(m, parts, pos, used, next, o)
      PROVE  \E w \in Seq(Name) : \E r \in h[w] : Weaves(m, pos, o, w, r)
  <2>1. PICK i \in DOMAIN parts : /\ MayRepeat(parts[i], used[i])
                                  /\ ByTaking(m, parts[i].term, pos, next[OneMore(used, i)], o)
    BY <1>4 DEF ByTakingSome
  <2> DEFINE used2 == OneMore(used, i)
             later == next[used2]
  <2>2. used2 \in Counts(parts) /\ \A j \in DOMAIN parts : used2[j] = used[j] + (IF i = j THEN 1 ELSE 0)
    BY <1>2, OneMoreFacts DEF Counts
  <2> HIDE DEF used2
  <2>3. Respects(parts, used2)
    <3> SUFFICES ASSUME NEW j \in DOMAIN parts PROVE Within(used2[j], parts[j].max)
      BY <2>2 DEF Respects, Counts
    <3>1. Within(used[j], parts[j].max) /\ used[j] \in Nat
      BY DEF Respects
    <3>2. CASE i = j
      <4>1. used2[j] = used[j] + 1 /\ MayRepeat(parts[j], used[j])
        BY <2>1, <2>2, <3>2
      <4>2. parts[j].max \in Nat \cup {Unbounded}
        BY PartFacts
      <4> QED  BY <3>1, <4>1, <4>2 DEF MayRepeat, Within, Unbounded
    <3>3. CASE i # j
      BY <2>2, <3>1, <3>3
    <3> QED  BY <3>2, <3>3
  <2>4. next \in [Counts(parts) -> Seq(Seq(A))] /\ AgreeAt(m, pos + 1, later, AllFrom(m, parts, used2))
    BY <1>4, <2>3
  <2>5. PICK a \in Accept(m, parts[i].term, c), o2 \in ToSet(later) : o = <<a>> \o o2
    BY <2>1 DEF ByTaking, used2
  <2>6. later \in Seq(Seq(A))
    BY <2>2, <2>4
  <2>7. o2 \in Seq(A)
    BY <2>6, MemberOfSeq
  <2> HIDE DEF later
  <2>8. PICK w \in Seq(Name) : \E r \in AllFrom(m, parts, used2)[w] : Weaves(m, pos + 1, o2, w, r)
    BY <2>4, <2>5 DEF AgreeAt, Sound
  <2>9. PICK r \in AllFrom(m, parts, used2)[w] : Weaves(m, pos + 1, o2, w, r)
    BY <2>8
  <2>10. r \in Seq(Taken) /\ AllRun(m, parts, used2, w, r)
    BY AllFromFacts, LanguageFacts
  <2>11. a \in Taken
    <3> DEFINE p == parts[i]
    <3>1. p \in Particles /\ a \in Accept(m, p.term, c)
      BY PartFacts
    <3> HIDE DEF p
    <3> QED  BY <3>1, AcceptsOne
  <2>12. Weaves(m, pos, <<a>> \o o2, <<c>> \o w, <<a>> \o r)
    BY <1>4, <2>7, <2>9, <2>10, <2>11, WeavesAfterTaken
  <2>13. c \in Name
    BY <1>4, PositionFacts
  <2> HIDE DEF c
  <2>14. AllRun(m, parts, used, <<c>> \o w, <<a>> \o r)
    BY <1>2, <2>10, <2>13, AllRunCons DEF used2, Counts
  <2>15. <<c>> \o w \in Seq(Name)
    BY <2>13, ConsFacts
  <2>16. <<a>> \o r \in h[<<c>> \o w]
    BY <1>1, <2>14, <2>15
  <2> QED  BY <2>5, <2>12, <2>15, <2>16 DEF c
<1>5. ASSUME NEW o, pos # Len(m.children), ByAbsorbing(m, pos, next[used], o)
      PROVE  \E w \in Seq(Name) : \E r \in h[w] : Weaves(m, pos, o, w, r)
  <2> DEFINE later == next[used]
  <2>1. later \in Seq(Seq(A)) /\ AgreeAt(m, pos + 1, later, h)
    BY <1>2, <1>5 DEF h
  <2>2. Interleaves(m, c) /\ \E o2 \in ToSet(later) : o = <<OpenTaken(m)>> \o o2
    BY <1>5 DEF ByAbsorbing
  <2> HIDE DEF later
  <2>3. PICK o2 \in ToSet(later) : o = <<OpenTaken(m)>> \o o2
    BY <2>2
  <2>4. o2 \in Seq(A)
    BY <2>1, MemberOfSeq
  <2>5. PICK w \in Seq(Name) : \E r \in h[w] : Weaves(m, pos + 1, o2, w, r)
    BY <2>1, <2>3 DEF AgreeAt, Sound
  <2>6. PICK r \in h[w] : Weaves(m, pos + 1, o2, w, r)
    BY <2>5
  <2>7. r \in Seq(Taken)
    BY <1>1, LanguageFacts
  <2>8. Weaves(m, pos, o, w, r)
    BY <1>5, <2>2, <2>3, <2>4, <2>6, <2>7, WeavesAfterOpen
  <2> QED  BY <2>8
<1>6. ASSUME NEW w \in Seq(Name), NEW r \in h[w], NEW o \in Seq(A), Tight(o), Weaves(m, pos, o, w, r)
      PROVE  o \in ToSet(outcomes)
  <2>1. AllRun(m, parts, used, w, r) /\ r \in Seq(Taken) /\ Len(r) = Len(w)
    BY <1>1, LanguageFacts
  <2>2. CASE o = << >>
    <3>1. w = << >> /\ r = << >>
      BY <1>6, <2>1, <2>2, EmptyWeave
    <3>2. Met(parts, used)
      BY <2>1, <3>1, AllRunEmpty
    <3> QED  BY <2>2, <3>2
  <2>3. CASE o # << >>
    <3>1. o = <<o[1]>> \o Tail(o) /\ Tail(o) \in Seq(A)
      BY <2>3, TailFacts
    <3>2. /\ pos + 1 \in Positions(m) /\ pos # Len(m.children) /\ Tight(Tail(o))
          /\ \/ /\ r # << >> /\ w # << >> /\ o[1] = r[1] /\ w[1] = c
                /\ Weaves(m, pos + 1, Tail(o), Tail(w), Tail(r))
             \/ /\ o[1] = OpenTaken(m) /\ Interleaves(m, c)
                /\ Weaves(m, pos + 1, Tail(o), w, r)
      BY <1>6, <2>1, <2>3, WeavesHead
    <3>3. CASE r # << >> /\ w # << >> /\ o[1] = r[1] /\ w[1] = c /\ Weaves(m, pos + 1, Tail(o), Tail(w), Tail(r))
      <4>1. PICK i \in DOMAIN parts :
              /\ MayRepeat(parts[i], used[i]) /\ Respects(parts, OneMore(used, i))
              /\ r[1] \in Accept(m, parts[i].term, w[1])
              /\ AllRun(m, parts, OneMore(used, i), Tail(w), Tail(r))
        BY <2>1, <3>3, AllRunHead
      <4> DEFINE used2 == OneMore(used, i)
      <4> HIDE DEF used2
      <4>2. Tail(w) \in Seq(Name)
        BY <3>3, TailFacts
      <4>3. Tail(r) \in AllFrom(m, parts, used2)[Tail(w)]
        BY <4>1, <4>2, AllFromFacts DEF used2
      <4>4. AgreeAt(m, pos + 1, next[used2], AllFrom(m, parts, used2))
        BY <3>2, <4>1 DEF used2
      <4>5. Tail(o) \in ToSet(next[used2])
        BY <3>1, <3>2, <3>3, <4>2, <4>3, <4>4 DEF AgreeAt, Complete
      <4>6. o[1] \in Accept(m, parts[i].term, c)
        BY <3>3, <4>1
      <4>7. ByTaking(m, parts[i].term, pos, next[used2], o)
        BY <3>1, <4>5, <4>6 DEF ByTaking
      <4>8. ByTakingSome(m, parts, pos, used, next, o)
        BY <4>1, <4>7 DEF ByTakingSome, used2
      <4> QED  BY <3>2, <4>8
    <3>4. CASE o[1] = OpenTaken(m) /\ Interleaves(m, c) /\ Weaves(m, pos + 1, Tail(o), w, r)
      <4>1. AgreeAt(m, pos + 1, next[used], h)
        BY <3>2 DEF h
      <4>2. Tail(o) \in ToSet(next[used])
        BY <3>1, <3>2, <3>4, <4>1 DEF AgreeAt, Complete
      <4>3. ByAbsorbing(m, pos, next[used], o)
        BY <3>1, <3>4, <4>2 DEF ByAbsorbing
      <4> QED  BY <3>2, <4>3
    <3> QED  BY <3>2, <3>3, <3>4
  <2> QED  BY <2>2, <2>3
<1>7. Sound(m, pos, outcomes, h)
  BY <1>3, <1>4, <1>5 DEF Sound
<1>8. Complete(m, pos, outcomes, h)
  BY <1>6 DEF Complete
<1> QED  BY <1>7, <1>8 DEF AgreeAt, h

AllRuns(m, parts) == [w \in Seq(Name) |-> RunsOfAll(m, parts, w)]

LEMMA RunsOfAllFacts ==
    ASSUME NEW m, NEW parts \in Seq(Particles)
    PROVE  AllRuns(m, parts) = AllFrom(m, parts, [i \in DOMAIN parts |-> 0])
<1> DEFINE zero == [i \in DOMAIN parts |-> 0]
           h == AllFrom(m, parts, zero)
<1>1. h \in Language /\ \A w \in Seq(Name) : \A r : r \in h[w] <=> AllRun(m, parts, zero, w, r)
  BY AllFromFacts
<1>2. ASSUME NEW w \in Seq(Name) PROVE RunsOfAll(m, parts, w) = h[w]
  <2> DEFINE n == Len(w)
             Of(f, i) == {k \in DOMAIN w : f[k] = i}
             Fits(f) == /\ \A k \in DOMAIN w : Accept(m, parts[f[k]].term, w[k]) # {}
                        /\ \A i \in DOMAIN parts : /\ Cardinality(Of(f, i)) >= parts[i].min
                                                   /\ Within(Cardinality(Of(f, i)), parts[i].max)
             Made(f) == [k \in DOMAIN w |-> CHOOSE a \in Accept(m, parts[f[k]].term, w[k]) : TRUE]
             All == [DOMAIN w -> DOMAIN parts]
  <2>1. RunsOfAll(m, parts, w) = {Made(f) : f \in {g \in All : Fits(g)}}
    BY DEF RunsOfAll
  <2>2. n \in Nat /\ DOMAIN w = 1..n
    OBVIOUS
  <2>3. ASSUME NEW f \in All PROVE Fits(f) <=> Suit(m, parts, w, f) /\ Fit(parts, zero, n, f)
    <3>1. \A i : Of(f, i) = OfMember(n, f, i)
      BY <2>2 DEF OfMember
    <3>2. \A i \in DOMAIN parts : zero[i] + Cardinality(OfMember(n, f, i)) = Cardinality(OfMember(n, f, i))
      <4> SUFFICES ASSUME NEW i \in DOMAIN parts
                   PROVE  zero[i] + Cardinality(OfMember(n, f, i)) = Cardinality(OfMember(n, f, i))
        OBVIOUS
      <4>1. zero[i] = 0 /\ Cardinality(OfMember(n, f, i)) \in Nat
        BY <2>2, CountFacts
      <4> QED  BY <4>1
    <3> HIDE DEF zero, Of
    <3>3. Fit(parts, zero, n, f) <=>
            \A i \in DOMAIN parts : /\ Cardinality(Of(f, i)) >= parts[i].min
                                    /\ Within(Cardinality(Of(f, i)), parts[i].max)
      BY <3>1, <3>2 DEF Fit
    <3>4. Suit(m, parts, w, f) <=> \A k \in DOMAIN w : Accept(m, parts[f[k]].term, w[k]) # {}
      BY <2>2 DEF Suit
    <3> QED  BY <3>3, <3>4
  <2>4. \A f \in All : Made(f) = RunOf(m, parts, w, f)
    BY <2>2 DEF RunOf, Chosen
  <2> HIDE DEF Fits, Made, zero
  <2>5. \A r : r \in RunsOfAll(m, parts, w) <=>
               \E f \in All : Suit(m, parts, w, f) /\ Fit(parts, zero, n, f) /\ r = RunOf(m, parts, w, f)
    BY <2>1, <2>3, <2>4
  <2>6. All = [1..n -> DOMAIN parts]
    BY <2>2
  <2> HIDE DEF All, h
  <2>7. \A r : r \in RunsOfAll(m, parts, w) <=> AllRun(m, parts, zero, w, r)
    BY <2>5, <2>6 DEF AllRun
  <2> QED  BY <1>1, <2>7
<1>3. h = [w \in Seq(Name) |-> h[w]]
  BY DEF AllFrom
<1> HIDE DEF h
<1>4. AllRuns(m, parts) = h
  BY <1>2, <1>3 DEF AllRuns
<1> QED  BY <1>4 DEF h

LEMMA AllAgrees ==
    ASSUME NEW m, IsMatcher(m), NEW parts \in Seq(Particles)
    PROVE  Agree(m, MatchAll(m, parts), AllRuns(m, parts))
<1> DEFINE P == Positions(m)
           B == Seq(Attributed(m))
           R == [Counts(parts) -> Seq(B)]
           f == CHOOSE f : IsAllSearch(m, parts, f)
           zero == [i \in DOMAIN parts |-> 0]
           S == {pos \in P : f[pos] \in R /\ \A used : Respects(parts, used) =>
                   AgreeAt(m, pos, f[pos][used], AllFrom(m, parts, used))}
<1>1. f = [pos \in P |-> AllStep(m, parts, pos, f[pos + 1])]
  BY AllSearchExists, AllSearchUnfolds
<1>2. MatchAll(m, parts) = [pos \in P |-> f[pos][zero]]
  BY DEF MatchAll, IsAllSearch
<1> HIDE DEF f
<1>3. ASSUME NEW pos \in P, \A q \in P : q > pos => q \in S PROVE pos \in S
  <2> DEFINE next == f[pos + 1]
  <2>1. f[pos] = AllStep(m, parts, pos, next)
    BY <1>1
  <2>2. pos # Len(m.children) =>
          /\ next \in [Counts(parts) -> Seq(Seq(Attributed(m)))]
          /\ \A u : Respects(parts, u) => AgreeAt(m, pos + 1, next[u], AllFrom(m, parts, u))
    <3> SUFFICES ASSUME pos # Len(m.children)
                 PROVE  /\ next \in [Counts(parts) -> Seq(Seq(Attributed(m)))]
                        /\ \A u : Respects(parts, u) => AgreeAt(m, pos + 1, next[u], AllFrom(m, parts, u))
      OBVIOUS
    <3>1. pos + 1 \in P /\ pos + 1 > pos
      BY PositionFacts
    <3>2. pos + 1 \in S
      BY <1>3, <3>1
    <3> QED  BY <3>2
  <2> HIDE DEF next, S
  <2>3. ASSUME NEW used \in Counts(parts)
        PROVE  /\ f[pos][used] \in Seq(B)
               /\ \A o : o \in ToSet(f[pos][used]) <=>
                    \/ Met(parts, used) /\ o = << >>
                    \/ pos # Len(m.children) /\ ByTakingSome(m, parts, pos, used, next, o)
                    \/ pos # Len(m.children) /\ ByAbsorbing(m, pos, next[used], o)
    <3>1. CASE pos = Len(m.children)
      <4> DEFINE last == AllStep(m, parts, Len(m.children), next)
      <4>1. last[used] \in Seq(B) /\ \A o : o \in ToSet(last[used]) <=> Met(parts, used) /\ o = << >>
        BY AllStepLast
      <4>2. f[pos] = last
        BY <2>1, <3>1
      <4> HIDE DEF last
      <4> QED  BY <3>1, <4>1, <4>2
    <3>2. CASE pos # Len(m.children)
      <4>1. /\ AllStep(m, parts, pos, next)[used] \in Seq(B)
            /\ \A o : o \in ToSet(AllStep(m, parts, pos, next)[used]) <=>
                        \/ Met(parts, used) /\ o = << >>
                        \/ ByTakingSome(m, parts, pos, used, next, o)
                        \/ ByAbsorbing(m, pos, next[used], o)
        BY <2>2, <3>2, AllStepFacts
      <4> QED  BY <2>1, <3>2, <4>1
    <3> QED  BY <3>1, <3>2
  <2>4. f[pos] \in R
    <3>1. f[pos] = [used \in Counts(parts) |-> f[pos][used]]
      BY <2>1 DEF AllStep
    <3> QED  BY <2>3, <3>1
  <2>5. ASSUME NEW used, Respects(parts, used)
        PROVE  AgreeAt(m, pos, f[pos][used], AllFrom(m, parts, used))
    <3> DEFINE outcomes == f[pos][used]
    <3>1. used \in Counts(parts)
      BY <2>5 DEF Respects, Counts
    <3>2. /\ outcomes \in Seq(Seq(Attributed(m)))
          /\ \A o : o \in ToSet(outcomes) <=>
               \/ Met(parts, used) /\ o = << >>
               \/ pos # Len(m.children) /\ ByTakingSome(m, parts, pos, used, next, o)
               \/ pos # Len(m.children) /\ ByAbsorbing(m, pos, next[used], o)
      BY <2>3, <3>1
    <3> HIDE DEF outcomes
    <3>3. AgreeAt(m, pos, outcomes, AllFrom(m, parts, used))
      BY <2>2, <2>5, <3>2, AllAgreesHere
    <3> QED  BY <3>3 DEF outcomes
  <2> QED  BY <2>4, <2>5 DEF S
<1>4. P \subseteq S
  <2> HIDE DEF S
  <2> QED  BY <1>3, PositionInduction
<1>5. Respects(parts, zero)
  <2> SUFFICES ASSUME NEW i \in DOMAIN parts PROVE Within(0, parts[i].max)
    BY DEF Respects
  <2>1. parts[i].max \in Nat \cup {Unbounded}
    BY PartFacts
  <2> QED  BY <2>1 DEF Within, Unbounded
<1>6. AllRuns(m, parts) = AllFrom(m, parts, zero) /\ AllFrom(m, parts, zero) \in Language
  BY RunsOfAllFacts, AllFromFacts
<1> DEFINE g == MatchAll(m, parts)
<1>7. \A pos \in P : g[pos] = f[pos][zero]
  BY <1>2
<1>8. ASSUME NEW pos \in P PROVE g[pos] \in Seq(B) /\ AgreeAt(m, pos, g[pos], AllFrom(m, parts, zero))
  <2>1. AgreeAt(m, pos, f[pos][zero], AllFrom(m, parts, zero))
    BY <1>4, <1>5
  <2> QED  BY <1>7, <2>1 DEF AgreeAt
<1>9. g = [pos \in P |-> g[pos]]
  BY <1>2
<1> HIDE DEF g, zero, S
<1>10. g \in [P -> Seq(B)]
  BY <1>8, <1>9
<1>11. Agree(m, g, AllFrom(m, parts, zero))
  BY <1>6, <1>8, <1>10 DEF Agree
<1> QED  BY <1>6, <1>11 DEF g

-----------------------------------------------------------------------------
(* A number of occurrences.                                                *)
IsTimes(once, f) ==
    f = [n \in Nat |->
          [v \in Seq(Name) |->
             IF n = 0 THEN EmptyRun(v)
             ELSE UNION {Concatenations(once[c[1]], f[n - 1][c[2]]) : c \in Cuts(v)}]]

Times(once) == CHOOSE f : IsTimes(once, f)
EmptyRuns == [v \in Seq(Name) |-> EmptyRun(v)]

LEMMA EmptyRunsFacts ==
    /\ EmptyRuns \in Language
    /\ \A v \in Seq(Name) : \A r : r \in EmptyRuns[v] <=> v = << >> /\ r = << >>
<1>1. \A v \in Seq(Name) : \A r : r \in EmptyRuns[v] <=> v = << >> /\ r = << >>
  BY DEF EmptyRun, EmptyRuns
<1>2. \A v \in Seq(Name) : EmptyRuns[v] \in SUBSET Seq(Taken) /\ \A r \in EmptyRuns[v] : Len(r) = Len(v)
  BY <1>1
<1>3. EmptyRuns = [v \in Seq(Name) |-> EmptyRuns[v]]
  BY DEF EmptyRuns
<1> QED  BY <1>1, <1>2, <1>3 DEF Language

LEMMA TimesUnfolds ==
    ASSUME NEW once, NEW f, f = [n \in Nat |-> f[n]],
           \A n \in Nat : f[n] = IF n = 0 THEN EmptyRuns ELSE Joined(once, f[n - 1])
    PROVE  IsTimes(once, f)
<1> DEFINE E(n) ==
           [v \in Seq(Name) |->
              IF n = 0 THEN EmptyRun(v)
              ELSE UNION {Concatenations(once[c[1]], f[n - 1][c[2]]) : c \in Cuts(v)}]
<1>1. ASSUME NEW n \in Nat PROVE f[n] = E(n)
  <2>1. CASE n = 0
    BY <2>1 DEF EmptyRuns
  <2>2. CASE n # 0
    <3>1. f[n] = Joined(once, f[n - 1])
      BY <2>2
    <3>2. Joined(once, f[n - 1]) = E(n)
      BY <2>2 DEF Joined
    <3> QED  BY <3>1, <3>2
  <2> QED  BY <2>1, <2>2
<1> HIDE DEF E
<1>2. f = [n \in Nat |-> E(n)]
  BY <1>1
<1> QED  BY <1>2 DEF IsTimes, E

LEMMA TimesExists ==
    ASSUME NEW once \in Language
    PROVE  IsTimes(once, Times(once))
<1> DEFINE R == Language
           rank == [n \in Nat |-> n]
           body(n, f) == IF n = 0 THEN EmptyRuns ELSE Joined(once, f[n - 1])
           step == [n \in Nat |-> [f \in [Nat -> R] |-> body(n, f)]]
<1>1. rank \in [Nat -> Nat] /\ \A n \in Nat : rank[n] = n
  OBVIOUS
<1>2. EmptyRuns \in R
  BY EmptyRunsFacts
<1> HIDE DEF rank
<1>3. ASSUME NEW n \in Nat, NEW f \in [Nat -> R] PROVE body(n, f) \in R
  <2>1. CASE n = 0
    BY <1>2, <2>1
  <2>2. CASE n # 0
    <3> DEFINE g == f[n - 1]
    <3>1. n - 1 \in Nat
      BY <2>2
    <3>2. g \in R
      BY <3>1
    <3> HIDE DEF g
    <3>3. Joined(once, g) \in R
      BY <3>2, JoinedFacts
    <3> QED  BY <2>2, <3>3 DEF g
  <2> QED  BY <2>1, <2>2
<1>4. ASSUME NEW n \in Nat, NEW f \in [Nat -> R], NEW g \in [Nat -> R],
             \A k \in Nat : rank[k] < rank[n] => f[k] = g[k]
      PROVE  body(n, f) = body(n, g)
  <2>1. CASE n = 0
    BY <2>1
  <2>2. CASE n # 0
    <3>1. n - 1 \in Nat /\ n - 1 < n
      BY <2>2
    <3>2. f[n - 1] = g[n - 1]
      BY <1>1, <1>4, <3>1
    <3> QED  BY <2>2, <3>2
  <2> QED  BY <2>1, <2>2
<1> HIDE DEF body, R
<1>5. \A n \in Nat, f \in [Nat -> R] : step[n][f] = body(n, f)
  OBVIOUS
<1>6. step \in [Nat -> [[Nat -> R] -> R]]
  BY <1>3
<1> HIDE DEF step
<1>7. \A n \in Nat : \A f, g \in [Nat -> R] :
        (\A k \in Nat : rank[k] < rank[n] => f[k] = g[k]) => step[n][f] = step[n][g]
  BY <1>4, <1>5
<1>8. WellRanked(Nat, rank, step, R)
  BY <1>1, <1>2, <1>6, <1>7 DEF WellRanked, StepsByRank
<1>9. PICK f \in [Nat -> R] : \A n \in Nat : f[n] = step[n][f]
  BY <1>8, RankedRecursion
<1>10. \A n \in Nat : f[n] = body(n, f)
  BY <1>5, <1>9
<1>11. f = [n \in Nat |-> f[n]]
  BY <1>9
<1>12. IsTimes(once, f)
  <2>1. \A n \in Nat : f[n] = IF n = 0 THEN EmptyRuns ELSE Joined(once, f[n - 1])
    BY <1>10 DEF body
  <2> QED  BY <1>11, <2>1, TimesUnfolds
<1> QED  BY <1>12 DEF Times

LEMMA TimesFacts ==
    ASSUME NEW once \in Language
    PROVE  /\ Times(once)[0] = EmptyRuns
           /\ \A n \in Nat : Times(once)[n + 1] = Joined(once, Times(once)[n]) /\ Times(once)[n] \in Language
<1> DEFINE f == Times(once)
<1>1. IsTimes(once, f)
  BY TimesExists
<1> HIDE DEF f
<1>2. f[0] = EmptyRuns
  BY <1>1 DEF IsTimes, EmptyRuns
<1>3. \A n \in Nat : f[n + 1] = Joined(once, f[n])
  <2> SUFFICES ASSUME NEW n \in Nat PROVE f[n + 1] = Joined(once, f[n])
    OBVIOUS
  <2>1. n + 1 \in Nat /\ n + 1 # 0 /\ (n + 1) - 1 = n
    OBVIOUS
  <2>2. \A k \in Nat : k # 0 => f[k] = Joined(once, f[k - 1])
    BY <1>1 DEF IsTimes, Joined
  <2> QED  BY <2>1, <2>2
<1> DEFINE S == {n \in Nat : f[n] \in Language}
<1>4. 0 \in S
  BY <1>2, EmptyRunsFacts
<1>5. ASSUME NEW n \in Nat, n \in S PROVE n + 1 \in S
  <2>1. f[n] \in Language /\ n + 1 \in Nat
    BY <1>5
  <2>2. Joined(once, f[n]) \in Language
    BY <2>1, JoinedFacts
  <2>3. f[n + 1] \in Language
    BY <1>3, <2>2
  <2> QED  BY <2>1, <2>3
<1>6. Nat \subseteq S
  <2> HIDE DEF S
  <2> QED  BY <1>4, <1>5, InductionOnNat
<1> QED  BY <1>2, <1>3, <1>6 DEF f

(* An occurrence and some more; w2 and r2 are theirs.                      *)
LEMMA OneMoreTime ==
    ASSUME NEW once \in Language, NEW n \in Nat, NEW w1 \in Seq(Name), NEW r1 \in once[w1],
           NEW w2 \in Seq(Name), NEW r2 \in Times(once)[n][w2]
    PROVE  r1 \o r2 \in Times(once)[n + 1][w1 \o w2]
<1>1. Times(once)[n + 1] = Joined(once, Times(once)[n]) /\ Times(once)[n] \in Language
  BY TimesFacts
<1>2. w1 \o w2 \in Seq(Name)
  BY ConcatFacts
<1>3. JoinedRun(once, Times(once)[n], w1 \o w2, r1 \o r2)
  BY DEF JoinedRun
<1> QED  BY <1>1, <1>2, <1>3, JoinedFacts

LEMMA FirstTime ==
    ASSUME NEW once \in Language, NEW n \in Nat, NEW w \in Seq(Name), NEW r \in Times(once)[n + 1][w]
    PROVE  JoinedRun(once, Times(once)[n], w, r)
<1>1. Times(once)[n + 1] = Joined(once, Times(once)[n]) /\ Times(once)[n] \in Language
  BY TimesFacts
<1> QED  BY <1>1, JoinedFacts

LEMMA NoTime ==
    ASSUME NEW once \in Language, NEW w \in Seq(Name), NEW r \in Times(once)[0][w]
    PROVE  w = << >> /\ r = << >>
  BY TimesFacts, EmptyRunsFacts

AddsNothing(once, w1, r1, v, s) == r1 = << >> /\ << >> \in once[<< >>] /\ w1 \o v = v /\ r1 \o s = s

LEMMA EmptyParts ==
    ASSUME NEW once \in Language, NEW w1 \in Seq(Name), NEW r1 \in once[w1], w1 = << >>,
           NEW v \in Seq(Name), NEW s \in Seq(Taken)
    PROVE  AddsNothing(once, w1, r1, v, s)
<1>1. r1 \in Seq(Taken) /\ Len(r1) = Len(w1)
  BY LanguageFacts
<1>2. r1 = << >>
  BY <1>1, EmptyIsZero
<1>3. << >> \o v = v /\ << >> \o s = s
  BY ConcatEmpty
<1> QED  BY <1>2, <1>3 DEF AddsNothing

(* Of more occurrences than children one is empty, and can be left out.    *)
Shorter(once, n) ==
    \A w \in Seq(Name) : \A r \in Times(once)[n + 1][w] : Len(w) < n + 1 => r \in Times(once)[n][w]

LEMMA FewerTimes ==
    ASSUME NEW once \in Language, NEW n \in Nat
    PROVE  Shorter(once, n)
<1> DEFINE S == {k \in Nat : Shorter(once, k)}
<1>0. ASSUME NEW k \in Nat, \A j \in Nat : k = j + 1 => Shorter(once, j) PROVE Shorter(once, k)
  <2> SUFFICES ASSUME NEW w \in Seq(Name), NEW r \in Times(once)[k + 1][w], Len(w) < k + 1
               PROVE  r \in Times(once)[k][w]
    BY DEF Shorter
  <2>1. JoinedRun(once, Times(once)[k], w, r)
    BY FirstTime
  <2>2. PICK w1 \in Seq(Name), w2 \in Seq(Name) : \E r1 \in once[w1], r2 \in Times(once)[k][w2] : w = w1 \o w2 /\ r = r1 \o r2
    BY <2>1 DEF JoinedRun
  <2>3. PICK r1 \in once[w1], r2 \in Times(once)[k][w2] : w = w1 \o w2 /\ r = r1 \o r2
    BY <2>2
  <2>4. Times(once)[k] \in Language
    BY TimesFacts
  <2>5. r2 \in Seq(Taken)
    BY <2>4, LanguageFacts
  <2>6. CASE w1 = << >>
    <3>1. AddsNothing(once, w1, r1, w2, r2)
      BY <2>5, <2>6, EmptyParts
    <3> QED  BY <2>3, <3>1 DEF AddsNothing
  <2>7. CASE w1 # << >>
    <3>1. Len(w) = Len(w1) + Len(w2) /\ Len(w1) \in Nat /\ Len(w1) # 0 /\ Len(w2) \in Nat
      BY <2>3, <2>7, ConcatFacts, EmptyIsZero
    <3>2. k # 0 /\ Len(w2) < k
      BY <3>1
    <3> DEFINE j == k - 1
    <3>3. j \in Nat /\ k = j + 1
      BY <3>2
    <3> HIDE DEF j
    <3>4. r2 \in Times(once)[j][w2]
      <4>1. Shorter(once, j)
        BY <1>0, <3>3
      <4>2. r2 \in Times(once)[j + 1][w2] /\ Len(w2) < j + 1
        BY <3>2, <3>3
      <4> QED  BY <4>1, <4>2 DEF Shorter
    <3>5. r1 \o r2 \in Times(once)[j + 1][w1 \o w2]
      BY <3>3, <3>4, OneMoreTime
    <3> QED  BY <2>3, <3>3, <3>5
  <2> QED  BY <2>6, <2>7
<1>1. 0 \in S
  <2>1. \A j \in Nat : 0 # j + 1
    OBVIOUS
  <2> QED  BY <1>0, <2>1
<1>2. ASSUME NEW k \in Nat, k \in S PROVE k + 1 \in S
  <2>1. \A j \in Nat : k + 1 = j + 1 => j = k
    OBVIOUS
  <2>2. Shorter(once, k) /\ k + 1 \in Nat
    BY <1>2
  <2>3. Shorter(once, k + 1)
    BY <1>0, <2>1, <2>2
  <2> QED  BY <2>2, <2>3
<1>3. Nat \subseteq S
  <2> HIDE DEF S
  <2> QED  BY <1>1, <1>2, InductionOnNat
<1> QED  BY <1>3

(* Of the occurrences of a word the first may be one that takes something. *)
Leading(once, n) ==
    \A w \in Seq(Name) : \A r \in Times(once)[n + 1][w] : w # << >> =>
      \E w1 \in Seq(Name), w2 \in Seq(Name) : \E r1 \in once[w1], r2 \in Times(once)[n][w2] :
        w1 # << >> /\ w = w1 \o w2 /\ r = r1 \o r2

LEMMA LeadingTime ==
    ASSUME NEW once \in Language, NEW n \in Nat
    PROVE  Leading(once, n)
<1> DEFINE S == {k \in Nat : Leading(once, k)}
<1>0. ASSUME NEW k \in Nat, \A j \in Nat : k = j + 1 => Leading(once, j) PROVE Leading(once, k)
  <2> SUFFICES ASSUME NEW w \in Seq(Name), NEW r \in Times(once)[k + 1][w], w # << >>
               PROVE  \E w1 \in Seq(Name), w2 \in Seq(Name) : \E r1 \in once[w1], r2 \in Times(once)[k][w2] :
                        w1 # << >> /\ w = w1 \o w2 /\ r = r1 \o r2
    BY DEF Leading
  <2>1. JoinedRun(once, Times(once)[k], w, r)
    BY FirstTime
  <2>2. PICK w1 \in Seq(Name), w2 \in Seq(Name) : \E r1 \in once[w1], r2 \in Times(once)[k][w2] : w = w1 \o w2 /\ r = r1 \o r2
    BY <2>1 DEF JoinedRun
  <2>3. PICK r1 \in once[w1], r2 \in Times(once)[k][w2] : w = w1 \o w2 /\ r = r1 \o r2
    BY <2>2
  <2>4. Times(once)[k] \in Language
    BY TimesFacts
  <2>5. r2 \in Seq(Taken)
    BY <2>4, LanguageFacts
  <2>6. CASE w1 = << >>
    <3>1. r1 = << >> /\ << >> \in once[<< >>] /\ w = w2 /\ r = r2
      <4>1. AddsNothing(once, w1, r1, w2, r2)
        BY <2>5, <2>6, EmptyParts
      <4> QED  BY <2>3, <4>1 DEF AddsNothing
    <3>2. k # 0
      <4> SUFFICES ASSUME k = 0 PROVE FALSE
        OBVIOUS
      <4> QED  BY <3>1, NoTime
    <3> DEFINE j == k - 1
    <3>3. j \in Nat /\ k = j + 1
      BY <3>2
    <3> HIDE DEF j
    <3>4. PICK v1 \in Seq(Name), v2 \in Seq(Name) : \E s1 \in once[v1], s2 \in Times(once)[j][v2] :
            v1 # << >> /\ w = v1 \o v2 /\ r = s1 \o s2
      <4>1. Leading(once, j)
        BY <1>0, <3>3
      <4>2. r \in Times(once)[j + 1][w]
        BY <3>1, <3>3
      <4> QED  BY <4>1, <4>2 DEF Leading
    <3>5. PICK s1 \in once[v1], s2 \in Times(once)[j][v2] : v1 # << >> /\ w = v1 \o v2 /\ r = s1 \o s2
      BY <3>4
    <3>6. Times(once)[j] \in Language
      BY <3>3, TimesFacts
    <3>7. s2 \in Seq(Taken)
      BY <3>6, LanguageFacts
    <3>8. r1 \o s2 \in Times(once)[j + 1][w1 \o v2]
      BY <3>3, OneMoreTime
    <3>9. r1 \o s2 = s2 /\ w1 \o v2 = v2
      <4>1. AddsNothing(once, w1, r1, v2, s2)
        BY <2>6, <3>7, EmptyParts
      <4> QED  BY <4>1 DEF AddsNothing
    <3>10. s2 \in Times(once)[k][v2]
      BY <3>3, <3>8, <3>9
    <3> QED  BY <3>5, <3>10
  <2>7. CASE w1 # << >>
    BY <2>3, <2>7
  <2> QED  BY <2>6, <2>7
<1>1. 0 \in S
  <2>1. \A j \in Nat : 0 # j + 1
    OBVIOUS
  <2> QED  BY <1>0, <2>1
<1>2. ASSUME NEW k \in Nat, k \in S PROVE k + 1 \in S
  <2>1. \A j \in Nat : k + 1 = j + 1 => j = k
    OBVIOUS
  <2>2. Leading(once, k) /\ k + 1 \in Nat
    BY <1>2
  <2>3. Leading(once, k + 1)
    BY <1>0, <2>1, <2>2
  <2> QED  BY <2>2, <2>3
<1>3. Nat \subseteq S
  <2> HIDE DEF S
  <2> QED  BY <1>1, <1>2, InductionOnNat
<1> QED  BY <1>3

(* The runs of what may follow count occurrences.                          *)
Enough(p, k) == k >= p.min /\ Within(k, p.max)
FollowingRun(p, once, count, w, r) == \E n \in Nat : Enough(p, count + n) /\ r \in Times(once)[n][w]
Repeated(p, once, count) == [w \in Seq(Name) |-> {r \in Seq(Taken) : FollowingRun(p, once, count, w, r)}]

LEMMA RepeatedFacts ==
    ASSUME NEW p, NEW once \in Language, NEW count
    PROVE  /\ Repeated(p, once, count) \in Language
           /\ \A w \in Seq(Name) : \A r : r \in Repeated(p, once, count)[w] <=> FollowingRun(p, once, count, w, r)
<1>1. ASSUME NEW w \in Seq(Name), NEW r, FollowingRun(p, once, count, w, r) PROVE r \in Seq(Taken) /\ Len(r) = Len(w)
  <2>1. PICK n \in Nat : r \in Times(once)[n][w]
    BY <1>1 DEF FollowingRun
  <2>2. Times(once)[n] \in Language
    BY TimesFacts
  <2> QED  BY <2>1, <2>2, LanguageFacts
<1>2. \A w \in Seq(Name) : \A r : r \in Repeated(p, once, count)[w] <=> FollowingRun(p, once, count, w, r)
  BY <1>1 DEF Repeated
<1>3. Repeated(p, once, count) \in [Seq(Name) -> SUBSET Seq(Taken)]
  BY DEF Repeated
<1> QED  BY <1>1, <1>2, <1>3 DEF Language

(* Neither more than the minimum and one for each child are needed.        *)
InBounds(p, once, w, r) ==
    \E k \in p.min..(p.min + Len(w)) : Within(k, p.max) /\ r \in Times(once)[k][w]

LEMMA BoundedTimes ==
    ASSUME NEW p \in Particles, NEW once \in Language, NEW w \in Seq(Name), NEW r
    PROVE  FollowingRun(p, once, 0, w, r) <=> InBounds(p, once, w, r)
<1> DEFINE lo == p.min
           hi == p.max
           n == Len(w)
           S == {d \in Nat : Within(lo + d, hi) /\ r \in Times(once)[lo + d][w] => InBounds(p, once, w, r)}
<1>1. lo \in Nat /\ hi \in Nat \cup {Unbounded} /\ n \in Nat
  BY ParticleShape
<1>2. ASSUME NEW d \in Nat, d <= n PROVE d \in S
  <2>1. lo + d \in lo..(lo + n)
    BY <1>1, <1>2
  <2> QED  BY <2>1 DEF InBounds
<1>3. ASSUME NEW d \in Nat, d \in S, d + 1 > n PROVE d + 1 \in S
  <2> SUFFICES ASSUME Within(lo + (d + 1), hi), r \in Times(once)[lo + (d + 1)][w]
               PROVE  InBounds(p, once, w, r)
    OBVIOUS
  <2> DEFINE k == lo + d
  <2>1. k \in Nat /\ lo + (d + 1) = k + 1 /\ n < k + 1
    BY <1>1, <1>3
  <2> HIDE DEF k
  <2>2. r \in Times(once)[k + 1][w] /\ Within(k + 1, hi)
    BY <2>1
  <2>3. r \in Times(once)[k][w]
    BY <2>1, <2>2, FewerTimes DEF Shorter
  <2>4. Within(k, hi)
    BY <1>1, <2>1, <2>2 DEF Within, Unbounded
  <2> QED  BY <1>3, <2>3, <2>4 DEF k
<1>4. 0 \in S
  BY <1>1, <1>2
<1>5. \A d \in Nat : d \in S => d + 1 \in S
  <2> SUFFICES ASSUME NEW d \in Nat, d \in S PROVE d + 1 \in S
    OBVIOUS
  <2>1. d + 1 <= n \/ d + 1 > n
    BY <1>1
  <2> HIDE DEF S
  <2> QED  BY <1>2, <1>3, <2>1
<1>6. Nat \subseteq S
  <2> HIDE DEF S
  <2> QED  BY <1>4, <1>5, InductionOnNat
<1>7. ASSUME FollowingRun(p, once, 0, w, r) PROVE InBounds(p, once, w, r)
  <2>1. PICK k \in Nat : Enough(p, 0 + k) /\ r \in Times(once)[k][w]
    BY <1>7 DEF FollowingRun
  <2> DEFINE d == k - lo
  <2>2. d \in Nat /\ lo + d = k /\ Within(k, hi)
    BY <1>1, <2>1 DEF Enough
  <2> HIDE DEF d
  <2>3. d \in S
    BY <1>6, <2>2
  <2> QED  BY <2>1, <2>2, <2>3
<1>8. ASSUME InBounds(p, once, w, r) PROVE FollowingRun(p, once, 0, w, r)
  <2>1. PICK k \in lo..(lo + n) : Within(k, hi) /\ r \in Times(once)[k][w]
    BY <1>8 DEF InBounds
  <2>2. k \in Nat /\ 0 + k = k /\ k >= lo
    BY <1>1
  <2>3. Enough(p, 0 + k)
    BY <2>1, <2>2 DEF Enough
  <2> QED  BY <2>1, <2>2, <2>3 DEF FollowingRun
<1> QED  BY <1>7, <1>8

TimesRuns(p, once) == [w \in Seq(Name) |-> RunsTimes(p, once, w)]

LEMMA RunsTimesFacts ==
    ASSUME NEW p \in Particles, NEW once \in Language
    PROVE  TimesRuns(p, once) = Repeated(p, once, 0)
<1> DEFINE h == Repeated(p, once, 0)
<1>1. ASSUME NEW w \in Seq(Name) PROVE RunsTimes(p, once, w) = h[w]
  <2>1. RunsTimes(p, once, w) = UNION {Times(once)[n][w] : n \in {k \in p.min..(p.min + Len(w)) : Within(k, p.max)}}
    BY DEF RunsTimes, Times, IsTimes
  <2>2. \A r : r \in RunsTimes(p, once, w) <=> InBounds(p, once, w, r)
    BY <2>1 DEF InBounds
  <2>3. \A r : r \in h[w] <=> InBounds(p, once, w, r)
    BY RepeatedFacts, BoundedTimes
  <2> QED  BY <2>2, <2>3
<1>2. h = [w \in Seq(Name) |-> h[w]]
  BY DEF Repeated
<1> HIDE DEF h
<1>3. TimesRuns(p, once) = h
  BY <1>1, <1>2 DEF TimesRuns
<1> QED  BY <1>3 DEF h

(* matchParticle: the outcomes of an occurrence, each but the empty one    *)
(* continued by what follows it.                                           *)
Again(first, next) == FlattenSeq([k \in DOMAIN first |-> If(first[k] # << >>, Prefixed(first[k], next[k]))])
ByAgain(first, next, o) ==
    \E k \in DOMAIN first : first[k] # << >> /\ \E o2 \in ToSet(next[k]) : o = first[k] \o o2

LEMMA AgainFacts ==
    ASSUME NEW A, NEW first \in Seq(Seq(A)), NEW next,
           \A k \in DOMAIN first : first[k] # << >> => next[k] \in Seq(Seq(A))
    PROVE  /\ Again(first, next) \in Seq(Seq(A))
           /\ \A o : o \in ToSet(Again(first, next)) <=> ByAgain(first, next, o)
<1> DEFINE B == Seq(A)
           part(k) == If(first[k] # << >>, Prefixed(first[k], next[k]))
           seqs == [k \in DOMAIN first |-> part(k)]
<1>1. ASSUME NEW k \in DOMAIN first
      PROVE  /\ part(k) \in Seq(B)
             /\ \A o : o \in ToSet(part(k)) <=> first[k] # << >> /\ \E o2 \in ToSet(next[k]) : o = first[k] \o o2
  <2> DEFINE c == first[k] # << >>
             head == first[k]
             g == next[k]
             pre == Prefixed(head, g)
  <2>1. c \in BOOLEAN /\ head \in B /\ (c => g \in Seq(B))
    OBVIOUS
  <2> HIDE DEF head, g, c
  <2>2. c => pre \in Seq(B) /\ ToSet(pre) = {head \o o : o \in ToSet(g)}
    BY <2>1, PrefixedFacts
  <2> HIDE DEF pre
  <2>3. If(c, pre) \in Seq(B) /\ ToSet(If(c, pre)) = IF c THEN ToSet(pre) ELSE {}
    BY <2>1, <2>2, IfFacts
  <2>4. \A o : o \in ToSet(If(c, pre)) <=> c /\ \E o2 \in ToSet(g) : o = head \o o2
    BY <2>2, <2>3
  <2> QED  BY <2>3, <2>4 DEF c, head, g, pre
<1> HIDE DEF part
<1>2. seqs \in Seq(Seq(B)) /\ DOMAIN seqs = DOMAIN first /\ \A k \in DOMAIN first : seqs[k] = part(k)
  <2>1. DOMAIN first = 1..Len(first) /\ Len(first) \in Nat
    OBVIOUS
  <2> QED  BY <1>1, <2>1
<1>3. Again(first, next) = FlattenSeq(seqs)
  BY DEF Again, part
<1> HIDE DEF seqs
<1>4. FlattenSeq(seqs) \in Seq(B) /\ ToSet(FlattenSeq(seqs)) = UNION {ToSet(seqs[i]) : i \in DOMAIN seqs}
  BY <1>2, FlattenFacts
<1>5. ASSUME NEW o PROVE o \in ToSet(FlattenSeq(seqs)) <=> ByAgain(first, next, o)
  <2>1. o \in ToSet(FlattenSeq(seqs)) <=> \E k \in DOMAIN first : o \in ToSet(part(k))
    BY <1>2, <1>4
  <2> QED  BY <1>1, <2>1 DEF ByAgain
<1> QED  BY <1>3, <1>4, <1>5

FirstOf(p, once, pos, count) == If(MayRepeat(p, count), once[pos])
After(f, first, pos, count) ==
    [k \in DOMAIN first |-> IF first[k] # << >> THEN f[pos + Len(first[k])][count + 1] ELSE << >>]
LeavesNow(p, count, first) == MayLeave(p, count, << >> \in ToSet(first))
OccStep(p, once, pos, f) ==
    [count \in Nat |->
       Again(FirstOf(p, once, pos, count), After(f, FirstOf(p, once, pos, count), pos, count))
       \o If(LeavesNow(p, count, FirstOf(p, once, pos, count)), Nothing)]

IsOccSearch(m, p, once, f) ==
    f = [pos \in Positions(m) |->
          [count \in Nat |->
             LET first == If(MayRepeat(p, count), once[pos])
             IN  FlattenSeq([k \in DOMAIN first |->
                     If(first[k] # << >>, Prefixed(first[k], f[pos + Len(first[k])][count + 1]))])
                 \o If(MayLeave(p, count, << >> \in ToSet(first)), Nothing)]]

LEMMA AgainUnfolds ==
    ASSUME NEW f, NEW first, NEW pos, NEW count
    PROVE  Again(first, After(f, first, pos, count)) =
             FlattenSeq([k \in DOMAIN first |->
                     If(first[k] # << >>, Prefixed(first[k], f[pos + Len(first[k])][count + 1]))])
<1>1. ASSUME NEW k \in DOMAIN first
      PROVE  If(first[k] # << >>, Prefixed(first[k], After(f, first, pos, count)[k])) =
             If(first[k] # << >>, Prefixed(first[k], f[pos + Len(first[k])][count + 1]))
  <2>1. CASE first[k] # << >>
    <3>1. After(f, first, pos, count)[k] = f[pos + Len(first[k])][count + 1]
      BY <2>1 DEF After
    <3> QED  BY <3>1
  <2>2. CASE first[k] = << >>
    BY <2>2 DEF If
  <2> QED  BY <2>1, <2>2
<1>2. [k \in DOMAIN first |-> If(first[k] # << >>, Prefixed(first[k], After(f, first, pos, count)[k]))] =
      [k \in DOMAIN first |-> If(first[k] # << >>, Prefixed(first[k], f[pos + Len(first[k])][count + 1]))]
  BY <1>1
<1> QED  BY <1>2 DEF Again

LEMMA OccSearchUnfolds ==
    ASSUME NEW m, NEW p, NEW once, NEW f
    PROVE  IsOccSearch(m, p, once, f) <=> f = [pos \in Positions(m) |-> OccStep(p, once, pos, f)]
<1> DEFINE E(pos) ==
          [count \in Nat |->
             LET first == If(MayRepeat(p, count), once[pos])
             IN  FlattenSeq([k \in DOMAIN first |->
                     If(first[k] # << >>, Prefixed(first[k], f[pos + Len(first[k])][count + 1]))])
                 \o If(MayLeave(p, count, << >> \in ToSet(first)), Nothing)]
<1>1. ASSUME NEW pos PROVE OccStep(p, once, pos, f) = E(pos)
  <2> DEFINE e(first, count) == FlattenSeq([k \in DOMAIN first |->
                     If(first[k] # << >>, Prefixed(first[k], f[pos + Len(first[k])][count + 1]))])
  <2>1. \A count, first : Again(first, After(f, first, pos, count)) = e(first, count)
    BY AgainUnfolds
  <2>2. E(pos) = [count \in Nat |-> e(FirstOf(p, once, pos, count), count)
                                    \o If(LeavesNow(p, count, FirstOf(p, once, pos, count)), Nothing)]
    BY DEF FirstOf, LeavesNow
  <2> HIDE DEF e, E
  <2> QED  BY <2>1, <2>2 DEF OccStep
<1>2. IsOccSearch(m, p, once, f) <=> f = [pos \in Positions(m) |-> E(pos)]
  BY DEF IsOccSearch
<1> HIDE DEF E
<1> QED  BY <1>1, <1>2

OccCompleted(m, p, once, pos, count, f, o) ==
    \/ /\ MayRepeat(p, count)
       /\ \E o1 \in ToSet(once[pos]) :
            o1 # << >> /\ \E o2 \in ToSet(f[pos + Len(o1)][count + 1]) : o = o1 \o o2
    \/ /\ count >= p.min \/ (MayRepeat(p, count) /\ << >> \in ToSet(once[pos]))
       /\ o = << >>

LEMMA OccStepFacts ==
    ASSUME NEW m, IsMatcher(m), NEW p \in Particles, NEW once \in Search(m), NEW pos \in Positions(m),
           NEW f, \A q \in Positions(m) : q > pos => f[q] \in [Nat -> Seq(Seq(Attributed(m)))], NEW count \in Nat
    PROVE  /\ OccStep(p, once, pos, f)[count] \in Seq(Seq(Attributed(m)))
           /\ \A o : o \in ToSet(OccStep(p, once, pos, f)[count]) <=> OccCompleted(m, p, once, pos, count, f, o)
           /\ \A o1 \in ToSet(once[pos]) : o1 # << >> => pos + Len(o1) \in Positions(m) /\ pos + Len(o1) > pos
<1> DEFINE A == Attributed(m)
           B == Seq(A)
           may == MayRepeat(p, count)
           all == once[pos]
           first == FirstOf(p, once, pos, count)
           next == After(f, first, pos, count)
           leave == LeavesNow(p, count, first)
           cont == Again(first, next)
           stay == If(leave, Nothing)
<1>1. all \in Seq(B) /\ \A o \in ToSet(all) : o \in B /\ Len(o) \in Nat /\ pos + Len(o) \in Positions(m)
  BY SearchFacts
<1>2. \A o \in ToSet(all) : o # << >> => pos + Len(o) \in Positions(m) /\ pos + Len(o) > pos
  <2> SUFFICES ASSUME NEW o \in ToSet(all), o # << >> PROVE pos + Len(o) \in Positions(m) /\ pos + Len(o) > pos
    OBVIOUS
  <2>1. o \in B /\ Len(o) \in Nat /\ pos + Len(o) \in Positions(m) /\ pos \in Nat
    BY <1>1, PositionFacts
  <2>2. Len(o) # 0
    BY <2>1, EmptyIsZero
  <2> QED  BY <2>1, <2>2
<1>3. may \in BOOLEAN
  BY DEF MayRepeat
<1>4. first = If(may, all)
  BY DEF FirstOf
<1>5. OccStep(p, once, pos, f)[count] = cont \o stay
  BY DEF OccStep
<1> HIDE DEF all, may, first
<1>6. first \in Seq(B) /\ \A o : o \in ToSet(first) <=> may /\ o \in ToSet(all)
  <2>1. If(may, all) \in Seq(B) /\ ToSet(If(may, all)) = IF may THEN ToSet(all) ELSE {}
    BY <1>1, <1>3, IfFacts
  <2> QED  BY <1>4, <2>1
<1>7. ASSUME NEW k \in DOMAIN first, first[k] # << >>
      PROVE  next[k] = f[pos + Len(first[k])][count + 1] /\ next[k] \in Seq(B)
  <2>1. next[k] = f[pos + Len(first[k])][count + 1]
    BY <1>7 DEF After
  <2>2. first[k] \in ToSet(all)
    BY <1>6, MemberOfSeq
  <2>3. f[pos + Len(first[k])] \in [Nat -> Seq(B)]
    BY <1>2, <1>7, <2>2
  <2> QED  BY <2>1, <2>3
<1> HIDE DEF next
<1>8. cont \in Seq(B) /\ \A o : o \in ToSet(cont) <=> ByAgain(first, next, o)
  BY <1>6, <1>7, AgainFacts
<1>9. \A o : ByAgain(first, next, o) <=>
        /\ may
        /\ \E o1 \in ToSet(all) : o1 # << >> /\ \E o2 \in ToSet(f[pos + Len(o1)][count + 1]) : o = o1 \o o2
  <2> SUFFICES ASSUME NEW o
               PROVE  ByAgain(first, next, o) <=>
                        /\ may
                        /\ \E o1 \in ToSet(all) :
                             o1 # << >> /\ \E o2 \in ToSet(f[pos + Len(o1)][count + 1]) : o = o1 \o o2
    OBVIOUS
  <2>1. ASSUME ByAgain(first, next, o)
        PROVE  /\ may
               /\ \E o1 \in ToSet(all) :
                    o1 # << >> /\ \E o2 \in ToSet(f[pos + Len(o1)][count + 1]) : o = o1 \o o2
    <3>1. PICK k \in DOMAIN first : first[k] # << >> /\ \E o2 \in ToSet(next[k]) : o = first[k] \o o2
      BY <2>1 DEF ByAgain
    <3>2. first[k] \in ToSet(first)
      BY <1>6, MemberOfSeq
    <3>3. may /\ first[k] \in ToSet(all)
      BY <1>6, <3>2
    <3> QED  BY <1>7, <3>1, <3>3
  <2>2. ASSUME may, NEW o1 \in ToSet(all), o1 # << >>, NEW o2 \in ToSet(f[pos + Len(o1)][count + 1]), o = o1 \o o2
        PROVE  ByAgain(first, next, o)
    <3>1. o1 \in ToSet(first)
      BY <1>6, <2>2
    <3>2. PICK k \in DOMAIN first : o1 = first[k]
      BY <1>6, <3>1, MemberOfSeq
    <3>3. next[k] = f[pos + Len(o1)][count + 1]
      BY <1>7, <2>2, <3>2
    <3> QED  BY <2>2, <3>2, <3>3 DEF ByAgain
  <2> QED  BY <2>1, <2>2
<1>10. leave <=> count >= p.min \/ (may /\ << >> \in ToSet(all))
  BY <1>6 DEF LeavesNow, MayLeave
<1>11. leave \in BOOLEAN
  BY DEF LeavesNow, MayLeave
<1> HIDE DEF leave, cont
<1>12. stay \in Seq(B) /\ \A o : o \in ToSet(stay) <=> leave /\ o = << >>
  <2>1. Nothing \in Seq(B) /\ ToSet(Nothing) = {<< >>}
    BY NothingFacts
  <2>2. stay \in Seq(B) /\ ToSet(stay) = IF leave THEN ToSet(Nothing) ELSE {}
    BY <1>11, <2>1, IfFacts
  <2> HIDE DEF stay
  <2> QED  BY <2>1, <2>2
<1> HIDE DEF stay
<1>13. cont \o stay \in Seq(B) /\ ToSet(cont \o stay) = ToSet(cont) \cup ToSet(stay)
  BY <1>8, <1>12, ConcatFacts, ToSetConcat
<1>14. \A o : o \in ToSet(cont \o stay) <=> OccCompleted(m, p, once, pos, count, f, o)
  BY <1>8, <1>9, <1>10, <1>12, <1>13 DEF all, may, OccCompleted
<1> QED  BY <1>2, <1>5, <1>13, <1>14 DEF all

LEMMA FirstIsOnce ==
    ASSUME NEW m, IsMatcher(m), NEW p, NEW once \in Search(m), NEW pos \in Positions(m), NEW count,
           NEW k \in DOMAIN FirstOf(p, once, pos, count)
    PROVE  FirstOf(p, once, pos, count)[k] \in ToSet(once[pos])
<1> DEFINE all == once[pos]
<1>1. all \in Seq(Seq(Attributed(m)))
  BY SearchFacts
<1> HIDE DEF all
<1>2. CASE MayRepeat(p, count)
  <2>1. FirstOf(p, once, pos, count) = all
    BY <1>2 DEF FirstOf, If, all
  <2>2. k \in DOMAIN all
    BY <2>1
  <2>3. all[k] \in ToSet(all)
    BY <1>1, <2>2, MemberOfSeq
  <2> QED  BY <2>1, <2>3 DEF all
<1>3. CASE ~MayRepeat(p, count)
  <2>1. FirstOf(p, once, pos, count) = << >>
    BY <1>3 DEF FirstOf, If
  <2> QED  BY <2>1
<1> QED  BY <1>2, <1>3

LEMMA OccStepLater ==
    ASSUME NEW m, IsMatcher(m), NEW p \in Particles, NEW once \in Search(m), NEW pos \in Positions(m),
           NEW g, NEW h, \A q \in Positions(m) : q > pos => g[q] = h[q]
    PROVE  OccStep(p, once, pos, g) = OccStep(p, once, pos, h)
<1>1. ASSUME NEW count
      PROVE  After(g, FirstOf(p, once, pos, count), pos, count) = After(h, FirstOf(p, once, pos, count), pos, count)
  <2> DEFINE first == FirstOf(p, once, pos, count)
  <2>1. ASSUME NEW k \in DOMAIN first, first[k] # << >>
        PROVE  g[pos + Len(first[k])] = h[pos + Len(first[k])]
    <3> DEFINE o == first[k]
    <3>1. o \in ToSet(once[pos])
      BY FirstIsOnce
    <3>2. o \in Seq(Attributed(m)) /\ pos + Len(o) \in Positions(m)
      BY <3>1, SearchFacts
    <3>3. o # << >>
      BY <2>1
    <3> HIDE DEF o
    <3>4. Len(o) \in Nat /\ Len(o) # 0 /\ pos \in Nat
      BY <3>2, <3>3, EmptyIsZero, PositionFacts
    <3>5. pos + Len(o) > pos
      BY <3>4
    <3>6. g[pos + Len(o)] = h[pos + Len(o)]
      BY <3>2, <3>5
    <3> QED  BY <3>6 DEF o
  <2> HIDE DEF first
  <2>2. After(g, first, pos, count) = After(h, first, pos, count)
    BY <2>1 DEF After
  <2> QED  BY <2>2 DEF first
<1> QED  BY <1>1 DEF OccStep

LEMMA OccSearchExists ==
    ASSUME NEW m, IsMatcher(m), NEW p \in Particles, NEW once \in Search(m)
    PROVE  IsOccSearch(m, p, once, CHOOSE f : IsOccSearch(m, p, once, f))
<1> DEFINE P == Positions(m)
           B == Seq(Attributed(m))
           R == [Nat -> Seq(B)]
           body(pos, f) == OccStep(p, once, pos, f)
           step == [pos \in P |-> [f \in [P -> R] |-> body(pos, f)]]
<1>1. ASSUME NEW pos \in P, NEW f \in [P -> R] PROVE body(pos, f) \in R
  <2>1. ASSUME NEW count \in Nat PROVE body(pos, f)[count] \in Seq(B)
    <3>1. \A q \in P : q > pos => f[q] \in [Nat -> Seq(Seq(Attributed(m)))]
      OBVIOUS
    <3> QED  BY <3>1, OccStepFacts
  <2>2. body(pos, f) = [count \in Nat |-> body(pos, f)[count]]
    BY DEF OccStep
  <2> HIDE DEF body
  <2> QED  BY <2>1, <2>2
<1>2. step \in [P -> [[P -> R] -> R]]
  <2> HIDE DEF body, R
  <2> QED  BY <1>1
<1>3. R # {}
  <2>1. [count \in Nat |-> << >>] \in R
    OBVIOUS
  <2> QED  BY <2>1
<1>4. Later(m, step, R)
  <2> SUFFICES ASSUME NEW pos \in P, NEW g \in [P -> R], NEW h \in [P -> R],
                      \A q \in P : q > pos => g[q] = h[q]
               PROVE  body(pos, g) = body(pos, h)
    <3> HIDE DEF body, R
    <3> QED  BY <1>2, <1>3 DEF Later
  <2> QED  BY OccStepLater
<1>5. PICK f \in [P -> R] : \A pos \in P : f[pos] = step[pos][f]
  <2> HIDE DEF step, R
  <2> QED  BY <1>4, PositionRecursion
<1>6. \A pos \in P : f[pos] = OccStep(p, once, pos, f)
  BY <1>5
<1>7. f = [pos \in P |-> OccStep(p, once, pos, f)]
  <2> HIDE DEF R
  <2>1. f = [pos \in P |-> f[pos]]
    OBVIOUS
  <2> QED  BY <1>6, <2>1
<1>8. IsOccSearch(m, p, once, f)
  BY <1>7, OccSearchUnfolds
<1> QED  BY <1>8

(* The empty run any number of times.                                      *)
LEMMA EmptyTimes ==
    ASSUME NEW once \in Language, << >> \in once[<< >>]
    PROVE  \A n \in Nat : << >> \in Times(once)[n][<< >>]
<1> DEFINE S == {n \in Nat : << >> \in Times(once)[n][<< >>]}
<1>0. << >> \in Seq(Name)
  OBVIOUS
<1>1. 0 \in S
  <2>1. << >> \in EmptyRuns[<< >>]
    BY <1>0, EmptyRunsFacts
  <2> QED  BY <2>1, TimesFacts
<1>2. ASSUME NEW n \in Nat, n \in S PROVE n + 1 \in S
  <2>1. << >> \in Times(once)[n][<< >>]
    BY <1>2
  <2>2. << >> \o << >> \in Times(once)[n + 1][<< >> \o << >>]
    BY <1>0, <2>1, OneMoreTime
  <2>3. << >> \o << >> = << >>
    OBVIOUS
  <2> QED  BY <2>2, <2>3
<1>3. Nat \subseteq S
  <2> HIDE DEF S
  <2> QED  BY <1>1, <1>2, InductionOnNat
<1> QED  BY <1>3

(* One more occurrence before the rest.                                    *)
LEMMA OnceMore ==
    ASSUME NEW p, NEW h \in Language, NEW count \in Nat, NEW w1 \in Seq(Name), NEW r1 \in h[w1],
           NEW w2 \in Seq(Name), NEW r2 \in Repeated(p, h, count + 1)[w2]
    PROVE  r1 \o r2 \in Repeated(p, h, count)[w1 \o w2]
<1>1. FollowingRun(p, h, count + 1, w2, r2)
  BY RepeatedFacts
<1>2. PICK n \in Nat : Enough(p, (count + 1) + n) /\ r2 \in Times(h)[n][w2]
  BY <1>1 DEF FollowingRun
<1>3. r1 \o r2 \in Times(h)[n + 1][w1 \o w2]
  BY <1>2, OneMoreTime
<1>4. (count + 1) + n = count + (n + 1)
  OBVIOUS
<1>5. FollowingRun(p, h, count, w1 \o w2, r1 \o r2)
  BY <1>2, <1>3, <1>4 DEF FollowingRun
<1>6. w1 \o w2 \in Seq(Name)
  BY ConcatFacts
<1> QED  BY <1>5, <1>6, RepeatedFacts

RunsOn(p, h, count, w, r) ==
    /\ MayRepeat(p, count)
    /\ \E w1 \in Seq(Name), w2 \in Seq(Name) : \E r1 \in h[w1], r2 \in Repeated(p, h, count + 1)[w2] :
         w1 # << >> /\ w = w1 \o w2 /\ r = r1 \o r2

LEMMA MoreMeansMayRepeat ==
    ASSUME NEW p \in Particles, NEW count \in Nat, NEW k \in Nat, Enough(p, count + (k + 1))
    PROVE  /\ MayRepeat(p, count) /\ Within(count + 1, p.max)
           /\ Enough(p, (count + 1) + k)
<1>1. p.min \in Nat /\ p.max \in Nat \cup {Unbounded}
  BY ParticleShape
<1>2. count + (k + 1) = (count + 1) + k
  OBVIOUS
<1>3. Enough(p, (count + 1) + k)
  BY <1>2
<1>4. Within((count + 1) + k, p.max)
  BY <1>3 DEF Enough
<1> QED  BY <1>1, <1>3, <1>4 DEF Within, MayRepeat, Unbounded

(* A run of some children starts with one that is not empty ...            *)
LEMMA RunStarts ==
    ASSUME NEW p \in Particles, NEW h \in Language, NEW count \in Nat,
           NEW w \in Seq(Name), w # << >>, NEW r \in Repeated(p, h, count)[w]
    PROVE  RunsOn(p, h, count, w, r)
<1>1. FollowingRun(p, h, count, w, r)
  BY RepeatedFacts
<1>2. PICK n \in Nat : Enough(p, count + n) /\ r \in Times(h)[n][w]
  BY <1>1 DEF FollowingRun
<1>3. n # 0
  BY <1>2, NoTime
<1> DEFINE k == n - 1
<1>4. k \in Nat /\ n = k + 1
  BY <1>3
<1> HIDE DEF k
<1>5. Leading(h, k)
  BY <1>4, LeadingTime
<1>6. r \in Times(h)[k + 1][w]
  BY <1>2, <1>4
<1>7. PICK w1 \in Seq(Name), w2 \in Seq(Name) : \E r1 \in h[w1], r2 \in Times(h)[k][w2] :
        w1 # << >> /\ w = w1 \o w2 /\ r = r1 \o r2
  BY <1>5, <1>6 DEF Leading
<1>8. PICK r1 \in h[w1], r2 \in Times(h)[k][w2] : w1 # << >> /\ w = w1 \o w2 /\ r = r1 \o r2
  BY <1>7
<1>9. Enough(p, count + (k + 1))
  BY <1>2, <1>4
<1>10. MayRepeat(p, count) /\ Enough(p, (count + 1) + k)
  BY <1>4, <1>9, MoreMeansMayRepeat
<1>11. FollowingRun(p, h, count + 1, w2, r2)
  BY <1>4, <1>10 DEF FollowingRun
<1>12. r2 \in Repeated(p, h, count + 1)[w2]
  BY <1>11, RepeatedFacts
<1> QED  BY <1>8, <1>10, <1>12 DEF RunsOn

(* ... and one of no children ends or is made of empty occurrences.        *)
LEMMA NoRunLeft ==
    ASSUME NEW p \in Particles, NEW h \in Language, NEW count \in Nat,
           NEW r \in Repeated(p, h, count)[<< >>]
    PROVE  count >= p.min \/ (MayRepeat(p, count) /\ << >> \in h[<< >>])
<1>0. << >> \in Seq(Name)
  OBVIOUS
<1>1. FollowingRun(p, h, count, << >>, r)
  BY <1>0, RepeatedFacts
<1>2. PICK n \in Nat : Enough(p, count + n) /\ r \in Times(h)[n][<< >>]
  BY <1>1 DEF FollowingRun
<1>3. CASE n = 0
  <2>1. Enough(p, count)
    BY <1>2, <1>3
  <2> QED  BY <2>1 DEF Enough
<1>4. CASE n # 0
  <2> DEFINE k == n - 1
  <2>1. k \in Nat /\ n = k + 1
    BY <1>4
  <2> HIDE DEF k
  <2>2. JoinedRun(h, Times(h)[k], << >>, r)
    <3>1. r \in Times(h)[k + 1][<< >>]
      BY <1>2, <2>1
    <3> QED  BY <1>0, <2>1, <3>1, FirstTime
  <2>3. PICK v1 \in Seq(Name), v2 \in Seq(Name) : << >> = v1 \o v2 /\ \E r1 \in h[v1] : TRUE
    BY <2>2 DEF JoinedRun
  <2>4. PICK r1 \in h[v1] : TRUE
    BY <2>3
  <2>5. v1 = << >>
    <3>1. Len(v1 \o v2) = Len(v1) + Len(v2) /\ Len(v1) \in Nat /\ Len(v2) \in Nat
      BY ConcatFacts, EmptyIsZero
    <3>2. Len(<< >>) = 0
      OBVIOUS
    <3>3. Len(v1) = 0
      BY <2>3, <3>1, <3>2
    <3> QED  BY <3>3, EmptyIsZero
  <2>6. r1 \in Seq(Taken) /\ Len(r1) = 0
    <3>1. r1 \in Seq(Taken) /\ Len(r1) = Len(v1)
      BY LanguageFacts
    <3> QED  BY <2>5, <3>1
  <2>7. r1 = << >>
    BY <2>6, EmptyIsZero
  <2>8. MayRepeat(p, count)
    <3>1. Enough(p, count + (k + 1))
      BY <1>2, <2>1
    <3> QED  BY <2>1, <3>1, MoreMeansMayRepeat
  <2> QED  BY <2>4, <2>5, <2>7, <2>8
<1> QED  BY <1>3, <1>4

(* A particle that may be left has the empty run.                          *)
LEMMA LeavingRun ==
    ASSUME NEW p \in Particles, NEW h \in Language, NEW count \in Nat, Within(count, p.max),
           count >= p.min \/ << >> \in h[<< >>]
    PROVE  << >> \in Repeated(p, h, count)[<< >>]
<1>0. << >> \in Seq(Name) /\ p.min \in Nat /\ p.max \in Nat \cup {Unbounded} /\ Within(p.min, p.max)
  BY ParticleShape
<1>1. CASE count >= p.min
  <2>1. << >> \in EmptyRuns[<< >>]
    BY <1>0, EmptyRunsFacts
  <2>2. << >> \in Times(h)[0][<< >>]
    BY <2>1, TimesFacts
  <2>3. Enough(p, count + 0)
    BY <1>1 DEF Enough
  <2>4. FollowingRun(p, h, count, << >>, << >>)
    BY <2>2, <2>3 DEF FollowingRun
  <2> QED  BY <1>0, <2>4, RepeatedFacts
<1>2. CASE ~(count >= p.min)
  <2> DEFINE n == p.min - count
  <2>1. n \in Nat /\ count + n = p.min
    BY <1>0, <1>2
  <2> HIDE DEF n
  <2>2. Enough(p, count + n)
    BY <1>0, <2>1 DEF Enough
  <2>3. << >> \in Times(h)[n][<< >>]
    BY <1>2, <2>1, EmptyTimes
  <2>4. FollowingRun(p, h, count, << >>, << >>)
    BY <2>1, <2>2, <2>3 DEF FollowingRun
  <2> QED  BY <1>0, <2>4, RepeatedFacts
<1> QED  BY <1>1, <1>2

(* The search from a position, given that it is right further on.          *)
LEMMA OccSoundHere ==
    ASSUME NEW m, IsMatcher(m), NEW p \in Particles, NEW once, NEW h, Agree(m, once, h),
           NEW pos \in Positions(m), NEW count \in Nat, NEW o1 \in ToSet(once[pos]), NEW later, NEW o2 \in ToSet(later),
           AgreeAt(m, pos + Len(o1), later, Repeated(p, h, count + 1))
    PROVE  \E w \in Seq(Name) : \E r \in Repeated(p, h, count)[w] : Weaves(m, pos, o1 \o o2, w, r)
<1> DEFINE h2 == Repeated(p, h, count + 1)
           A == Attributed(m)
<1>1. once \in Search(m) /\ h \in Language /\ once[pos] \in Seq(Seq(A)) /\ AgreeAt(m, pos, once[pos], h)
  BY AgreeSearches, AgreeFacts
<1>2. h2 \in Language
  BY <1>1, RepeatedFacts
<1> HIDE DEF h2
<1>3. o1 \in Seq(A)
  BY <1>1, MemberOfSeq
<1>4. later \in Seq(Seq(A)) /\ Sound(m, pos + Len(o1), later, h2)
  BY DEF AgreeAt, h2
<1>5. o2 \in Seq(A)
  BY <1>4, MemberOfSeq
<1>6. PICK w1 \in Seq(Name) : \E r1 \in h[w1] : Weaves(m, pos, o1, w1, r1)
  BY <1>1 DEF AgreeAt, Sound
<1>7. PICK r1 \in h[w1] : Weaves(m, pos, o1, w1, r1)
  BY <1>6
<1>8. PICK w2 \in Seq(Name) : \E r2 \in h2[w2] : Weaves(m, pos + Len(o1), o2, w2, r2)
  BY <1>4 DEF Sound
<1>9. PICK r2 \in h2[w2] : Weaves(m, pos + Len(o1), o2, w2, r2)
  BY <1>8
<1>10. r1 \in Seq(Taken) /\ r2 \in Seq(Taken)
  BY <1>1, <1>2, LanguageFacts
<1>11. Weaves(m, pos, o1 \o o2, w1 \o w2, r1 \o r2)
  BY <1>3, <1>5, <1>7, <1>9, <1>10, WeavesConcat
<1>12. r1 \o r2 \in Repeated(p, h, count)[w1 \o w2]
  BY <1>1, OnceMore DEF h2
<1>13. w1 \o w2 \in Seq(Name)
  BY ConcatFacts
<1> QED  BY <1>11, <1>12, <1>13

LEMMA MayRepeatWithin ==
    ASSUME NEW p \in Particles, NEW count \in Nat, MayRepeat(p, count)
    PROVE  Within(count + 1, p.max)
<1>1. p.max \in Nat \cup {Unbounded}
  BY ParticleShape
<1> QED  BY <1>1 DEF MayRepeat, Within, Unbounded

LEMMA OccCompleteHere ==
    ASSUME NEW m, IsMatcher(m), NEW p \in Particles, NEW once, NEW h, Agree(m, once, h),
           NEW pos \in Positions(m), NEW count \in Nat,
           NEW f, \A q \in Positions(m) : q > pos =>
              \A c \in Nat : Within(c, p.max) => AgreeAt(m, q, f[q][c], Repeated(p, h, c)),
           NEW o \in Seq(Attributed(m)), Tight(o),
           NEW w \in Seq(Name), NEW r \in Repeated(p, h, count)[w], Weaves(m, pos, o, w, r)
    PROVE  OccCompleted(m, p, once, pos, count, f, o)
<1> DEFINE A == Attributed(m)
           h2 == Repeated(p, h, count + 1)
<1>1. once \in Search(m) /\ h \in Language /\ once[pos] \in Seq(Seq(A)) /\ Complete(m, pos, once[pos], h)
  BY AgreeSearches, AgreeFacts DEF AgreeAt
<1>2. Repeated(p, h, count) \in Language /\ h2 \in Language
  BY <1>1, RepeatedFacts
<1> HIDE DEF h2
<1>3. r \in Seq(Taken) /\ Len(r) = Len(w)
  BY <1>2, LanguageFacts
<1>4. CASE o = << >>
  <2>1. w = << >>
    BY <1>3, <1>4, EmptyWeave
  <2>2. count >= p.min \/ (MayRepeat(p, count) /\ << >> \in h[<< >>])
    BY <1>1, <2>1, NoRunLeft
  <2>3. ASSUME << >> \in h[<< >>] PROVE << >> \in ToSet(once[pos])
    <3>1. << >> \in Seq(Name) /\ << >> \in Seq(A) /\ Tight(<< >>)
      BY DEF Tight
    <3>2. Weaves(m, pos, << >>, << >>, << >>)
      BY WeavesNothing
    <3> QED  BY <1>1, <2>3, <3>1, <3>2 DEF Complete
  <2> QED  BY <1>4, <2>2, <2>3 DEF OccCompleted
<1>5. CASE o # << >>
  <2>1. w # << >>
    <3> SUFFICES ASSUME w = << >> PROVE FALSE
      OBVIOUS
    <3>1. Len(<< >>) = 0
      OBVIOUS
    <3>2. r = << >>
      BY <1>3, <3>1, EmptyIsZero
    <3>3. Weaves(m, pos, o, << >>, << >>)
      BY <3>2
    <3>4. o = << >>
      BY <3>3, TightWeaveOfNothing
    <3> QED  BY <1>5, <3>4
  <2>2. RunsOn(p, h, count, w, r)
    BY <1>1, <2>1, RunStarts
  <2>3. PICK w1 \in Seq(Name), w2 \in Seq(Name) : \E r1 \in h[w1], r2 \in h2[w2] :
          w1 # << >> /\ w = w1 \o w2 /\ r = r1 \o r2
    BY <2>2 DEF RunsOn, h2
  <2>4. PICK r1 \in h[w1], r2 \in h2[w2] : w1 # << >> /\ w = w1 \o w2 /\ r = r1 \o r2
    BY <2>3
  <2>5. r1 \in Seq(Taken) /\ Len(r1) = Len(w1) /\ r2 \in Seq(Taken)
    BY <1>1, <1>2, LanguageFacts
  <2>6. Weaves(m, pos, o, w1 \o w2, r1 \o r2)
    BY <2>4
  <2>7. SplitWeave(m, pos, o, w1, r1, w2, r2)
    BY <2>5, <2>6, WeavesSplit
  <2>8. PICK o1 \in Seq(A), o2 \in Seq(A) :
          /\ o = o1 \o o2 /\ Tight(o1) /\ Tight(o2)
          /\ Weaves(m, pos, o1, w1, r1) /\ Weaves(m, pos + Len(o1), o2, w2, r2)
    BY <2>7 DEF SplitWeave
  <2>9. o1 \in ToSet(once[pos])
    BY <1>1, <2>8 DEF Complete
  <2>10. o1 # << >>
    <3> SUFFICES ASSUME o1 = << >> PROVE FALSE
      OBVIOUS
    <3>1. Weaves(m, pos, << >>, w1, r1)
      BY <2>8
    <3>2. w1 = << >>
      BY <2>5, <3>1, EmptyWeave
    <3> QED  BY <2>4, <3>2
  <2> DEFINE q == pos + Len(o1)
  <2>11. q \in Positions(m) /\ q > pos
    <3>1. pos \in Nat /\ Len(o1) \in Nat /\ Len(o1) # 0
      BY <2>10, EmptyIsZero, PositionFacts
    <3>2. pos + Len(o1) \in Positions(m)
      BY <1>1, <2>9, SearchFacts
    <3> QED  BY <3>1, <3>2
  <2> HIDE DEF q
  <2>12. MayRepeat(p, count)
    BY <2>2 DEF RunsOn
  <2>13. AgreeAt(m, q, f[q][count + 1], h2)
    <3>1. Within(count + 1, p.max) /\ count + 1 \in Nat
      BY <2>12, MayRepeatWithin
    <3> QED  BY <2>11, <3>1 DEF h2
  <2>14. o2 \in ToSet(f[q][count + 1])
    <3>1. Weaves(m, q, o2, w2, r2) /\ Tight(o2)
      BY <2>8 DEF q
    <3>2. Complete(m, q, f[q][count + 1], h2)
      BY <2>13 DEF AgreeAt
    <3> QED  BY <3>1, <3>2 DEF Complete
  <2> QED  BY <2>8, <2>9, <2>10, <2>12, <2>14 DEF OccCompleted, q
<1> QED  BY <1>4, <1>5

LEMMA OccAgreesHere ==
    ASSUME NEW m, IsMatcher(m), NEW p \in Particles, NEW once, NEW h, Agree(m, once, h),
           NEW pos \in Positions(m), NEW count \in Nat, Within(count, p.max),
           NEW f, \A q \in Positions(m) : q > pos =>
              /\ f[q] \in [Nat -> Seq(Seq(Attributed(m)))]
              /\ \A c \in Nat : Within(c, p.max) => AgreeAt(m, q, f[q][c], Repeated(p, h, c))
    PROVE  AgreeAt(m, pos, OccStep(p, once, pos, f)[count], Repeated(p, h, count))
<1> DEFINE outcomes == OccStep(p, once, pos, f)[count]
           hc == Repeated(p, h, count)
<1>1. once \in Search(m) /\ h \in Language
  BY AgreeSearches
<1>2. \A q \in Positions(m) : q > pos => f[q] \in [Nat -> Seq(Seq(Attributed(m)))]
  OBVIOUS
<1>3. \A q \in Positions(m) : q > pos =>
         \A c \in Nat : Within(c, p.max) => AgreeAt(m, q, f[q][c], Repeated(p, h, c))
  OBVIOUS
<1>4. /\ outcomes \in Seq(Seq(Attributed(m)))
      /\ \A o1 \in ToSet(once[pos]) : o1 # << >> => pos + Len(o1) \in Positions(m) /\ pos + Len(o1) > pos
  BY <1>1, <1>2, OccStepFacts
<1>5. \A o : o \in ToSet(outcomes) <=> OccCompleted(m, p, once, pos, count, f, o)
  BY <1>1, <1>2, OccStepFacts
<1> HIDE DEF outcomes
<1>6. ASSUME NEW o \in ToSet(outcomes)
      PROVE  \E w \in Seq(Name) : \E r \in hc[w] : Weaves(m, pos, o, w, r)
  <2>1. OccCompleted(m, p, once, pos, count, f, o)
    BY <1>5
  <2>2. ASSUME MayRepeat(p, count), NEW o1 \in ToSet(once[pos]), o1 # << >>,
               NEW o2 \in ToSet(f[pos + Len(o1)][count + 1]), o = o1 \o o2
        PROVE  \E w \in Seq(Name) : \E r \in hc[w] : Weaves(m, pos, o, w, r)
    <3> DEFINE later == f[pos + Len(o1)][count + 1]
    <3>1. Within(count + 1, p.max) /\ count + 1 \in Nat
      BY <2>2, MayRepeatWithin
    <3>2. AgreeAt(m, pos + Len(o1), later, Repeated(p, h, count + 1))
      BY <1>3, <1>4, <2>2, <3>1
    <3>3. o2 \in ToSet(later)
      OBVIOUS
    <3> HIDE DEF later
    <3>4. \E w \in Seq(Name) : \E r \in Repeated(p, h, count)[w] : Weaves(m, pos, o1 \o o2, w, r)
      BY <3>2, <3>3, OccSoundHere
    <3> QED  BY <2>2, <3>4
  <2>3. ASSUME count >= p.min \/ (MayRepeat(p, count) /\ << >> \in ToSet(once[pos])), o = << >>
        PROVE  \E w \in Seq(Name) : \E r \in hc[w] : Weaves(m, pos, o, w, r)
    <3>1. << >> \in Seq(Name)
      OBVIOUS
    <3>2. ASSUME << >> \in ToSet(once[pos]) PROVE << >> \in h[<< >>]
      <4>1. Sound(m, pos, once[pos], h)
        BY AgreeFacts DEF AgreeAt
      <4>2. PICK w \in Seq(Name) : \E r \in h[w] : Weaves(m, pos, << >>, w, r)
        BY <3>2, <4>1 DEF Sound
      <4>3. PICK r \in h[w] : Weaves(m, pos, << >>, w, r)
        BY <4>2
      <4>4. r \in Seq(Taken)
        BY <1>1, LanguageFacts
      <4>5. w = << >> /\ r = << >>
        BY <4>3, <4>4, EmptyWeave
      <4> QED  BY <4>5
    <3>3. count >= p.min \/ << >> \in h[<< >>]
      BY <2>3, <3>2
    <3>4. << >> \in hc[<< >>]
      BY <1>1, <3>3, LeavingRun
    <3>5. Weaves(m, pos, << >>, << >>, << >>)
      BY WeavesNothing
    <3> QED  BY <2>3, <3>1, <3>4, <3>5
  <2> QED  BY <2>1, <2>2, <2>3 DEF OccCompleted
<1>7. ASSUME NEW w \in Seq(Name), NEW r \in hc[w], NEW o \in Seq(Attributed(m)), Tight(o), Weaves(m, pos, o, w, r)
      PROVE  o \in ToSet(outcomes)
  <2>1. OccCompleted(m, p, once, pos, count, f, o)
    BY <1>3, <1>7, OccCompleteHere
  <2> QED  BY <1>5, <2>1
<1> HIDE DEF hc
<1>8. AgreeAt(m, pos, outcomes, hc)
  BY <1>4, <1>6, <1>7 DEF AgreeAt, Sound, Complete
<1> QED  BY <1>8 DEF outcomes, hc

LEMMA OccurrencesAgree ==
    ASSUME NEW m, IsMatcher(m), NEW p \in Particles, NEW once, NEW h, Agree(m, once, h)
    PROVE  Agree(m, MatchOccurrences(m, p, once), TimesRuns(p, h))
<1> DEFINE P == Positions(m)
           B == Seq(Attributed(m))
           R == [Nat -> Seq(B)]
           f == CHOOSE f : IsOccSearch(m, p, once, f)
           S == {pos \in P : f[pos] \in R /\ \A c \in Nat : Within(c, p.max) =>
                   AgreeAt(m, pos, f[pos][c], Repeated(p, h, c))}
<1>0. once \in Search(m) /\ h \in Language
  BY AgreeSearches
<1>1. f = [pos \in P |-> OccStep(p, once, pos, f)]
  BY <1>0, OccSearchExists, OccSearchUnfolds
<1>2. MatchOccurrences(m, p, once) = [pos \in P |-> f[pos][0]]
  BY DEF MatchOccurrences, IsOccSearch
<1> HIDE DEF f
<1>3. ASSUME NEW pos \in P, \A q \in P : q > pos => q \in S PROVE pos \in S
  <2>1. f[pos] = OccStep(p, once, pos, f)
    BY <1>1
  <2>2. \A q \in P : q > pos => f[q] \in [Nat -> Seq(Seq(Attributed(m)))]
    BY <1>3
  <2>3. \A q \in P : q > pos =>
          /\ f[q] \in [Nat -> Seq(Seq(Attributed(m)))]
          /\ \A c \in Nat : Within(c, p.max) => AgreeAt(m, q, f[q][c], Repeated(p, h, c))
    BY <1>3
  <2>4. ASSUME NEW count \in Nat PROVE OccStep(p, once, pos, f)[count] \in Seq(B)
    BY <1>0, <2>2, OccStepFacts
  <2>5. f[pos] \in R
    <3>1. f[pos] = [count \in Nat |-> OccStep(p, once, pos, f)[count]]
      BY <2>1 DEF OccStep
    <3> QED  BY <2>4, <3>1
  <2>6. ASSUME NEW c \in Nat, Within(c, p.max) PROVE AgreeAt(m, pos, f[pos][c], Repeated(p, h, c))
    <3>1. AgreeAt(m, pos, OccStep(p, once, pos, f)[c], Repeated(p, h, c))
      BY <2>3, <2>6, OccAgreesHere
    <3> QED  BY <2>1, <3>1
  <2> QED  BY <2>5, <2>6
<1>4. P \subseteq S
  <2> HIDE DEF S
  <2> QED  BY <1>3, PositionInduction
<1>5. Within(0, p.max)
  BY ParticleShape DEF Within, Unbounded
<1> DEFINE h2 == TimesRuns(p, h)
           g == [pos \in P |-> f[pos][0]]
<1>6. h2 = Repeated(p, h, 0) /\ h2 \in Language
  BY <1>0, RunsTimesFacts, RepeatedFacts
<1>7. \A pos \in P : AgreeAt(m, pos, g[pos], h2) /\ g[pos] \in Seq(B)
  BY <1>4, <1>5, <1>6
<1>8. g \in [P -> Seq(B)]
  BY <1>7
<1> HIDE DEF g, h2
<1>9. Agree(m, g, h2)
  BY <1>6, <1>7, <1>8 DEF Agree
<1> QED  BY <1>2, <1>9 DEF g, h2

-----------------------------------------------------------------------------
(* Recursion over particles.                                               *)
LEMMA GroupShape ==
    ASSUME NEW p \in Particles, IsGroup(p.term)
    PROVE  /\ p.term \notin LeafTerm /\ p.term.kind # "ref" /\ Referred(p.term) = p.term
           /\ MembersOf(p) = p.term.particles /\ p.term.particles \in Seq(Particles)
<1>1. p.term \notin LeafTerm
  BY LeafFacts
<1>2. p.term.kind # "ref" /\ Referred(p.term) = p.term
  BY DEF IsGroup, Referred
<1>3. MembersOf(p) = p.term.particles
  BY <1>2 DEF MembersOf
<1> QED  BY <1>1, <1>2, <1>3, ParticleShape

SameMembers(p, g, h) == \A i \in DOMAIN MembersOf(p) : g[MembersOf(p)[i]] = h[MembersOf(p)[i]]

ByMembers(step, R) ==
    /\ R # {} /\ step \in [Particles -> [[Particles -> R] -> R]]
    /\ \A p \in Particles : \A g, h \in [Particles -> R] :
         (p.term \in LeafTerm \/ SameMembers(p, g, h)) => step[p][g] = step[p][h]

LEMMA ParticleRecursion ==
    \A step, R : ByMembers(step, R) => \E f \in [Particles -> R] : \A p \in Particles : f[p] = step[p][f]
<1> SUFFICES ASSUME NEW step, NEW R, ByMembers(step, R)
             PROVE  \E f \in [Particles -> R] : \A p \in Particles : f[p] = step[p][f]
  OBVIOUS
<1>1. ASSUME NEW p \in Particles, NEW g \in [Particles -> R], NEW h \in [Particles -> R],
             \A q \in Particles : Level[q] < Level[p] => g[q] = h[q]
      PROVE  step[p][g] = step[p][h]
  <2>1. CASE p.term \in LeafTerm
    BY <2>1 DEF ByMembers
  <2>2. CASE p.term \notin LeafTerm
    <3>1. MembersOf(p) \in Seq(Particles) /\ \A i \in DOMAIN MembersOf(p) : Level[MembersOf(p)[i]] < Level[p]
      BY <2>2, ParticleShape
    <3>2. \A i \in DOMAIN MembersOf(p) : MembersOf(p)[i] \in Particles
      BY <3>1
    <3>3. SameMembers(p, g, h)
      BY <1>1, <3>1, <3>2 DEF SameMembers
    <3> QED  BY <3>3 DEF ByMembers
  <2> QED  BY <2>1, <2>2
<1>2. StepsByRank(Particles, Level, step, R)
  BY <1>1 DEF StepsByRank
<1>3. WellRanked(Particles, Level, step, R)
  BY <1>2, LevelFacts DEF WellRanked, ByMembers
<1> QED  BY <1>3, RankedRecursion

(* A particle made optional.                                               *)
LEMMA MadeOptional ==
    ASSUME NEW p \in Particles
    PROVE  [p EXCEPT !.min = 0] \in Particles
<1> DEFINE T == TermsTo(Depth)
           q == [p EXCEPT !.min = 0]
<1>1. Particles = ParticlesOf(T)
  BY ParticlesByDepth, DepthAssumption DEF Particles
<1> HIDE DEF T
<1>2. p \in [min : Nat, max : Nat \cup {Unbounded}, term : T]
  BY <1>1 DEF ParticlesOf
<1>3. q \in [min : Nat, max : Nat \cup {Unbounded}, term : T] /\ q.min = 0 /\ q.max = p.max
  BY <1>2
<1>4. Within(q.min, q.max)
  BY <1>2, <1>3 DEF Within, Unbounded
<1> QED  BY <1>1, <1>3, <1>4 DEF ParticlesOf

(* flattenAll                                                              *)
Optional(q, inner) == [k \in DOMAIN inner |-> IF q.min = 0 THEN [inner[k] EXCEPT !.min = 0] ELSE inner[k]]
FlattenStep(p, f) ==
    IF p.term.kind # "all" THEN <<p>>
    ELSE FlattenSeq([i \in DOMAIN p.term.particles |-> Optional(p.term.particles[i], f[p.term.particles[i]])])

LEMMA OptionalFacts ==
    ASSUME NEW q, NEW inner \in Seq(Particles)
    PROVE  Optional(q, inner) \in Seq(Particles)
<1> DEFINE s == Optional(q, inner)
<1>1. DOMAIN inner = 1..Len(inner) /\ Len(inner) \in Nat
  OBVIOUS
<1>2. s = [k \in 1..Len(inner) |-> s[k]]
  BY <1>1 DEF Optional
<1>3. ASSUME NEW k \in 1..Len(inner) PROVE s[k] \in Particles
  <2> DEFINE x == inner[k]
  <2>1. x \in Particles
    BY <1>1
  <2>2. s[k] = IF q.min = 0 THEN [x EXCEPT !.min = 0] ELSE x
    BY <1>1 DEF Optional
  <2> HIDE DEF x, s
  <2>3. [x EXCEPT !.min = 0] \in Particles
    BY <2>1, MadeOptional
  <2> QED  BY <2>1, <2>2, <2>3
<1> HIDE DEF s
<1>4. s \in Seq(Particles)
  BY <1>1, <1>2, <1>3, SeqOfValues
<1> QED  BY <1>4 DEF s

LEMMA FlattenStepFacts ==
    ASSUME NEW p \in Particles, NEW f \in [Particles -> Seq(Particles)]
    PROVE  FlattenStep(p, f) \in Seq(Particles)
<1>1. CASE p.term.kind # "all"
  BY <1>1 DEF FlattenStep
<1>2. CASE p.term.kind = "all"
  <2> DEFINE ps == p.term.particles
             seqs == [i \in DOMAIN ps |-> Optional(ps[i], f[ps[i]])]
  <2>1. ps \in Seq(Particles)
    BY <1>2, GroupShape DEF IsGroup
  <2> HIDE DEF ps
  <2>2. \A i \in DOMAIN ps : ps[i] \in Particles /\ f[ps[i]] \in Seq(Particles)
    BY <2>1
  <2>3. \A i \in DOMAIN ps : seqs[i] \in Seq(Particles)
    BY <2>2, OptionalFacts
  <2>4. DOMAIN ps = 1..Len(ps) /\ Len(ps) \in Nat
    BY <2>1
  <2>5. seqs = [i \in 1..Len(ps) |-> seqs[i]]
    BY <2>4
  <2> HIDE DEF seqs
  <2>6. seqs \in Seq(Seq(Particles))
    BY <2>3, <2>4, <2>5, SeqOfValues
  <2>7. FlattenSeq(seqs) \in Seq(Particles)
    BY <2>6, FlattenFacts
  <2> QED  BY <1>2, <2>7 DEF FlattenStep, seqs, ps
<1> QED  BY <1>1, <1>2

IsFlattenAll(f) ==
    f = [p \in Particles |->
          IF p.term.kind # "all" THEN <<p>>
          ELSE FlattenSeq([i \in DOMAIN p.term.particles |->
                 LET q == p.term.particles[i]
                     inner == f[q]
                 IN  [k \in DOMAIN inner |-> IF q.min = 0 THEN [inner[k] EXCEPT !.min = 0] ELSE inner[k]]])]

LEMMA FlattenAllExists ==
    \E f \in [Particles -> Seq(Particles)] : IsFlattenAll(f)
<1> DEFINE R == Seq(Particles)
           step == [p \in Particles |-> [f \in [Particles -> R] |-> FlattenStep(p, f)]]
<1>1. step \in [Particles -> [[Particles -> R] -> R]]
  BY FlattenStepFacts
<1>2. R # {}
  <2>1. << >> \in R
    OBVIOUS
  <2> QED  BY <2>1
<1>3. ASSUME NEW p \in Particles, NEW g \in [Particles -> R], NEW h \in [Particles -> R],
             p.term \in LeafTerm \/ SameMembers(p, g, h)
      PROVE  FlattenStep(p, g) = FlattenStep(p, h)
  <2>1. CASE p.term.kind # "all"
    BY <2>1 DEF FlattenStep
  <2>2. CASE p.term.kind = "all"
    <3>1. MembersOf(p) = p.term.particles /\ p.term \notin LeafTerm
      BY <2>2, GroupShape DEF IsGroup
    <3>2. \A i \in DOMAIN p.term.particles : g[p.term.particles[i]] = h[p.term.particles[i]]
      BY <1>3, <3>1 DEF SameMembers
    <3> QED  BY <2>2, <3>2 DEF FlattenStep
  <2> QED  BY <2>1, <2>2
<1>4. \A p \in Particles : \A g, h \in [Particles -> R] :
         (p.term \in LeafTerm \/ SameMembers(p, g, h)) => step[p][g] = step[p][h]
  BY <1>3
<1> HIDE DEF step, R
<1>5. ByMembers(step, R)
  BY <1>1, <1>2, <1>4 DEF ByMembers
<1>6. PICK f \in [Particles -> R] : \A p \in Particles : f[p] = step[p][f]
  BY <1>5, ParticleRecursion
<1>7. \A p \in Particles : f[p] = FlattenStep(p, f)
  BY <1>6 DEF step
<1>8. f = [p \in Particles |-> FlattenStep(p, f)]
  BY <1>7
<1>9. IsFlattenAll(f)
  BY <1>8 DEF IsFlattenAll, FlattenStep, Optional
<1> QED  BY <1>9 DEF R

LEMMA FlattenAllFacts ==
    FlattenAll \in [Particles -> Seq(Particles)]
<1> DEFINE F == CHOOSE f : IsFlattenAll(f)
<1>1. FlattenAll = F
  BY DEF FlattenAll, IsFlattenAll
<1>2. IsFlattenAll(F)
  BY FlattenAllExists
<1> HIDE DEF F
<1>3. F = [p \in Particles |-> FlattenStep(p, F)]
  BY <1>2 DEF IsFlattenAll, FlattenStep, Optional
<1> DEFINE S == {p \in Particles : F[p] \in Seq(Particles)}
<1>4. ASSUME NEW p \in Particles, p.term \in LeafTerm \/ (\A i \in DOMAIN MembersOf(p) : MembersOf(p)[i] \in S)
      PROVE  p \in S
  <2> DEFINE G == [q \in Particles |-> IF q \in S THEN F[q] ELSE << >>]
  <2>1. G \in [Particles -> Seq(Particles)]
    OBVIOUS
  <2>2. FlattenStep(p, G) = FlattenStep(p, F)
    <3>1. CASE p.term.kind # "all"
      BY <3>1 DEF FlattenStep
    <3>2. CASE p.term.kind = "all"
      <4>1. MembersOf(p) = p.term.particles /\ p.term \notin LeafTerm
        BY <3>2, GroupShape DEF IsGroup
      <4>2. \A i \in DOMAIN p.term.particles : G[p.term.particles[i]] = F[p.term.particles[i]]
        BY <1>4, <4>1
      <4> HIDE DEF G
      <4> QED  BY <3>2, <4>2 DEF FlattenStep
    <3> QED  BY <3>1, <3>2
  <2> HIDE DEF G
  <2>3. FlattenStep(p, G) \in Seq(Particles)
    BY <2>1, FlattenStepFacts
  <2>4. F[p] = FlattenStep(p, F)
    BY <1>3
  <2> QED  BY <2>2, <2>3, <2>4
<1>5. Particles \subseteq S
  <2> HIDE DEF S
  <2> QED  BY <1>4, ParticleInduction
<1>6. F = [p \in Particles |-> F[p]]
  BY <1>3
<1> QED  BY <1>1, <1>5, <1>6

-----------------------------------------------------------------------------
(* matchParticle: the search of every particle is right.                   *)
TermRuns(m, p, runs) == [w \in Seq(Name) |-> RunsOfTerm(m, p, runs, w)]

LEMMA TermRunsByKind ==
    ASSUME NEW m, NEW p, NEW runs
    PROVE  /\ p.term.kind = "sequence" => TermRuns(m, p, runs) = SeqRuns(p.term.particles, runs)
           /\ p.term.kind = "choice" => TermRuns(m, p, runs) = ChoiceRuns(p.term.particles, runs)
           /\ p.term.kind = "all" => TermRuns(m, p, runs) = AllRuns(m, FlattenAll[p])
           /\ ~IsGroup(p.term) => TermRuns(m, p, runs) = LeafRuns(m, p.term)
  BY DEF TermRuns, RunsOfTerm, SeqRuns, ChoiceRuns, AllRuns, LeafRuns, IsGroup

LEMMA MatchTermByKind ==
    ASSUME NEW m, NEW p, NEW inner
    PROVE  /\ p.term.kind = "sequence" => MatchTerm(m, p, inner) = MatchSeq(m, p.term.particles, inner)
           /\ p.term.kind = "choice" => MatchTerm(m, p, inner) = MatchChoice(m, p.term.particles, inner)
           /\ p.term.kind = "all" => MatchTerm(m, p, inner) = MatchAll(m, FlattenAll[p])
           /\ ~IsGroup(p.term) => MatchTerm(m, p, inner) = MatchLeaf(m, p.term)
  BY DEF MatchTerm, IsGroup

LEMMA TermAgrees ==
    ASSUME NEW m, IsMatcher(m), NEW p \in Particles, NEW inner, NEW runs,
           IsGroup(p.term) => \A i \in DOMAIN p.term.particles : Agree(m, inner[i], runs[i])
    PROVE  Agree(m, MatchTerm(m, p, inner), TermRuns(m, p, runs))
<1> DEFINE ps == p.term.particles
<1>1. IsGroup(p.term) => ps \in Seq(Particles) /\ Len(ps) \in Nat /\ DOMAIN ps = 1..Len(ps)
  <2>1. ASSUME NEW s \in Seq(Particles) PROVE Len(s) \in Nat /\ DOMAIN s = 1..Len(s)
    OBVIOUS
  <2> QED  BY <2>1, GroupShape
<1> HIDE DEF ps
<1>2. CASE p.term.kind = "sequence"
  <2>1. IsGroup(p.term)
    BY <1>2 DEF IsGroup
  <2>2. \A i \in 1..Len(ps) : Agree(m, inner[i], runs[i])
    BY <1>1, <2>1 DEF ps
  <2>3. Agree(m, MatchSeq(m, ps, inner), SeqRuns(ps, runs))
    BY <1>1, <2>1, <2>2, SeqAgrees
  <2> QED  BY <1>2, <2>3, TermRunsByKind, MatchTermByKind DEF ps
<1>3. CASE p.term.kind = "choice"
  <2>1. IsGroup(p.term)
    BY <1>3 DEF IsGroup
  <2>2. \A i \in DOMAIN ps : Agree(m, inner[i], runs[i])
    BY <2>1 DEF ps
  <2>3. Agree(m, MatchChoice(m, ps, inner), ChoiceRuns(ps, runs))
    BY <1>1, <2>1, <2>2, ChoiceAgrees
  <2> QED  BY <1>3, <2>3, TermRunsByKind, MatchTermByKind DEF ps
<1>4. CASE p.term.kind = "all"
  <2>1. FlattenAll[p] \in Seq(Particles)
    BY FlattenAllFacts
  <2>2. Agree(m, MatchAll(m, FlattenAll[p]), AllRuns(m, FlattenAll[p]))
    BY <2>1, AllAgrees
  <2> QED  BY <1>4, <2>2, TermRunsByKind, MatchTermByKind
<1>5. CASE ~IsGroup(p.term)
  <2>1. Agree(m, MatchLeaf(m, p.term), LeafRuns(m, p.term))
    BY LeafAgrees
  <2> QED  BY <1>5, <2>1, TermRunsByKind, MatchTermByKind
<1> QED  BY <1>2, <1>3, <1>4, <1>5 DEF IsGroup

LEMMA TermRunsFacts ==
    ASSUME NEW m, NEW p \in Particles, NEW runs,
           IsGroup(p.term) => \A i \in DOMAIN p.term.particles : runs[i] \in Language
    PROVE  TermRuns(m, p, runs) \in Language
<1> DEFINE ps == p.term.particles
<1>1. IsGroup(p.term) => ps \in Seq(Particles) /\ Len(ps) \in Nat /\ DOMAIN ps = 1..Len(ps)
  <2>1. ASSUME NEW s \in Seq(Particles) PROVE Len(s) \in Nat /\ DOMAIN s = 1..Len(s)
    OBVIOUS
  <2> QED  BY <2>1, GroupShape
<1> HIDE DEF ps
<1>2. CASE p.term.kind = "sequence"
  <2>1. IsGroup(p.term)
    BY <1>2 DEF IsGroup
  <2>2. \A i \in 1..Len(ps) : runs[i] \in Language
    BY <1>1, <2>1 DEF ps
  <2>3. SeqRuns(ps, runs) \in Language
    BY <1>1, <2>1, <2>2, SeqRunsFacts
  <2> QED  BY <1>2, <2>3, TermRunsByKind DEF ps
<1>3. CASE p.term.kind = "choice"
  <2>1. IsGroup(p.term)
    BY <1>3 DEF IsGroup
  <2>2. \A i \in DOMAIN ps : runs[i] \in Language
    BY <2>1 DEF ps
  <2>3. ChoiceRuns(ps, runs) \in Language
    BY <2>2, ChoiceRunsFacts
  <2> QED  BY <1>3, <2>3, TermRunsByKind DEF ps
<1>4. CASE p.term.kind = "all"
  <2>1. FlattenAll[p] \in Seq(Particles)
    BY FlattenAllFacts
  <2> DEFINE parts == FlattenAll[p]
             zero == [i \in DOMAIN parts |-> 0]
  <2> HIDE DEF parts
  <2>2. AllRuns(m, parts) = AllFrom(m, parts, zero)
    BY <2>1, RunsOfAllFacts DEF parts
  <2> HIDE DEF zero
  <2>3. AllFrom(m, parts, zero) \in Language
    BY <2>1, AllFromFacts DEF parts
  <2>4. AllRuns(m, FlattenAll[p]) \in Language
    BY <2>2, <2>3 DEF parts
  <2> QED  BY <1>4, <2>4, TermRunsByKind
<1>5. CASE ~IsGroup(p.term)
  <2>1. LeafRuns(m, p.term) \in Language
    BY LeafRunsFacts
  <2> QED  BY <1>5, <2>1, TermRunsByKind
<1> QED  BY <1>2, <1>3, <1>4, <1>5 DEF IsGroup

InnerOf(p, f) == [i \in DOMAIN p.term.particles |-> f[p.term.particles[i]]]

RunsStep(m, p, f) == TimesRuns(p, TermRuns(m, p, InnerOf(p, f)))

IsRuns(m, f) ==
    f = [p \in Particles |->
          LET inner == [i \in DOMAIN p.term.particles |-> f[p.term.particles[i]]]
              once == [w \in Seq(Name) |-> RunsOfTerm(m, p, inner, w)]
          IN  [w \in Seq(Name) |-> RunsTimes(p, once, w)]]

LEMMA InnerFacts ==
    ASSUME NEW p \in Particles, IsGroup(p.term), NEW f
    PROVE  /\ DOMAIN InnerOf(p, f) = DOMAIN p.term.particles
           /\ \A i \in DOMAIN p.term.particles :
                p.term.particles[i] \in Particles /\ InnerOf(p, f)[i] = f[p.term.particles[i]]
<1>1. p.term.particles \in Seq(Particles)
  BY GroupShape
<1>2. \A i \in DOMAIN p.term.particles : p.term.particles[i] \in Particles
  BY <1>1
<1> QED  BY <1>2 DEF InnerOf

LEMMA SameInner ==
    ASSUME NEW p \in Particles, IsGroup(p.term), NEW g, NEW h, p.term \in LeafTerm \/ SameMembers(p, g, h)
    PROVE  InnerOf(p, g) = InnerOf(p, h)
<1>1. MembersOf(p) = p.term.particles /\ p.term \notin LeafTerm
  BY GroupShape
<1>2. \A i \in DOMAIN p.term.particles : g[p.term.particles[i]] = h[p.term.particles[i]]
  BY <1>1 DEF SameMembers
<1> QED  BY <1>2 DEF InnerOf

LEMMA RunsStepFacts ==
    ASSUME NEW m, NEW p \in Particles, NEW f, IsGroup(p.term) => \A i \in DOMAIN p.term.particles : f[p.term.particles[i]] \in Language
    PROVE  RunsStep(m, p, f) \in Language
<1> DEFINE once == TermRuns(m, p, InnerOf(p, f))
<1>1. IsGroup(p.term) => \A i \in DOMAIN p.term.particles : InnerOf(p, f)[i] \in Language
  BY InnerFacts
<1>2. once \in Language
  BY <1>1, TermRunsFacts
<1> HIDE DEF once
<1>3. TimesRuns(p, once) \in Language
  BY <1>2, RunsTimesFacts, RepeatedFacts
<1> QED  BY <1>3 DEF RunsStep, once

LEMMA RunsExist ==
    ASSUME NEW m
    PROVE  \E f \in [Particles -> Language] : IsRuns(m, f)
<1> DEFINE R == Language
           step == [p \in Particles |-> [f \in [Particles -> R] |-> RunsStep(m, p, f)]]
<1>1. step \in [Particles -> [[Particles -> R] -> R]]
  <2>1. ASSUME NEW p \in Particles, NEW f \in [Particles -> R] PROVE RunsStep(m, p, f) \in R
    <3>1. IsGroup(p.term) => \A i \in DOMAIN p.term.particles : f[p.term.particles[i]] \in Language
      BY InnerFacts
    <3> QED  BY <3>1, RunsStepFacts
  <2> HIDE DEF R
  <2> QED  BY <2>1
<1>2. R # {}
  <2>1. EmptyRuns \in R
    BY EmptyRunsFacts
  <2> HIDE DEF R
  <2> QED  BY <2>1
<1>3. ASSUME NEW p \in Particles, NEW g \in [Particles -> R], NEW h \in [Particles -> R],
             p.term \in LeafTerm \/ SameMembers(p, g, h)
      PROVE  RunsStep(m, p, g) = RunsStep(m, p, h)
  <2>1. CASE IsGroup(p.term)
    <3>1. InnerOf(p, g) = InnerOf(p, h)
      BY <1>3, <2>1, SameInner
    <3> QED  BY <3>1 DEF RunsStep
  <2>2. CASE ~IsGroup(p.term)
    <3>1. \A runs : TermRuns(m, p, runs) = LeafRuns(m, p.term)
      BY <2>2, TermRunsByKind
    <3> QED  BY <3>1 DEF RunsStep
  <2> QED  BY <2>1, <2>2
<1> HIDE DEF R
<1>4. \A p \in Particles : \A g, h \in [Particles -> R] :
         (p.term \in LeafTerm \/ SameMembers(p, g, h)) => step[p][g] = step[p][h]
  BY <1>3
<1> HIDE DEF step
<1>5. ByMembers(step, R)
  BY <1>1, <1>2, <1>4 DEF ByMembers
<1>6. PICK f \in [Particles -> R] : \A p \in Particles : f[p] = step[p][f]
  BY <1>5, ParticleRecursion
<1>7. \A p \in Particles : f[p] = RunsStep(m, p, f)
  BY <1>6 DEF step
<1>8. f = [p \in Particles |-> RunsStep(m, p, f)]
  BY <1>7
<1>9. IsRuns(m, f)
  BY <1>8 DEF IsRuns, RunsStep, TimesRuns, TermRuns, InnerOf
<1> QED  BY <1>9 DEF R

(* The functions the recursive definitions stand for, and their equations. *)
RunsFrom(m) == CHOOSE f : IsRuns(m, f)

LEMMA RunsFromFacts ==
    ASSUME NEW m
    PROVE  /\ RunsFrom(m) = [p \in Particles |-> RunsStep(m, p, RunsFrom(m))]
           /\ RunsFrom(m) \in [Particles -> Language]
<1> DEFINE F == RunsFrom(m)
<1>1. IsRuns(m, F)
  BY RunsExist DEF RunsFrom
<1> HIDE DEF F
<1>2. F = [p \in Particles |-> RunsStep(m, p, F)]
  BY <1>1 DEF IsRuns, RunsStep, TimesRuns, TermRuns, InnerOf
<1> DEFINE S == {p \in Particles : F[p] \in Language}
<1>3. ASSUME NEW p \in Particles, p.term \in LeafTerm \/ (\A i \in DOMAIN MembersOf(p) : MembersOf(p)[i] \in S)
      PROVE  p \in S
  <2>1. IsGroup(p.term) => \A i \in DOMAIN p.term.particles : F[p.term.particles[i]] \in Language
    <3> SUFFICES ASSUME IsGroup(p.term) PROVE \A i \in DOMAIN p.term.particles : F[p.term.particles[i]] \in Language
      OBVIOUS
    <3>1. MembersOf(p) = p.term.particles /\ p.term \notin LeafTerm
      BY GroupShape
    <3> QED  BY <1>3, <3>1
  <2>2. RunsStep(m, p, F) \in Language
    BY <2>1, RunsStepFacts
  <2>3. F[p] = RunsStep(m, p, F)
    BY <1>2
  <2> QED  BY <2>2, <2>3
<1>4. Particles \subseteq S
  <2> HIDE DEF S
  <2> QED  BY <1>3, ParticleInduction
<1>5. F = [p \in Particles |-> F[p]]
  BY <1>2
<1>6. F \in [Particles -> Language]
  BY <1>4, <1>5
<1> QED  BY <1>2, <1>6 DEF F

LEMMA RunsUnfold ==
    ASSUME NEW m
    PROVE  Runs(m) = RunsFrom(m)[m.particle]
  BY DEF Runs, RunsFrom, IsRuns

SearchStep(m, p, f) == MatchOccurrences(m, p, MatchTerm(m, p, InnerOf(p, f)))

IsSearch(m, f) ==
    f = [p \in Particles |->
          MatchOccurrences(m, p, MatchTerm(m, p, [i \in DOMAIN p.term.particles |-> f[p.term.particles[i]]]))]

SearchFrom(m) == CHOOSE f : IsSearch(m, f)

LEMMA OutcomesUnfold ==
    ASSUME NEW m
    PROVE  Outcomes(m) = SearchFrom(m)[m.particle][0]
  BY DEF Outcomes, SearchFrom, IsSearch

(* The searches that find what some language says.                         *)
RightSearch(m) == {g \in Search(m) : \E h \in Language : Agree(m, g, h)}

LEMMA SearchStepAgrees ==
    ASSUME NEW m, IsMatcher(m), NEW p \in Particles, NEW f, NEW h,
           IsGroup(p.term) => \A i \in DOMAIN p.term.particles : Agree(m, f[p.term.particles[i]], h[p.term.particles[i]])
    PROVE  Agree(m, SearchStep(m, p, f), RunsStep(m, p, h))
<1> DEFINE inner == InnerOf(p, f)
           runs == InnerOf(p, h)
           once == MatchTerm(m, p, inner)
           lang == TermRuns(m, p, runs)
<1>1. IsGroup(p.term) => \A i \in DOMAIN p.term.particles : Agree(m, inner[i], runs[i])
  BY InnerFacts
<1> HIDE DEF inner, runs
<1>2. Agree(m, once, lang)
  BY <1>1, TermAgrees
<1> HIDE DEF once, lang
<1>3. Agree(m, MatchOccurrences(m, p, once), TimesRuns(p, lang))
  BY <1>2, OccurrencesAgree
<1> QED  BY <1>3 DEF SearchStep, RunsStep, once, lang, inner, runs

LEMMA SearchExists ==
    ASSUME NEW m, IsMatcher(m)
    PROVE  \E f : IsSearch(m, f)
<1> DEFINE R == RightSearch(m)
           step == [p \in Particles |-> [f \in [Particles -> R] |-> SearchStep(m, p, f)]]
<1>1. \A g \in R : \E h \in Language : Agree(m, g, h)
  BY DEF RightSearch
<1>2. ASSUME NEW g, NEW h, Agree(m, g, h) PROVE g \in R
  BY <1>2, AgreeSearches DEF RightSearch
<1> HIDE DEF R
<1>3. ASSUME NEW p \in Particles, NEW f \in [Particles -> R] PROVE SearchStep(m, p, f) \in R
  <2> DEFINE h == [q \in Particles |-> CHOOSE h \in Language : Agree(m, f[q], h)]
  <2>1. \A q \in Particles : Agree(m, f[q], h[q])
    <3> SUFFICES ASSUME NEW q \in Particles PROVE Agree(m, f[q], h[q])
      OBVIOUS
    <3>1. f[q] \in R
      OBVIOUS
    <3>2. \E x \in Language : Agree(m, f[q], x)
      BY <1>1, <3>1
    <3> QED  BY <3>2
  <2> HIDE DEF h
  <2>2. IsGroup(p.term) => \A i \in DOMAIN p.term.particles : Agree(m, f[p.term.particles[i]], h[p.term.particles[i]])
    BY <2>1, InnerFacts
  <2>3. Agree(m, SearchStep(m, p, f), RunsStep(m, p, h))
    BY <2>2, SearchStepAgrees
  <2> QED  BY <1>2, <2>3
<1>4. step \in [Particles -> [[Particles -> R] -> R]]
  BY <1>3
<1>5. R # {}
  <2>1. Agree(m, [pos \in Positions(m) |-> Nothing], [v \in Seq(Name) |-> EmptyRun(v)])
    BY EmptyRunAgrees
  <2> QED  BY <1>2, <2>1
<1>6. ASSUME NEW p \in Particles, NEW g \in [Particles -> R], NEW h \in [Particles -> R],
             p.term \in LeafTerm \/ SameMembers(p, g, h)
      PROVE  SearchStep(m, p, g) = SearchStep(m, p, h)
  <2>1. CASE IsGroup(p.term)
    <3>1. InnerOf(p, g) = InnerOf(p, h)
      BY <1>6, <2>1, SameInner
    <3> QED  BY <3>1 DEF SearchStep
  <2>2. CASE ~IsGroup(p.term)
    <3>1. \A inner : MatchTerm(m, p, inner) = MatchLeaf(m, p.term)
      BY <2>2, MatchTermByKind
    <3> QED  BY <3>1 DEF SearchStep
  <2> QED  BY <2>1, <2>2
<1>7. \A p \in Particles : \A g, h \in [Particles -> R] :
         (p.term \in LeafTerm \/ SameMembers(p, g, h)) => step[p][g] = step[p][h]
  BY <1>6
<1> HIDE DEF step
<1>8. ByMembers(step, R)
  BY <1>4, <1>5, <1>7 DEF ByMembers
<1>9. PICK f \in [Particles -> R] : \A p \in Particles : f[p] = step[p][f]
  BY <1>8, ParticleRecursion
<1>10. \A p \in Particles : f[p] = SearchStep(m, p, f)
  BY <1>9 DEF step
<1>11. f = [p \in Particles |-> SearchStep(m, p, f)]
  BY <1>10
<1>12. IsSearch(m, f)
  BY <1>11 DEF IsSearch, SearchStep, InnerOf
<1> QED  BY <1>12

(* What the matcher finds of a particle is what its language says.         *)
LEMMA ParticlesAgree ==
    ASSUME NEW m, IsMatcher(m)
    PROVE  \A p \in Particles : Agree(m, SearchFrom(m)[p], RunsFrom(m)[p])
<1> DEFINE F == SearchFrom(m)
           H == RunsFrom(m)
<1>1. IsSearch(m, F)
  BY SearchExists DEF SearchFrom
<1> HIDE DEF F
<1>2. F = [p \in Particles |-> SearchStep(m, p, F)]
  BY <1>1 DEF IsSearch, SearchStep, InnerOf
<1>3. H = [p \in Particles |-> RunsStep(m, p, H)]
  BY RunsFromFacts
<1> HIDE DEF H
<1> DEFINE S == {p \in Particles : Agree(m, F[p], H[p])}
<1>4. ASSUME NEW p \in Particles, p.term \in LeafTerm \/ (\A i \in DOMAIN MembersOf(p) : MembersOf(p)[i] \in S)
      PROVE  p \in S
  <2>1. IsGroup(p.term) => \A i \in DOMAIN p.term.particles : Agree(m, F[p.term.particles[i]], H[p.term.particles[i]])
    <3> SUFFICES ASSUME IsGroup(p.term)
                 PROVE  \A i \in DOMAIN p.term.particles : Agree(m, F[p.term.particles[i]], H[p.term.particles[i]])
      OBVIOUS
    <3>1. MembersOf(p) = p.term.particles /\ p.term \notin LeafTerm
      BY GroupShape
    <3> QED  BY <1>4, <3>1
  <2>2. Agree(m, SearchStep(m, p, F), RunsStep(m, p, H))
    BY <2>1, SearchStepAgrees
  <2>3. F[p] = SearchStep(m, p, F) /\ H[p] = RunsStep(m, p, H)
    BY <1>2, <1>3
  <2> QED  BY <2>2, <2>3
<1>5. Particles \subseteq S
  <2> HIDE DEF S
  <2> QED  BY <1>4, ParticleInduction
<1> QED  BY <1>5 DEF F, H

-----------------------------------------------------------------------------
(* What the matcher sees of a content model is a particle nested no deeper.*)
UnfoldStep(p, f) ==
    IF IsLeaf(Referred(p.term)) THEN p
    ELSE [p EXCEPT !.term = Group(Referred(p.term).kind, [i \in DOMAIN MembersOf(p) |-> f[MembersOf(p)[i]]])]

NoDeeper(q) == ParticlesTo[Level[q]]

LEMMA UnfoldStepFacts ==
    ASSUME NEW p \in Particles, NEW f, \A q \in Particles : f[q] \in NoDeeper(q)
    PROVE  UnfoldStep(p, f) \in NoDeeper(p)
<1> DEFINE n == Level[p]
<1>1. n \in Nat /\ p \in ParticlesTo[n]
  BY LevelFacts
<1>2. CASE p.term \in LeafTerm
  <2>1. IsLeaf(Referred(p.term))
    BY <1>2, LeafFacts
  <2> QED  BY <1>1, <2>1 DEF UnfoldStep, NoDeeper
<1>3. CASE p.term \notin LeafTerm
  <2> DEFINE ms == MembersOf(p)
             t == Referred(p.term)
             s == [i \in DOMAIN ms |-> f[ms[i]]]
             g == Group(t.kind, s)
             q == [p EXCEPT !.term = g]
  <2>1. IsGroup(t) /\ ~IsLeaf(t) /\ ms \in Seq(Particles) /\ \A i \in DOMAIN ms : Level[ms[i]] < n
    BY <1>3, ParticleShape
  <2>2. n # 0
    BY <1>1, <1>3, ParticleAt
  <2> DEFINE k == n - 1
  <2>3. k \in Nat /\ n = k + 1
    BY <1>1, <2>2
  <2> HIDE DEF k, n, t
  <2> HIDE DEF ms
  <2>4. ASSUME NEW i \in DOMAIN ms PROVE f[ms[i]] \in ParticlesTo[k]
    <3>1. ms[i] \in Particles
      BY <2>1
    <3>2. Level[ms[i]] \in Nat /\ Level[ms[i]] <= k
      BY <2>1, <2>3, <3>1, LevelFacts
    <3>3. f[ms[i]] \in ParticlesTo[Level[ms[i]]]
      BY <3>1 DEF NoDeeper
    <3> QED  BY <2>3, <3>2, <3>3, ParticlesWithin
  <2>5. s \in Seq(ParticlesTo[k])
    <3>1. DOMAIN ms = 1..Len(ms) /\ Len(ms) \in Nat
      BY <2>1
    <3>2. s = [i \in 1..Len(ms) |-> s[i]]
      BY <3>1
    <3>3. \A i \in 1..Len(ms) : s[i] \in ParticlesTo[k]
      BY <2>4, <3>1
    <3> HIDE DEF s
    <3> QED  BY <3>1, <3>2, <3>3, SeqOfValues
  <2> HIDE DEF s
  <2>6. g \in GroupsOf(ParticlesTo[k])
    BY <2>1, <2>5 DEF GroupsOf, Group, IsGroup
  <2>7. g \in TermsTo(n)
    <3>1. TermsTo(n) = TermsOver(GroupsOf(ParticlesTo[k]))
      BY <2>2, <2>3 DEF TermsTo
    <3> QED  BY <2>6, <3>1 DEF TermsOver
  <2>8. ParticlesTo[n] = ParticlesOf(TermsTo(n))
    BY <2>3, ParticlesByDepth
  <2> HIDE DEF g
  <2>9. q \in ParticlesTo[n]
    <3>1. /\ p = [min |-> p.min, max |-> p.max, term |-> p.term]
          /\ p.min \in Nat /\ p.max \in Nat \cup {Unbounded} /\ Within(p.min, p.max)
      BY ParticleShape
    <3>2. q = [min |-> p.min, max |-> p.max, term |-> g]
      BY <3>1
    <3> HIDE DEF q
    <3>3. q \in [min : Nat, max : Nat \cup {Unbounded}, term : TermsTo(n)] /\ q.min = p.min /\ q.max = p.max
      BY <2>7, <3>1, <3>2
    <3> QED  BY <2>8, <3>1, <3>3 DEF ParticlesOf
  <2> QED  BY <2>1, <2>9 DEF UnfoldStep, NoDeeper, n, q, g, s, ms, t
<1> QED  BY <1>2, <1>3

IsUnfolding(f) ==
    f = [p \in Particles |->
          LET t == Referred(p.term)
          IN  IF IsLeaf(t) THEN p
              ELSE [p EXCEPT !.term = Group(t.kind, [i \in DOMAIN t.particles |-> f[t.particles[i]]])]]

LEMMA SameUnfoldStep ==
    ASSUME NEW p \in Particles, NEW g, NEW h, p.term \in LeafTerm \/ SameMembers(p, g, h)
    PROVE  UnfoldStep(p, g) = UnfoldStep(p, h)
<1>1. CASE p.term \in LeafTerm
  <2>1. IsLeaf(Referred(p.term))
    BY <1>1, LeafFacts
  <2> QED  BY <2>1 DEF UnfoldStep
<1>2. CASE SameMembers(p, g, h)
  <2>1. [i \in DOMAIN MembersOf(p) |-> g[MembersOf(p)[i]]] = [i \in DOMAIN MembersOf(p) |-> h[MembersOf(p)[i]]]
    BY <1>2 DEF SameMembers
  <2> QED  BY <2>1 DEF UnfoldStep
<1> QED  BY <1>1, <1>2

(* Where there is no particle the matcher follows an empty sequence.       *)
LEMMA EmptyModel ==
    Particle(1, 1, Group("sequence", << >>)) \in Particles
<1> DEFINE t == Group("sequence", << >>)
<1>1. t \in GroupsOf(ParticlesTo[Depth - 1])
  BY DEF GroupsOf, Group
<1>2. t \in TermsTo(Depth)
  BY <1>1, DepthAssumption DEF TermsTo, TermsOver
<1> HIDE DEF t
<1>3. Particle(1, 1, t) \in ParticlesOf(TermsTo(Depth))
  BY <1>2 DEF ParticlesOf, Particle, Within
<1> QED  BY <1>3, ParticlesByDepth, DepthAssumption DEF Particles, t

LEMMA UnfoldedFacts ==
    /\ Unfolded = [p \in Particles |-> UnfoldStep(p, Unfolded)]
    /\ \A p \in Particles : Unfolded[p] \in NoDeeper(p) /\ Unfolded[p] \in Particles
<1>1. \A q \in Particles : q \in NoDeeper(q) /\ NoDeeper(q) \subseteq Particles
  <2> SUFFICES ASSUME NEW q \in Particles PROVE q \in NoDeeper(q) /\ NoDeeper(q) \subseteq Particles
    OBVIOUS
  <2>1. q \in ParticlesTo[Level[q]] /\ Level[q] \in Nat /\ Depth \in Nat /\ q \in ParticlesTo[Depth]
    BY LevelFacts, DepthAssumption DEF Particles
  <2>2. Level[q] <= Depth
    BY <2>1, LevelFacts
  <2>3. ParticlesTo[Level[q]] \subseteq ParticlesTo[Depth]
    BY <2>1, <2>2, ParticlesWithin
  <2> QED  BY <2>1, <2>3 DEF NoDeeper, Particles
<1> DEFINE R == Particles
           Kept(f) == [q \in Particles |-> IF f[q] \in NoDeeper(q) THEN f[q] ELSE q]
           step == [p \in Particles |-> [f \in [Particles -> R] |-> UnfoldStep(p, Kept(f))]]
<1>2. \A f : \A q \in Particles : Kept(f)[q] \in NoDeeper(q)
  BY <1>1
<1>3. ASSUME NEW p \in Particles, NEW g \in [Particles -> R], NEW h \in [Particles -> R],
             p.term \in LeafTerm \/ SameMembers(p, g, h)
      PROVE  UnfoldStep(p, Kept(g)) = UnfoldStep(p, Kept(h))
  <2>1. p.term \in LeafTerm \/ SameMembers(p, Kept(g), Kept(h))
    <3> SUFFICES ASSUME p.term \notin LeafTerm PROVE SameMembers(p, Kept(g), Kept(h))
      OBVIOUS
    <3>1. \A i \in DOMAIN MembersOf(p) : MembersOf(p)[i] \in Particles
      BY ParticleShape
    <3> QED  BY <1>3, <3>1 DEF SameMembers
  <2> HIDE DEF Kept
  <2> QED  BY <2>1, SameUnfoldStep
<1> HIDE DEF Kept
<1>4. \A p \in Particles : \A f : UnfoldStep(p, Kept(f)) \in NoDeeper(p)
  BY <1>2, UnfoldStepFacts
<1>5. step \in [Particles -> [[Particles -> R] -> R]]
  BY <1>1, <1>4
<1>6. R # {}
  BY EmptyModel
<1>7. \A p \in Particles : \A g, h \in [Particles -> R] :
         (p.term \in LeafTerm \/ SameMembers(p, g, h)) => step[p][g] = step[p][h]
  BY <1>3
<1> HIDE DEF step
<1>8. ByMembers(step, R)
  BY <1>5, <1>6, <1>7 DEF ByMembers
<1>9. PICK f \in [Particles -> R] : \A p \in Particles : f[p] = step[p][f]
  BY <1>8, ParticleRecursion
<1>10. \A p \in Particles : f[p] = UnfoldStep(p, Kept(f))
  BY <1>9 DEF step
<1>11. \A p \in Particles : f[p] \in NoDeeper(p)
  BY <1>4, <1>10
<1>12. Kept(f) = f
  BY <1>11 DEF Kept
<1>13. f = [p \in Particles |-> UnfoldStep(p, f)]
  BY <1>10, <1>12
<1>14. \E g : IsUnfolding(g)
  <2>1. IsUnfolding(f)
    BY <1>13 DEF IsUnfolding, UnfoldStep, MembersOf
  <2> QED  BY <2>1
<1>15. Unfolded = CHOOSE g : IsUnfolding(g)
  BY DEF Unfolded, IsUnfolding
<1>16. IsUnfolding(Unfolded)
  BY <1>14, <1>15
<1>17. Unfolded = [p \in Particles |-> UnfoldStep(p, Unfolded)]
  BY <1>16 DEF IsUnfolding, UnfoldStep, MembersOf
<1> DEFINE S == {p \in Particles : Unfolded[p] \in NoDeeper(p)}
<1>18. ASSUME NEW p \in Particles, p.term \in LeafTerm \/ (\A i \in DOMAIN MembersOf(p) : MembersOf(p)[i] \in S)
       PROVE  p \in S
  <2>1. p.term \in LeafTerm \/ SameMembers(p, Kept(Unfolded), Unfolded)
    BY <1>18 DEF SameMembers, Kept
  <2>2. UnfoldStep(p, Kept(Unfolded)) = UnfoldStep(p, Unfolded)
    BY <2>1, SameUnfoldStep
  <2>3. Unfolded[p] \in NoDeeper(p)
    BY <1>4, <1>17, <2>2
  <2> QED  BY <2>3
<1>19. Particles \subseteq S
  <2> HIDE DEF S
  <2> QED  BY <1>18, ParticleInduction
<1> QED  BY <1>1, <1>17, <1>19

LEMMA ExpandedFacts ==
    ASSUME NEW p \in Particles \cup {NoParticle}
    PROVE  Expanded(p) \in Particles
  BY EmptyModel, UnfoldedFacts DEF Expanded

-----------------------------------------------------------------------------
(* Which children open content takes.  PlaceOf(S, i) counts the children   *)
(* up to the i-th that it does not take.                                   *)
PlaceOf(S, i) == Cardinality({j \in 1..i : j \notin S})

LEMMA PlaceFacts ==
    ASSUME NEW S, NEW i \in Nat
    PROVE  /\ PlaceOf(S, 0) = 0 /\ PlaceOf(S, i) \in Nat
           /\ PlaceOf(S, i + 1) = PlaceOf(S, i) + (IF i + 1 \in S THEN 0 ELSE 1)
<1> DEFINE T(n) == {j \in 1..n : j \notin S}
<1>1. \A n \in Nat : IsFiniteSet(T(n)) /\ Cardinality(T(n)) \in Nat
  <2> SUFFICES ASSUME NEW n \in Nat PROVE IsFiniteSet(T(n)) /\ Cardinality(T(n)) \in Nat
    OBVIOUS
  <2>1. IsFiniteSet(1..n)
    BY FS_Interval
  <2>2. IsFiniteSet(T(n))
    BY <2>1, FS_Subset
  <2> QED  BY <2>2, FS_CardinalityType
<1>2. T(0) = {}
  OBVIOUS
<1>3. \A n : PlaceOf(S, n) = Cardinality(T(n))
  BY DEF PlaceOf
<1>4. i + 1 \in S => T(i + 1) = T(i)
  OBVIOUS
<1>5. i + 1 \notin S => T(i + 1) = T(i) \cup {i + 1} /\ i + 1 \notin T(i)
  OBVIOUS
<1> HIDE DEF T
<1>6. PlaceOf(S, 0) = 0 /\ PlaceOf(S, i) \in Nat
  BY <1>1, <1>2, <1>3, FS_EmptySet
<1>7. CASE i + 1 \in S
  BY <1>3, <1>4, <1>6, <1>7
<1>8. CASE i + 1 \notin S
  <2>1. IsFiniteSet(T(i))
    BY <1>1
  <2>2. Cardinality(T(i + 1)) = Cardinality(T(i)) + 1
    BY <1>5, <1>8, <2>1, FS_AddElement
  <2> QED  BY <1>3, <1>6, <1>8, <2>2
<1> QED  BY <1>7, <1>8

LEMMA PlaceGrows ==
    ASSUME NEW S, NEW i \in Nat, NEW j \in Nat, i <= j
    PROVE  PlaceOf(S, i) <= PlaceOf(S, j) /\ (i < j /\ j \notin S => PlaceOf(S, i) < PlaceOf(S, j))
<1> DEFINE P(n) == PlaceOf(S, n)
           D == {d \in Nat : P(i) <= P(i + d)}
<1>1. \A n \in Nat : P(n) \in Nat /\ P(n + 1) = P(n) + (IF n + 1 \in S THEN 0 ELSE 1)
  BY PlaceFacts
<1> HIDE DEF P
<1>2. 0 \in D
  BY <1>1
<1>3. ASSUME NEW d \in Nat, d \in D PROVE d + 1 \in D
  <2>1. i + (d + 1) = (i + d) + 1 /\ i + d \in Nat
    OBVIOUS
  <2>2. P((i + d) + 1) >= P(i + d) /\ P(i + d) \in Nat /\ P((i + d) + 1) \in Nat /\ P(i) \in Nat
    BY <1>1, <2>1
  <2> QED  BY <1>3, <2>1, <2>2
<1>4. Nat \subseteq D
  <2> HIDE DEF D
  <2> QED  BY <1>2, <1>3, InductionOnNat
<1>5. \A d \in Nat : P(i) <= P(i + d)
  BY <1>4
<1>6. P(i) <= P(j)
  <2>1. j - i \in Nat /\ i + (j - i) = j
    OBVIOUS
  <2> QED  BY <1>5, <2>1
<1>7. i < j /\ j \notin S => P(i) < P(j)
  <2> SUFFICES ASSUME i < j, j \notin S PROVE P(i) < P(j)
    OBVIOUS
  <2> DEFINE k == j - 1
  <2>1. k \in Nat /\ k + 1 = j /\ k - i \in Nat /\ i + (k - i) = k
    OBVIOUS
  <2> HIDE DEF k
  <2>2. P(i) <= P(k)
    BY <1>5, <2>1
  <2>3. P(j) = P(k) + 1 /\ P(k) \in Nat /\ P(i) \in Nat
    BY <1>1, <2>1
  <2> QED  BY <2>2, <2>3
<1> QED  BY <1>6, <1>7 DEF P

(* Every place up to the last is taken, by one child.                      *)
LEMMA PlaceTaken ==
    ASSUME NEW S, NEW n \in Nat, NEW k \in 1..PlaceOf(S, n)
    PROVE  \E i \in 1..n : i \notin S /\ PlaceOf(S, i) = k
<1> DEFINE P(i) == PlaceOf(S, i)
           D == {i \in Nat : \A l \in 1..P(i) : \E j \in 1..i : j \notin S /\ P(j) = l}
<1>1. \A i \in Nat : P(i) \in Nat /\ P(i + 1) = P(i) + (IF i + 1 \in S THEN 0 ELSE 1)
  BY PlaceFacts
<1>2. P(0) = 0
  BY PlaceFacts
<1> HIDE DEF P
<1>3. 0 \in D
  BY <1>2
<1>4. ASSUME NEW i \in Nat, i \in D PROVE i + 1 \in D
  <2> SUFFICES ASSUME NEW l \in 1..P(i + 1) PROVE \E j \in 1..(i + 1) : j \notin S /\ P(j) = l
    OBVIOUS
  <2>0. P(i) \in Nat /\ P(i + 1) = P(i) + (IF i + 1 \in S THEN 0 ELSE 1)
    BY <1>1
  <2>1. CASE l \in 1..P(i)
    <3>1. PICK j \in 1..i : j \notin S /\ P(j) = l
      BY <1>4, <2>1
    <3>2. j \in 1..(i + 1)
      OBVIOUS
    <3> QED  BY <3>1, <3>2
  <2>2. CASE l \notin 1..P(i)
    <3>1. i + 1 \notin S /\ l = P(i + 1)
      BY <2>0, <2>2
    <3>2. i + 1 \in 1..(i + 1)
      OBVIOUS
    <3> QED  BY <3>1, <3>2
  <2> QED  BY <2>1, <2>2
<1>5. Nat \subseteq D
  <2> HIDE DEF D
  <2> QED  BY <1>3, <1>4, InductionOnNat
<1> QED  BY <1>5 DEF P

LEMMA PlaceIsOne ==
    ASSUME NEW S, NEW i \in Nat, i \notin S, NEW j \in Nat, j \notin S, PlaceOf(S, i) = PlaceOf(S, j)
    PROVE  i = j
<1>1. PlaceOf(S, i) \in Nat
  BY PlaceFacts
<1>2. CASE i < j
  <2>1. PlaceOf(S, i) < PlaceOf(S, j)
    BY <1>2, PlaceGrows
  <2> QED  BY <1>1, <2>1
<1>3. CASE j < i
  <2>1. PlaceOf(S, j) < PlaceOf(S, i)
    BY <1>3, PlaceGrows
  <2> QED  BY <1>1, <2>1
<1> QED  BY <1>2, <1>3

(* If the children that open content leaves are those an increasing        *)
(* function numbers, its numbers are their places.                         *)
Numbers(S, N, n, f) ==
    /\ f \in [1..n -> 1..N]
    /\ \A i, j \in 1..n : i < j => f[i] < f[j]
    /\ \A j \in 1..N : j \notin S <=> \E i \in 1..n : f[i] = j

Places(S, N, n, f) == PlaceOf(S, N) = n /\ \A i \in 1..n : f[i] \notin S /\ PlaceOf(S, f[i]) = i

LEMMA PlacesNumbered ==
    ASSUME NEW S, NEW N \in Nat, NEW n \in Nat, NEW f, Numbers(S, N, n, f)
    PROVE  Places(S, N, n, f)
<1>0. /\ f \in [1..n -> 1..N]
      /\ \A i, j \in 1..n : i < j => f[i] < f[j]
      /\ \A j \in 1..N : j \notin S <=> \E i \in 1..n : f[i] = j
  BY DEF Numbers
<1>1. ASSUME NEW l \in 0..N, NEW k \in 0..n, \A i \in 1..n : f[i] <= l <=> i <= k
      PROVE  PlaceOf(S, l) = k
  <2> DEFINE T == {j \in 1..l : j \notin S}
             F == [i \in 1..k |-> f[i]]
  <2>1. F \in [1..k -> T]
    <3> SUFFICES ASSUME NEW i \in 1..k PROVE f[i] \in T
      OBVIOUS
    <3>1. i \in 1..n
      OBVIOUS
    <3>2. f[i] <= l /\ f[i] \in 1..N /\ f[i] \notin S
      BY <1>0, <1>1, <3>1
    <3> QED  BY <3>2
  <2>2. \A a, b \in 1..k : F[a] = F[b] => a = b
    <3> SUFFICES ASSUME NEW a \in 1..k, NEW b \in 1..k, f[a] = f[b] PROVE a = b
      OBVIOUS
    <3>1. a \in 1..n /\ b \in 1..n
      OBVIOUS
    <3>2. f[a] \in 1..N /\ f[b] \in 1..N
      BY <1>0, <3>1
    <3>3. ~(f[a] < f[b]) /\ ~(f[b] < f[a])
      BY <3>2
    <3>4. ~(a < b) /\ ~(b < a)
      BY <1>0, <3>1, <3>3
    <3> QED  BY <3>4
  <2>3. \A t \in T : \E i \in 1..k : F[i] = t
    <3> SUFFICES ASSUME NEW t \in T PROVE \E i \in 1..k : F[i] = t
      OBVIOUS
    <3>1. t \in 1..N /\ t \notin S /\ t <= l
      OBVIOUS
    <3>2. PICK i \in 1..n : f[i] = t
      BY <1>0, <3>1
    <3>3. i <= k
      BY <1>1, <3>1, <3>2
    <3>4. i \in 1..k
      BY <3>3
    <3> QED  BY <3>2, <3>4
  <2>4. F \in Bijection(1..k, T)
    <3> HIDE DEF F, T
    <3> QED  BY <2>1, <2>2, <2>3 DEF Bijection, Injection, Surjection, IsInjective
  <2>5. ExistsBijection(1..k, T)
    BY <2>4 DEF ExistsBijection
  <2> HIDE DEF T
  <2>6. Cardinality(T) = k
    BY <2>5, FS_CountingElements
  <2> QED  BY <2>6 DEF PlaceOf, T
<1>2. PlaceOf(S, N) = n
  <2>1. \A i \in 1..n : f[i] <= N <=> i <= n
    BY <1>0
  <2> QED  BY <1>1, <2>1
<1>3. ASSUME NEW i \in 1..n PROVE f[i] \notin S /\ PlaceOf(S, f[i]) = i
  <2>1. f[i] \in 0..N /\ i \in 0..n /\ f[i] \in 1..N
    BY <1>0
  <2>2. \A j \in 1..n : f[j] <= f[i] <=> j <= i
    <3> SUFFICES ASSUME NEW j \in 1..n PROVE f[j] <= f[i] <=> j <= i
      OBVIOUS
    <3>1. f[j] \in 1..N /\ (j < i => f[j] < f[i]) /\ (i < j => f[i] < f[j])
      BY <1>0
    <3>2. CASE j = i
      BY <2>1, <3>2
    <3>3. CASE j < i
      BY <2>1, <3>1, <3>3
    <3>4. CASE i < j
      BY <2>1, <3>1, <3>4
    <3> QED  BY <3>2, <3>3, <3>4
  <2>3. f[i] \notin S
    BY <1>0, <2>1
  <2>4. PlaceOf(S, f[i]) = i
    BY <1>1, <2>1, <2>2
  <2> QED  BY <2>3, <2>4
<1> QED  BY <1>2, <1>3 DEF Places

OpenSets(m) ==
    {S \in SUBSET {i \in DOMAIN m.children : m.open.mode # "none" /\ WildcardOK(m, m.open.wildcard, m.children[i])} :
       m.open.mode = "suffix" => \A i \in S : (i + 1)..Len(m.children) \subseteq S}
LeftBy(m, S) ==
    [k \in 1..PlaceOf(S, Len(m.children)) |->
       m.children[CHOOSE i \in (DOMAIN m.children) \ S : PlaceOf(S, i) = k]]
Filled(m, S, run) == [i \in DOMAIN m.children |-> IF i \in S THEN ByOpen(m.open.wildcard) ELSE run[PlaceOf(S, i)]]

LEMMA ModelRunsUnfold ==
    ASSUME NEW m
    PROVE  ModelRuns(m) = UNION {{Filled(m, S, run) : run \in Runs(m)[LeftBy(m, S)]} : S \in OpenSets(m)}
  BY DEF ModelRuns, OpenSets, LeftBy, Filled, PlaceOf

LEMMA ChildrenFacts ==
    ASSUME NEW m, IsMatcher(m)
    PROVE  Len(m.children) \in Nat /\ DOMAIN m.children = 1..Len(m.children)
           /\ \A i \in 1..Len(m.children) : m.children[i] \in Name
  BY DEF IsMatcher

LEMMA OpenSetFacts ==
    ASSUME NEW m, IsMatcher(m), NEW S \in OpenSets(m)
    PROVE  /\ S \subseteq 1..Len(m.children)
           /\ \A i \in S : m.open.mode # "none" /\ WildcardOK(m, m.open.wildcard, m.children[i])
           /\ m.open.mode = "suffix" => \A i \in S : (i + 1)..Len(m.children) \subseteq S
  BY ChildrenFacts DEF OpenSets

Numbering(m, S) ==
    [k \in 1..PlaceOf(S, Len(m.children)) |-> CHOOSE i \in (DOMAIN m.children) \ S : PlaceOf(S, i) = k]

LEMMA NumberingFacts ==
    ASSUME NEW m, IsMatcher(m), NEW S
    PROVE  LET N == Len(m.children)
               n == PlaceOf(S, N)
               e == Numbering(m, S)
           IN  /\ n \in Nat /\ e \in [1..n -> 1..N]
               /\ \A k \in 1..n : e[k] \notin S /\ PlaceOf(S, e[k]) = k
               /\ \A i, j \in 1..n : i < j => e[i] < e[j]
               /\ \A j \in 1..N : j \notin S => PlaceOf(S, j) \in 1..n /\ e[PlaceOf(S, j)] = j
               /\ LeftBy(m, S) \in Seq(Name) /\ Len(LeftBy(m, S)) = n
               /\ \A k \in 1..n : LeftBy(m, S)[k] = m.children[e[k]]
<1> DEFINE N == Len(m.children)
           P(i) == PlaceOf(S, i)
           n == P(N)
           e == Numbering(m, S)
           w == LeftBy(m, S)
<1>1. N \in Nat /\ DOMAIN m.children = 1..N /\ \A i \in 1..N : m.children[i] \in Name
  BY ChildrenFacts
<1> HIDE DEF N
<1>2. n \in Nat
  BY <1>1, PlaceFacts
<1>3. e = [k \in 1..n |-> CHOOSE i \in (1..N) \ S : P(i) = k]
  BY <1>1 DEF Numbering, N
<1>4. w = [k \in 1..n |-> m.children[CHOOSE i \in (1..N) \ S : P(i) = k]]
  BY <1>1 DEF LeftBy, N
<1>5. \A k \in 1..n : \E i \in 1..N : i \notin S /\ P(i) = k
  BY <1>1, PlaceTaken
<1> HIDE DEF e, w, n, P
<1>6. ASSUME NEW k \in 1..n PROVE e[k] \in 1..N /\ e[k] \notin S /\ P(e[k]) = k /\ w[k] = m.children[e[k]]
  <2>1. e[k] = (CHOOSE i \in (1..N) \ S : P(i) = k) /\ w[k] = m.children[e[k]]
    BY <1>3, <1>4
  <2>2. \E i \in (1..N) \ S : P(i) = k
    BY <1>5
  <2> QED  BY <2>1, <2>2
<1>7. e \in [1..n -> 1..N]
  <2>1. e = [k \in 1..n |-> e[k]]
    BY <1>3
  <2> QED  BY <1>6, <2>1
<1>8. ASSUME NEW i \in 1..n, NEW j \in 1..n, i < j PROVE e[i] < e[j]
  <2>1. e[i] \in Nat /\ e[j] \in Nat /\ P(e[i]) = i /\ P(e[j]) = j
    BY <1>1, <1>6
  <2>2. e[j] <= e[i] => P(e[j]) <= P(e[i])
    BY <2>1, PlaceGrows DEF P
  <2> QED  BY <1>2, <1>8, <2>1, <2>2
<1>9. ASSUME NEW j \in 1..N, j \notin S PROVE P(j) \in 1..n /\ e[P(j)] = j
  <2>1. P(0) = 0 /\ P(j) \in Nat /\ 0 \in Nat /\ j \in Nat
    BY <1>1, PlaceFacts DEF P
  <2>2. P(0) < P(j)
    BY <1>1, <1>9, <2>1, PlaceGrows DEF P
  <2>3. P(j) <= n
    BY <1>1, <2>1, PlaceGrows DEF P, n
  <2>4. P(j) \in 1..n
    BY <1>2, <2>1, <2>2, <2>3
  <2> DEFINE i == e[P(j)]
  <2>5. i \in 1..N /\ i \notin S /\ P(i) = P(j)
    BY <1>6, <2>4
  <2> HIDE DEF i
  <2>6. i \in Nat
    BY <1>1, <2>5
  <2>7. i = j
    BY <1>9, <2>1, <2>5, <2>6, PlaceIsOne DEF P
  <2> QED  BY <2>4, <2>7 DEF i
<1>10. w \in Seq(Name) /\ Len(w) = n
  <2>1. w = [k \in 1..n |-> w[k]]
    BY <1>4
  <2>2. \A k \in 1..n : w[k] \in Name
    BY <1>1, <1>6
  <2> QED  BY <1>2, <2>1, <2>2, SeqOfValues
<1> QED  BY <1>2, <1>6, <1>7, <1>8, <1>9, <1>10 DEF N, P, n, e, w

(* What the matcher returns when it accepts an outcome.                    *)
Filler(m, o) == [i \in 1..(Len(m.children) - Len(o)) |-> ByOpen(m.open.wildcard)]

LEMMA FoundIsRun ==
    ASSUME NEW m, IsMatcher(m), NEW o \in Seq(Attributed(m)), NEW w \in Seq(Name),
           NEW r \in Runs(m)[w], r \in Seq(Taken), Weaves(m, 0, o, w, r), Finishes(m, Len(o))
    PROVE  o \o Filler(m, o) \in ModelRuns(m)
<1> DEFINE N == Len(m.children)
           L == Len(o)
           n == Len(r)
<1>1. N \in Nat /\ DOMAIN m.children = 1..N /\ \A i \in 1..N : m.children[i] \in Name
  BY ChildrenFacts
<1>2. L \in Nat /\ n \in Nat /\ Len(w) = n /\ 0 + L <= N
  BY DEF Weaves
<1>3. PICK f : WeavesBy(m, 0, o, w, r, f)
  BY DEF Weaves
<1> DEFINE S == {j \in 1..N : ~\E i \in 1..n : f[i] = j}
<1>4. /\ f \in [1..n -> 1..L]
      /\ \A i, j \in 1..n : i < j => f[i] < f[j]
      /\ \A i \in 1..n : o[f[i]] = r[i] /\ w[i] = m.children[0 + f[i]]
      /\ \A k \in 1..L : \/ \E i \in 1..n : f[i] = k
                         \/ o[k] = OpenTaken(m) /\ Interleaves(m, m.children[0 + k])
  BY <1>3 DEF WeavesBy
<1>5. f \in [1..n -> 1..N]
  BY <1>1, <1>2, <1>4
<1> HIDE DEF N, L, n
<1>6. ASSUME NEW i \in S PROVE m.open.mode # "none" /\ WildcardOK(m, m.open.wildcard, m.children[i])
  <2>1. i \in 1..N /\ ~\E x \in 1..n : f[x] = i
    OBVIOUS
  <2>2. CASE i <= L
    <3>1. i \in 1..L /\ 0 + i = i
      BY <1>1, <1>2, <2>1, <2>2
    <3>2. Interleaves(m, m.children[i])
      BY <1>4, <2>1, <3>1
    <3> QED  BY <3>2 DEF Interleaves
  <2>3. CASE ~(i <= L)
    <3>1. i \in (L + 1)..N /\ L # N
      BY <1>1, <1>2, <2>1, <2>3
    <3> QED  BY <3>1 DEF Finishes, L, N
  <2> QED  BY <2>2, <2>3
<1>7. S \in OpenSets(m)
  <2>1. m.open.mode = "suffix" => \A i \in S : (i + 1)..N \subseteq S
    <3> SUFFICES ASSUME m.open.mode = "suffix", NEW i \in S, NEW j \in (i + 1)..N PROVE j \in S
      OBVIOUS
    <3>1. \A k \in 1..L : \E x \in 1..n : f[x] = k
      BY <1>4 DEF Interleaves
    <3>2. i \in 1..N /\ i \notin 1..L
      BY <3>1
    <3>3. j \in 1..N /\ j > L
      BY <1>1, <1>2, <3>2
    <3>4. \A x \in 1..n : f[x] \in 1..L
      BY <1>4
    <3>5. \A x \in 1..n : f[x] # j
      BY <1>2, <3>3, <3>4
    <3> QED  BY <3>3, <3>5
  <2>2. S \subseteq 1..N
    OBVIOUS
  <2> HIDE DEF S
  <2> QED  BY <1>1, <1>6, <2>1, <2>2 DEF OpenSets, N
<1>8. PlaceOf(S, N) = n /\ \A i \in 1..n : f[i] \notin S /\ PlaceOf(S, f[i]) = i
  <2>1. \A j \in 1..N : j \notin S <=> \E i \in 1..n : f[i] = j
    OBVIOUS
  <2> HIDE DEF S
  <2>2. Numbers(S, N, n, f)
    BY <1>4, <1>5, <2>1 DEF Numbers
  <2>3. Places(S, N, n, f)
    BY <1>1, <1>2, <2>2, PlacesNumbered
  <2> QED  BY <2>3 DEF Places
<1>9. \A j \in 1..N : j \notin S => \E i \in 1..n : f[i] = j
  OBVIOUS
<1> HIDE DEF S
<1>10. LeftBy(m, S) = w
  <2> DEFINE e == Numbering(m, S)
             v == LeftBy(m, S)
  <2>1. e \in [1..n -> 1..N] /\ (\A k \in 1..n : e[k] \notin S /\ PlaceOf(S, e[k]) = k)
    BY <1>8, NumberingFacts DEF N
  <2>2. v \in Seq(Name) /\ Len(v) = n /\ \A k \in 1..n : v[k] = m.children[e[k]]
    BY <1>8, NumberingFacts DEF N
  <2> HIDE DEF e, v
  <2>3. ASSUME NEW k \in 1..n PROVE v[k] = w[k]
    <3> DEFINE i == e[k]
               j == f[k]
    <3>1. i \in 1..N /\ j \in 1..N /\ i \notin S /\ j \notin S /\ PlaceOf(S, i) = k /\ PlaceOf(S, j) = k
      BY <1>5, <1>8, <2>1
    <3> HIDE DEF i, j
    <3>2. i \in Nat /\ j \in Nat
      BY <1>1, <3>1
    <3>3. i = j
      BY <3>1, <3>2, PlaceIsOne
    <3>4. w[k] = m.children[j]
      <4>1. w[k] = m.children[0 + f[k]] /\ f[k] \in 1..L
        BY <1>4
      <4>2. 0 + f[k] = f[k]
        BY <1>2, <4>1
      <4> QED  BY <4>1, <4>2 DEF j
    <3> QED  BY <2>2, <3>3, <3>4 DEF i
  <2>4. v = w
    BY <1>2, <2>2, <2>3, SameSeq
  <2> QED  BY <2>4 DEF v
<1>11. o \o Filler(m, o) = Filled(m, S, r)
  <2> DEFINE g == Filler(m, o)
             t == o \o g
             u == Filled(m, S, r)
  <2>1. g \in Seq({OpenTaken(m)}) /\ Len(g) = N - L /\ \A i \in 1..(N - L) : g[i] = OpenTaken(m)
    <3>1. g = [i \in 1..(N - L) |-> g[i]] /\ \A i \in 1..(N - L) : g[i] = OpenTaken(m)
      BY DEF Filler, OpenTaken, N, L
    <3>2. N - L \in Nat
      BY <1>1, <1>2
    <3> HIDE DEF g
    <3>3. \A i \in 1..(N - L) : g[i] \in {OpenTaken(m)}
      BY <3>1
    <3> QED  BY <3>1, <3>2, <3>3, SeqOfValues
  <2>2. g \in Seq(Attributed(m))
    <3> HIDE DEF g
    <3> QED  BY <2>1 DEF Attributed
  <2> HIDE DEF g
  <2>3. t \in Seq(Attributed(m)) /\ Len(t) = N /\ (\A i \in 1..L : t[i] = o[i])
        /\ \A i \in 1..(N - L) : t[L + i] = g[i]
    <3>1. t \in Seq(Attributed(m)) /\ Len(t) = Len(o) + Len(g) /\ (\A i \in 1..Len(o) : t[i] = o[i])
          /\ \A i \in 1..Len(g) : t[Len(o) + i] = g[i]
      BY <2>2, ConcatFacts
    <3> QED  BY <1>1, <1>2, <2>1, <3>1 DEF L
  <2> HIDE DEF t
  <2>4. u = [i \in 1..N |-> u[i]]
    BY <1>1 DEF Filled
  <2>5. ASSUME NEW i \in 1..N PROVE u[i] = t[i]
    <3>1. u[i] = IF i \in S THEN OpenTaken(m) ELSE r[PlaceOf(S, i)]
      BY <1>1 DEF Filled, OpenTaken
    <3> HIDE DEF u
    <3>2. CASE i \notin S
      <4>1. PICK k \in 1..n : f[k] = i
        BY <1>9, <3>2
      <4>2. PlaceOf(S, i) = k /\ o[i] = r[k] /\ i \in 1..L
        BY <1>4, <1>8, <4>1
      <4> QED  BY <2>3, <3>1, <3>2, <4>2
    <3>3. CASE i \in S /\ i <= L
      <4>1. ~\E k \in 1..n : f[k] = i
        BY <1>8, <3>3
      <4>2. i \in 1..L
        BY <1>2, <3>3
      <4>3. o[i] = OpenTaken(m)
        BY <1>4, <4>1, <4>2
      <4> QED  BY <2>3, <3>1, <3>3, <4>2, <4>3
    <3>4. CASE i \in S /\ ~(i <= L)
      <4>1. i - L \in 1..(N - L) /\ L + (i - L) = i
        BY <1>1, <1>2, <3>4
      <4>2. t[i] = g[i - L]
        BY <2>3, <4>1
      <4> QED  BY <2>1, <3>1, <3>4, <4>1, <4>2
    <3> QED  BY <3>2, <3>3, <3>4
  <2>6. t = [i \in 1..N |-> t[i]]
    BY <2>3, SeqAsFunction
  <2> HIDE DEF u
  <2>7. t = u
    BY <2>4, <2>5, <2>6
  <2> QED  BY <2>7 DEF t, u, g
<1> QED  BY <1>7, <1>10, <1>11, ModelRunsUnfold

(* A run of the model, open content included, is one the search meets.     *)
OpenModes == {"none", "suffix", "interleave"}

Reaches(m, w, r, o) == o \in Seq(Attributed(m)) /\ Tight(o) /\ Weaves(m, 0, o, w, r) /\ Finishes(m, Len(o))

LEMMA RunIsMet ==
    ASSUME NEW m, IsMatcher(m), m.open.mode \in OpenModes, NEW S \in OpenSets(m),
           NEW r \in Seq(Taken), Len(r) = Len(LeftBy(m, S))
    PROVE  \E o : Reaches(m, LeftBy(m, S), r, o)
<1> DEFINE N == Len(m.children)
           P(i) == PlaceOf(S, i)
           n == P(N)
           e == Numbering(m, S)
           w == LeftBy(m, S)
           L == IF n = 0 THEN 0 ELSE e[n]
           o == [i \in 1..L |-> IF i \in S THEN OpenTaken(m) ELSE r[P(i)]]
<1>1. N \in Nat
  BY ChildrenFacts
<1>2. /\ n \in Nat /\ e \in [1..n -> 1..N]
      /\ \A k \in 1..n : e[k] \notin S /\ P(e[k]) = k
      /\ \A i, j \in 1..n : i < j => e[i] < e[j]
      /\ \A j \in 1..N : j \notin S => P(j) \in 1..n /\ e[P(j)] = j
      /\ w \in Seq(Name) /\ Len(w) = n
      /\ \A k \in 1..n : w[k] = m.children[e[k]]
  BY NumberingFacts
<1>3. /\ S \subseteq 1..N
      /\ \A i \in S : m.open.mode # "none" /\ WildcardOK(m, m.open.wildcard, m.children[i])
      /\ m.open.mode = "suffix" => \A i \in S : (i + 1)..N \subseteq S
  BY OpenSetFacts
<1>4. Len(r) = n
  BY <1>2
<1> HIDE DEF N, P, n, e, w
<1>5. L \in Nat /\ L <= N /\ (n # 0 => L = e[n] /\ n \in 1..n /\ L \in 1..N /\ L \notin S /\ P(L) = n) /\ (n = 0 => L = 0)
  <2>1. CASE n = 0
    BY <1>1, <2>1
  <2>2. CASE n # 0
    <3>1. n \in 1..n
      BY <1>2, <2>2
    <3>2. e[n] \in 1..N /\ e[n] \notin S /\ P(e[n]) = n
      BY <1>2, <3>1
    <3> QED  BY <1>1, <2>2, <3>1, <3>2
  <2> QED  BY <2>1, <2>2
<1> HIDE DEF L
<1>6. \A k \in 1..n : e[k] \in 1..L
  <2> SUFFICES ASSUME NEW k \in 1..n PROVE e[k] \in 1..L
    OBVIOUS
  <2>1. n # 0 /\ (k = n \/ k < n) /\ e[k] \in 1..N
    BY <1>2
  <2>2. CASE k = n
    BY <1>1, <1>5, <2>1, <2>2
  <2>3. CASE k < n
    <3>1. e[k] < e[n]
      BY <1>2, <1>5, <2>1, <2>3
    <3> QED  BY <1>1, <1>5, <2>1, <3>1
  <2> QED  BY <2>1, <2>2, <2>3
<1>7. \A i \in 1..N : i \notin S => P(i) \in 1..n /\ e[P(i)] = i /\ i \in 1..L
  BY <1>2, <1>6
<1>8. \A i \in 1..L : i \in 1..N
  BY <1>1, <1>5
<1>9. o \in Seq(Attributed(m)) /\ Len(o) = L
  <2>1. ASSUME NEW i \in 1..L PROVE o[i] \in Attributed(m)
    <3>1. CASE i \in S
      BY <3>1 DEF Attributed
    <3>2. CASE i \notin S
      <4>1. P(i) \in 1..n
        BY <1>7, <1>8, <3>2
      <4>2. r[P(i)] \in Taken
        BY <1>4, <4>1
      <4> QED  BY <3>2, <4>2 DEF Attributed
    <3> QED  BY <3>1, <3>2
  <2>2. o = [i \in 1..L |-> o[i]]
    OBVIOUS
  <2> HIDE DEF o
  <2> QED  BY <1>5, <2>1, <2>2, SeqOfValues
<1>10. \A i \in 1..L : o[i] = IF i \in S THEN OpenTaken(m) ELSE r[P(i)]
  OBVIOUS
<1> HIDE DEF o
<1>11. Tight(o)
  <2>1. CASE n = 0
    <3>1. Len(o) = 0
      BY <1>5, <1>9, <2>1
    <3>2. o = << >>
      BY <1>9, <3>1, EmptyIsZero
    <3> QED  BY <3>2 DEF Tight
  <2>2. CASE n # 0
    <3>1. L \in 1..L /\ o[L] = r[n]
      BY <1>5, <1>10, <2>2
    <3>2. r[n] \in Taken
      BY <1>2, <1>4, <1>5, <2>2
    <3> QED  BY <1>9, <3>1, <3>2 DEF Tight
  <2> QED  BY <2>1, <2>2
<1>12. ASSUME NEW k \in 1..L, k \in S PROVE o[k] = OpenTaken(m) /\ Interleaves(m, m.children[0 + k])
  <2>1. m.open.mode # "none" /\ WildcardOK(m, m.open.wildcard, m.children[k])
    BY <1>3, <1>12
  <2>2. m.open.mode # "suffix"
    <3> SUFFICES ASSUME m.open.mode = "suffix" PROVE FALSE
      OBVIOUS
    <3>1. n # 0
      BY <1>5
    <3>2. k # L
      BY <1>5, <1>12, <3>1
    <3>3. L \in (k + 1)..N
      BY <1>1, <1>5, <3>2
    <3> QED  BY <1>3, <1>5, <1>12, <3>1, <3>3
  <2>3. m.open.mode = "interleave"
    BY <2>1, <2>2 DEF OpenModes
  <2>4. 0 + k = k
    BY <1>5
  <2> QED  BY <1>10, <1>12, <2>1, <2>3, <2>4 DEF Interleaves
<1>13. Weaves(m, 0, o, w, r)
  <2>1. e \in [1..Len(r) -> 1..Len(o)]
    BY <1>2, <1>4, <1>6, <1>9
  <2>2. \A i, j \in 1..Len(r) : i < j => e[i] < e[j]
    BY <1>2, <1>4
  <2>3. \A i \in 1..Len(r) : o[e[i]] = r[i] /\ w[i] = m.children[0 + e[i]]
    <3> SUFFICES ASSUME NEW i \in 1..Len(r) PROVE o[e[i]] = r[i] /\ w[i] = m.children[0 + e[i]]
      OBVIOUS
    <3>1. i \in 1..n /\ e[i] \in 1..L
      BY <1>4, <1>6
    <3>2. e[i] \notin S /\ P(e[i]) = i /\ w[i] = m.children[e[i]]
      BY <1>2, <3>1
    <3>3. 0 + e[i] = e[i]
      BY <1>5, <3>1
    <3> QED  BY <1>10, <3>1, <3>2, <3>3
  <2>4. \A k \in 1..Len(o) : \/ \E i \in 1..Len(r) : e[i] = k
                             \/ o[k] = OpenTaken(m) /\ Interleaves(m, m.children[0 + k])
    <3> SUFFICES ASSUME NEW k \in 1..L, k \notin S PROVE \E i \in 1..n : e[i] = k
      BY <1>4, <1>9, <1>12
    <3> QED  BY <1>7, <1>8
  <2>5. WeavesBy(m, 0, o, w, r, e)
    BY <2>1, <2>2, <2>3, <2>4 DEF WeavesBy
  <2>6. Len(w) = Len(r) /\ 0 + Len(o) <= Len(m.children)
    BY <1>1, <1>2, <1>4, <1>5, <1>9 DEF N
  <2> QED  BY <2>5, <2>6 DEF Weaves
<1>14. Finishes(m, Len(o))
  <2>1. \A i \in 1..N : i > L => i \in S
    BY <1>5, <1>7
  <2>2. CASE m.open.mode = "none"
    <3>1. \A i \in 1..N : i \notin S
      BY <1>3, <2>2
    <3>2. N = L
      <4> SUFFICES ASSUME N # L PROVE FALSE
        OBVIOUS
      <4>1. N \in 1..N /\ N > L
        BY <1>1, <1>5
      <4> QED  BY <2>1, <3>1, <4>1
    <3> QED  BY <1>9, <2>2, <3>2 DEF Finishes, N
  <2>3. CASE m.open.mode # "none"
    <3>1. \A i \in (L + 1)..N : WildcardOK(m, m.open.wildcard, m.children[i])
      <4> SUFFICES ASSUME NEW i \in (L + 1)..N PROVE WildcardOK(m, m.open.wildcard, m.children[i])
        OBVIOUS
      <4>1. i \in 1..N /\ i > L
        BY <1>1, <1>5
      <4> QED  BY <1>3, <2>1, <4>1
    <3> QED  BY <1>9, <2>3, <3>1 DEF Finishes, N
  <2> QED  BY <2>2, <2>3
<1>15. Reaches(m, w, r, o)
  BY <1>9, <1>11, <1>13, <1>14 DEF Reaches
<1> QED  BY <1>15 DEF w

-----------------------------------------------------------------------------
(* The matcher finds a run when there is one, and what it returns is one.  *)

-----------------------------------------------------------------------------
(* The matcher accepts exactly the words of the language of the content    *)
(* model, and what it returns is a run of it.                              *)
MatchedExactly(m) ==
    /\ Match(m).ok \in BOOLEAN
    /\ Match(m).ok => Match(m).terms \in ModelRuns(m)
    /\ ~Match(m).ok => ModelRuns(m) = {}

AcceptedOf(m) == {i \in DOMAIN Outcomes(m) : Finishes(m, Len(Outcomes(m)[i]))}

LEMMA MatchUnfold ==
    ASSUME NEW m
    PROVE  /\ AcceptedOf(m) = {} => Match(m) = [ok |-> FALSE, terms |-> << >>]
           /\ AcceptedOf(m) # {} =>
                Match(m) = [ok |-> TRUE, terms |-> Outcomes(m)[Min(AcceptedOf(m))] \o Filler(m, Outcomes(m)[Min(AcceptedOf(m))])]
  BY DEF Match, Found, AcceptedOf, Filler

LEMMA MatchAccepts ==
    ASSUME NEW m, IsMatcher(m), AcceptedOf(m) # {}
    PROVE  Match(m).ok = TRUE /\ Match(m).terms \in ModelRuns(m)
<1> DEFINE outcomes == Outcomes(m)
           A == AcceptedOf(m)
           o == outcomes[Min(A)]
           h == RunsFrom(m)[m.particle]
<1>1. 0 \in Positions(m) /\ m.particle \in Particles
  BY DEF Positions, IsMatcher
<1>2. Agree(m, SearchFrom(m)[m.particle], h) /\ outcomes = SearchFrom(m)[m.particle][0]
  BY <1>1, ParticlesAgree, OutcomesUnfold
<1>3. /\ outcomes \in Seq(Seq(Attributed(m))) /\ Sound(m, 0, outcomes, h) /\ h \in Language
  BY <1>1, <1>2, AgreeFacts DEF AgreeAt
<1>4. A \subseteq DOMAIN outcomes /\ \A i \in A : Finishes(m, Len(outcomes[i]))
  BY DEF AcceptedOf
<1> HIDE DEF outcomes, A, h
<1>5. A # {} /\ A \in SUBSET Nat
  BY <1>3, <1>4 DEF A
<1>6. \E x \in A : \A y \in A : x <= y
  BY <1>5, LeastNumber
<1>7. Min(A) \in A
  BY <1>6 DEF Min
<1>8. o \in Seq(Attributed(m)) /\ o \in ToSet(outcomes) /\ Finishes(m, Len(o))
  BY <1>3, <1>4, <1>7 DEF ToSet
<1> HIDE DEF o
<1>9. PICK w \in Seq(Name) : \E r \in h[w] : Weaves(m, 0, o, w, r)
  BY <1>3, <1>8 DEF Sound
<1>10. PICK r \in h[w] : Weaves(m, 0, o, w, r)
  BY <1>9
<1>11. r \in Seq(Taken) /\ r \in Runs(m)[w]
  BY <1>3, LanguageFacts, RunsUnfold DEF h
<1>12. o \o Filler(m, o) \in ModelRuns(m)
  BY <1>8, <1>10, <1>11, FoundIsRun
<1>13. Match(m) = [ok |-> TRUE, terms |-> o \o Filler(m, o)]
  BY MatchUnfold DEF o, outcomes, A
<1> QED  BY <1>12, <1>13

LEMMA MatchRejects ==
    ASSUME NEW m, IsMatcher(m), m.open.mode \in OpenModes, AcceptedOf(m) = {}
    PROVE  Match(m).ok = FALSE /\ ModelRuns(m) = {}
<1> DEFINE outcomes == Outcomes(m)
           h == RunsFrom(m)[m.particle]
<1>1. 0 \in Positions(m) /\ m.particle \in Particles
  BY DEF Positions, IsMatcher
<1>2. Agree(m, SearchFrom(m)[m.particle], h) /\ outcomes = SearchFrom(m)[m.particle][0]
  BY <1>1, ParticlesAgree, OutcomesUnfold
<1>3. Complete(m, 0, outcomes, h) /\ h \in Language
  BY <1>1, <1>2, AgreeFacts DEF AgreeAt
<1>4. \A i \in DOMAIN outcomes : ~Finishes(m, Len(outcomes[i]))
  BY DEF AcceptedOf
<1> HIDE DEF outcomes, h
<1>5. \A o \in ToSet(outcomes) : ~Finishes(m, Len(o))
  BY <1>4 DEF ToSet
<1>6. ASSUME NEW S \in OpenSets(m), NEW r \in Runs(m)[LeftBy(m, S)] PROVE FALSE
  <2> DEFINE w == LeftBy(m, S)
  <2>1. w \in Seq(Name)
    BY NumberingFacts
  <2> HIDE DEF w
  <2>2. r \in h[w]
    BY <1>6, RunsUnfold DEF h, w
  <2>3. r \in Seq(Taken) /\ Len(r) = Len(w)
    BY <1>3, <2>1, <2>2, LanguageFacts
  <2>4. PICK o : Reaches(m, w, r, o)
    BY <2>3, RunIsMet DEF w
  <2>5. o \in ToSet(outcomes)
    BY <1>3, <2>1, <2>2, <2>4 DEF Complete, Reaches
  <2> QED  BY <1>5, <2>4, <2>5 DEF Reaches
<1>7. ModelRuns(m) = {}
  BY <1>6, ModelRunsUnfold
<1>8. Match(m) = [ok |-> FALSE, terms |-> << >>]
  BY MatchUnfold
<1> QED  BY <1>7, <1>8

(* The search of the matcher, for every model, children and open content:  *)
(* it accepts exactly where the language has a run, and returns one.       *)
THEOREM MatchIsExact ==
    ASSUME NEW m, IsMatcher(m), m.open.mode \in OpenModes
    PROVE  MatchedExactly(m)
<1>1. CASE AcceptedOf(m) = {}
  BY <1>1, MatchRejects DEF MatchedExactly
<1>2. CASE AcceptedOf(m) # {}
  BY <1>2, MatchAccepts DEF MatchedExactly
<1> QED  BY <1>1, <1>2

-----------------------------------------------------------------------------
(* What the builder makes of what is declared.                             *)
Typed ==
    /\ IsDeclaration(declared) /\ WordsFor(declared) \subseteq Seq(Name)
    /\ Within(content.particle.min, content.particle.max) => content.particle \in Particles \cup {NoParticle}
    /\ content.open \in OpenContents

(* What is known of the children is what the matcher said.                 *)
Matches ==
    stage = "matched" =>
      /\ children \in Seq(Name)
      /\ matched = (IF Matching(content, children).ok THEN "yes" ELSE "no") /\ terms = Matching(content, children).terms

LEMMA UnionIsWildcard ==
    ASSUME NEW w1 \in Wildcard, NEW w2 \in Wildcard
    PROVE  WildcardUnion(w1, w2) \in Wildcard
<1>1. w1 # NoWildcard /\ w2 # NoWildcard
  BY NoWildcardAssumption
<1> DEFINE ns == NamespaceUnion(w1, w2)
           names == NotQNameUnionDisallowed(w1, w2)
<1>2. WildcardUnion(w1, w2) = [mode |-> ns.mode, namespaces |-> ns.namespaces, notQName |-> names,
                               keywords |-> w1.keywords \cap w2.keywords, processContents |-> w2.processContents]
  BY <1>1 DEF WildcardUnion
<1>3. ns.mode \in {"any", "enumeration", "not"} /\ ns.namespaces \in SUBSET Namespace
  BY DEF NamespaceUnion, SetUnionNot, Wildcard
<1>4. names \in SUBSET Name
  BY DEF NotQNameUnionDisallowed, Wildcard
<1> HIDE DEF ns, names
<1>5. w1.keywords \cap w2.keywords \in SUBSET Keyword /\ w2.processContents \in {Strict, Lax, Skip}
  BY DEF Wildcard
<1> QED  BY <1>2, <1>3, <1>4, <1>5 DEF Wildcard

(* An open content is closed, or has a wildcard.                           *)
LEMMA OpenContentFacts ==
    ASSUME NEW o \in OpenContents
    PROVE  /\ Effective(o) \in OpenContents /\ Effective(o).mode \in OpenModes
           /\ IsOpen(o) <=> o.mode \in {"suffix", "interleave"}
           /\ IsOpen(o) => Effective(o) = o /\ o.wildcard \in Wildcard
           /\ ~IsOpen(o) => Effective(o) = Closed
<1>1. CASE o \in {NoOpen, Closed}
  BY <1>1 DEF OpenContents, NoOpen, Closed, Effective, IsOpen, OpenModes
<1>2. CASE o \in [mode : {"suffix", "interleave"}, wildcard : Wildcard]
  <2>1. Effective(o) = o /\ o # Closed
    BY <1>2 DEF Effective, Closed
  <2> QED  BY <1>2, <2>1 DEF IsOpen, OpenModes
<1> QED  BY <1>1, <1>2 DEF OpenContents

LEMMA DeclaredFacts ==
    ASSUME IsDeclaration(declared)
    PROVE  /\ base.particle \in ParticlesTo[Depth - 1] \cup {NoParticle} /\ base.open \in OpenContents
           /\ own.particle \in ParticlesTo[Depth - 1] \cup {NoParticle} /\ own.open \in OpenContents
           /\ DeclaredOpen \in OpenContents /\ InheritedOpen(DeclaredOpen) \in OpenContents
<1>1. ASSUME NEW c \in Contents
      PROVE  c.particle \in ParticlesTo[Depth - 1] \cup {NoParticle} /\ c.open \in OpenContents
  <2>1. NoOpen \in OpenContents
    BY DEF OpenContents
  <2> QED  BY <2>1 DEF Contents, SimpleContent, Content
<1>2. base \in Contents /\ own \in Contents /\ declared.default.open \in OpenContents
  BY DEF IsDeclaration, base, own
<1>3. DeclaredOpen \in OpenContents
  BY <1>1, <1>2 DEF DeclaredOpen, OpenContents
<1>4. ASSUME NEW o \in OpenContents PROVE InheritedOpen(o) \in OpenContents
  <2>1. CASE ~IsOpen(o) \/ ~IsOpen(base.open)
    BY <1>1, <1>2, <2>1, OpenContentFacts DEF InheritedOpen
  <2>2. CASE IsOpen(o) /\ IsOpen(base.open)
    <3>1. o.mode \in {"suffix", "interleave"} /\ o.wildcard \in Wildcard /\ base.open.wildcard \in Wildcard
      BY <1>1, <1>2, <2>2, OpenContentFacts
    <3>2. WildcardUnion(base.open.wildcard, o.wildcard) \in Wildcard
      BY <3>1, UnionIsWildcard
    <3> QED  BY <2>2, <3>1, <3>2 DEF InheritedOpen, OpenContents
  <2> QED  BY <2>1, <2>2
<1> QED  BY <1>1, <1>2, <1>3, <1>4

LEMMA Regrouped ==
    ASSUME NEW lo \in Nat, NEW hi \in Nat \cup {Unbounded}, Within(lo, hi),
           NEW kind \in {"sequence", "choice", "all"}, NEW ps \in Seq(ParticlesTo[Depth - 1])
    PROVE  Particle(lo, hi, Group(kind, ps)) \in Particles
<1> DEFINE t == Group(kind, ps)
<1>1. t \in GroupsOf(ParticlesTo[Depth - 1])
  BY DEF GroupsOf, Group
<1>2. t \in TermsTo(Depth)
  BY <1>1, DepthAssumption DEF TermsTo, TermsOver
<1> HIDE DEF t
<1>3. Particle(lo, hi, t) \in ParticlesOf(TermsTo(Depth))
  BY <1>2 DEF ParticlesOf, Particle
<1> QED  BY <1>3, ParticlesByDepth, DepthAssumption DEF Particles, t

LEMMA ShallowFacts ==
    ASSUME NEW p \in ParticlesTo[Depth - 1]
    PROVE  p \in Particles /\ Particle(1, 1, p.term) \in Particles
           /\ \A g \in AllGroup(p) : g.kind = "all" /\ Referred(p.term) = g /\ g.particles \in Seq(ParticlesTo[Depth - 1])
<1> DEFINE n == Depth - 1
<1>1. n \in Nat /\ n <= Depth /\ Depth \in Nat
  BY DepthAssumption
<1>2. p \in Particles
  BY <1>1, ParticlesWithin DEF Particles
<1>3. Particle(1, 1, p.term) \in Particles
  <2>1. p \in ParticlesOf(TermsTo(n)) /\ ParticlesTo[n] = ParticlesOf(TermsTo(n))
    BY <1>1, ParticlesByDepth
  <2>2. p.term \in TermsTo(n)
    BY <2>1 DEF ParticlesOf
  <2>3. Particle(1, 1, p.term) \in ParticlesOf(TermsTo(n))
    BY <2>2 DEF ParticlesOf, Particle, Within
  <2> QED  BY <1>1, <2>1, <2>3, ParticlesWithin DEF Particles
<1>4. ASSUME NEW g \in AllGroup(p)
      PROVE  g.kind = "all" /\ Referred(p.term) = g /\ g.particles \in Seq(ParticlesTo[n])
  <2>1. g.kind = "all" /\ Referred(p.term) = g
    BY <1>4 DEF AllGroup, Referred
  <2>2. p.term \notin LeafTerm
    BY <2>1, LeafFacts DEF IsLeaf
  <2>3. n # 0 /\ AreMembers(g, n - 1)
    <3>1. \/ n # 0 /\ AreMembers(p.term, n - 1)
          \/ n # 0 /\ p.term.kind = "ref" /\ AreMembers(p.term.group, n - 1)
      BY <1>1, <2>2, ParticleAt
    <3>2. AreMembers(p.term, n - 1) => p.term.kind # "ref"
      BY DEF AreMembers, IsGroup
    <3> QED  BY <2>1, <3>1, <3>2 DEF Referred
  <2>4. ParticlesTo[n - 1] \subseteq ParticlesTo[n]
    <3>1. n - 1 \in Nat /\ n - 1 <= n
      BY <1>1, <2>3
    <3> QED  BY <1>1, <3>1, ParticlesWithin
  <2>5. g.particles \in Seq(ParticlesTo[n])
    BY <2>3, <2>4 DEF AreMembers
  <2> QED  BY <2>1, <2>5
<1> QED  BY <1>2, <1>3, <1>4

LEMMA ExtendedFacts ==
    ASSUME IsDeclaration(declared)
    PROVE  Within(ExtendedParticle.min, ExtendedParticle.max) => ExtendedParticle \in Particles \cup {NoParticle}
<1> DEFINE A == ParticlesTo[Depth - 1]
           b == base.particle
           p == own.particle
<1>1. b \in A \cup {NoParticle} /\ p \in A \cup {NoParticle}
  BY DeclaredFacts
<1>2. \A q \in A : q \in Particles
  BY ShallowFacts
<1>3. CASE b = NoParticle \/ p = NoParticle
  BY <1>1, <1>2, <1>3 DEF ExtendedParticle
<1>4. CASE b # NoParticle /\ p # NoParticle
  <2>1. b \in A /\ p \in A
    BY <1>1, <1>4
  <2>2. CASE AllGroup(b) # {} /\ AllGroup(p) # {}
    <3> DEFINE g == CHOOSE x \in AllGroup(b) : TRUE
               h == CHOOSE x \in AllGroup(p) : TRUE
    <3>1. g \in AllGroup(b) /\ h \in AllGroup(p)
      BY <2>2
    <3> HIDE DEF g, h
    <3>2. g.particles \in Seq(A) /\ h.particles \in Seq(A)
      BY <2>1, <3>1, ShallowFacts
    <3> HIDE DEF A
    <3>3. g.particles \o h.particles \in Seq(A)
      BY <3>2, ConcatFacts
    <3>4. p.min \in Nat /\ Within(p.min, p.max) /\ p.max \in Nat \cup {Unbounded}
      BY <1>2, <2>1, ParticleShape
    <3>5. ExtendedParticle = Particle(p.min, 1, Group("all", g.particles \o h.particles))
      BY <1>4, <2>2 DEF ExtendedParticle, MergedAll, g, h
    <3>6. Within(ExtendedParticle.min, ExtendedParticle.max) => Within(p.min, 1)
      BY <3>5 DEF Particle
    <3>7. Within(p.min, 1) => ExtendedParticle \in Particles
      BY <3>3, <3>4, <3>5, Regrouped DEF A
    <3> QED  BY <3>6, <3>7
  <2>3. CASE ~(AllGroup(b) # {} /\ AllGroup(p) # {})
    <3>1. <<b, p>> \in Seq(A)
      <4> HIDE DEF A, b, p
      <4> QED  BY <2>1
    <3>2. ExtendedParticle = Particle(1, 1, Group("sequence", <<b, p>>))
      BY <1>4, <2>3 DEF ExtendedParticle
    <3> HIDE DEF A
    <3>3. Particle(1, 1, Group("sequence", <<b, p>>)) \in Particles
      BY <3>1, Regrouped DEF A, Within
    <3> QED  BY <3>2, <3>3
  <2> QED  BY <2>2, <2>3
<1> QED  BY <1>3, <1>4

LEMMA InitTyped == Init => Typed /\ Matches
<1> SUFFICES ASSUME Init PROVE Typed /\ Matches
  OBVIOUS
<1>1. PICK i \in DOMAIN Declarations : declared \in Declarations[i]
  BY DEF Init
<1>2. IsDeclaration(declared) /\ WordsFor(declared) \subseteq Seq(Name)
  BY <1>1, DeclarationsAssumption
<1>3. content.particle = NoParticle /\ content.open = NoOpen /\ stage = "declared"
  BY DEF Init, SimpleContent, Content
<1> QED  BY <1>2, <1>3 DEF Typed, Matches, OpenContents

LEMMA NextTyped == Typed /\ Matches /\ [Next]_vars => Typed' /\ Matches'
<1> SUFFICES ASSUME Typed, Matches, [Next]_vars PROVE Typed' /\ Matches'
  OBVIOUS
<1> USE DEF Typed
<1>1. ASSUME NEW c, NEW reports, Built(c, reports), c.open \in OpenContents,
             Within(c.particle.min, c.particle.max) => c.particle \in Particles \cup {NoParticle}
      PROVE  Typed' /\ Matches'
  BY <1>1 DEF Built, Matches
<1>2. /\ own.particle \in ParticlesTo[Depth - 1] \cup {NoParticle}
      /\ DeclaredOpen \in OpenContents /\ InheritedOpen(DeclaredOpen) \in OpenContents
  BY DeclaredFacts
<1>3. own.particle \in Particles \cup {NoParticle}
  BY <1>2, ShallowFacts
<1>4. SimpleContent.particle = NoParticle /\ SimpleContent.open \in OpenContents
  BY DEF SimpleContent, Content, OpenContents
<1>5. Content(own.particle, own.mixed, DeclaredOpen).particle \in Particles \cup {NoParticle}
      /\ Content(own.particle, own.mixed, DeclaredOpen).open \in OpenContents
  BY <1>2, <1>3 DEF Content
<1>6. CASE BuildAlone
  BY <1>1, <1>5, <1>6 DEF BuildAlone
<1>7. CASE BuildFromSimple
  BY <1>1, <1>4, <1>5, <1>7 DEF BuildFromSimple
<1>8. CASE RestrictToSimple
  BY <1>1, <1>4, <1>8 DEF RestrictToSimple
<1>9. CASE BuildExtension
  <2>1. Within(ExtendedParticle.min, ExtendedParticle.max) => ExtendedParticle \in Particles \cup {NoParticle}
    BY ExtendedFacts
  <2> DEFINE c == Content(ExtendedParticle, IF AddsContent THEN own.mixed ELSE base.mixed, InheritedOpen(DeclaredOpen))
  <2>2. \E reports : Built(c, reports)
    BY <1>9 DEF BuildExtension
  <2>3. c.particle = ExtendedParticle /\ c.open = InheritedOpen(DeclaredOpen)
    BY DEF Content
  <2> HIDE DEF c, Typed
  <2> QED  BY <1>1, <1>2, <2>1, <2>2, <2>3
<1>10. CASE BuildRedefined
  <2>1. own.particle # NoParticle
    BY <1>10 DEF BuildRedefined, IsDeclaration, own
  <2>2. Particle(1, 1, own.particle.term) \in Particles /\ NoOpen \in OpenContents
    BY <1>2, <2>1, ShallowFacts DEF OpenContents
  <2> QED  BY <1>1, <1>10, <2>2 DEF BuildRedefined, Content
<1>11. CASE Check
  BY <1>11 DEF Check, Matches
<1>12. ASSUME NEW w \in WordsFor(declared), MatchChildren(w) PROVE Typed' /\ Matches'
  BY <1>12 DEF MatchChildren, Matches
<1>13. CASE UNCHANGED vars
  BY <1>13 DEF vars, Matches
<1> QED  BY <1>6, <1>7, <1>8, <1>9, <1>10, <1>11, <1>12, <1>13 DEF Next

(* What the matcher says of the children of an instance is exact, whatever *)
(* was declared and however the content type was derived.                  *)
LEMMA TypedMatches == Typed /\ Matches => MatchExact
<1> SUFFICES ASSUME Typed, Matches, stage = "matched", Within(content.particle.min, content.particle.max)
             PROVE  IF matched = "yes" THEN terms \in ModelRuns(MatcherOf(content, children))
                    ELSE ModelRuns(MatcherOf(content, children)) = {}
  BY DEF MatchExact
<1> DEFINE m == MatcherOf(content, children)
<1>1. m.particle = Expanded(content.particle) /\ m.children = children /\ m.open = Effective(content.open)
  BY DEF MatcherOf, Matcher
<1>2. children \in Seq(Name) /\ matched = (IF Match(m).ok THEN "yes" ELSE "no") /\ terms = Match(m).terms
  BY DEF Matches, Matching
<1>3. Expanded(content.particle) \in Particles /\ Effective(content.open).mode \in OpenModes
  BY ExpandedFacts, OpenContentFacts DEF Typed
<1> HIDE DEF m
<1>4. MatchedExactly(m)
  BY <1>1, <1>2, <1>3, MatchIsExact DEF IsMatcher
<1>5. IF matched = "yes" THEN terms \in ModelRuns(m) ELSE ModelRuns(m) = {}
  BY <1>2, <1>4 DEF MatchedExactly
<1> QED  BY <1>5 DEF m

(* Every instance of every content type, alone or derived, is matched      *)
(* exactly: by what MatchChildren keeps of the matcher's answer.           *)
THEOREM MatchesExactly == Spec => []MatchExact
<1>1. Init => Typed /\ Matches
  BY InitTyped
<1>2. (Typed /\ Matches) /\ [Next]_vars => (Typed /\ Matches)'
  BY NextTyped
<1>3. Typed /\ Matches => MatchExact
  BY TypedMatches
<1> QED  BY <1>1, <1>2, <1>3, PTL DEF Spec

-----------------------------------------------------------------------------
(* Which particles have a run without children.                            *)
Empties(h) == << >> \in h[<< >>]

LEMMA NoChildren ==
    /\ << >> \in Seq(Name)
    /\ \A h \in Language : h[<< >>] # {} <=> Empties(h)
<1>1. << >> \in Seq(Name)
  OBVIOUS
<1>2. ASSUME NEW h \in Language, NEW r \in h[<< >>] PROVE r = << >>
  <2>1. r \in Seq(Taken) /\ Len(r) = Len(<< >>)
    BY <1>1, LanguageFacts
  <2>2. Len(<< >>) = 0
    OBVIOUS
  <2> QED  BY <2>1, <2>2, EmptyIsZero
<1> QED  BY <1>1, <1>2 DEF Empties

LEMMA EmptyConcat ==
    ASSUME NEW A, NEW s \in Seq(A), NEW t \in Seq(A), s \o t = << >>
    PROVE  s = << >> /\ t = << >>
<1>1. Len(s \o t) = Len(s) + Len(t) /\ Len(s) \in Nat /\ Len(t) \in Nat
  BY ConcatFacts
<1>2. Len(<< >>) = 0
  OBVIOUS
<1>3. Len(s) = 0 /\ Len(t) = 0
  BY <1>1, <1>2
<1> QED  BY <1>3, EmptyIsZero

LEMMA JoinedEmpties ==
    ASSUME NEW h1 \in Language, NEW h2 \in Language
    PROVE  Empties(Joined(h1, h2)) <=> Empties(h1) /\ Empties(h2)
<1> DEFINE e == << >>
<1>1. e \in Seq(Name) /\ e \o e = e
  BY ConcatEmpty
<1>2. Empties(Joined(h1, h2)) <=> JoinedRun(h1, h2, e, e)
  BY <1>1, JoinedFacts DEF Empties
<1>3. ASSUME JoinedRun(h1, h2, e, e) PROVE Empties(h1) /\ Empties(h2)
  <2>1. PICK v1 \in Seq(Name), v2 \in Seq(Name) : \E r1 \in h1[v1], r2 \in h2[v2] : e = v1 \o v2 /\ e = r1 \o r2
    BY <1>3 DEF JoinedRun
  <2>2. PICK r1 \in h1[v1], r2 \in h2[v2] : e = v1 \o v2 /\ e = r1 \o r2
    BY <2>1
  <2>3. r1 \in Seq(Taken) /\ r2 \in Seq(Taken)
    BY LanguageFacts
  <2>4. v1 = e /\ v2 = e
    BY <2>2, EmptyConcat
  <2>5. r1 = e /\ r2 = e
    BY <2>2, <2>3, EmptyConcat
  <2> QED  BY <2>4, <2>5 DEF Empties
<1>4. ASSUME Empties(h1), Empties(h2) PROVE JoinedRun(h1, h2, e, e)
  BY <1>1, <1>4 DEF Empties, JoinedRun
<1> QED  BY <1>2, <1>3, <1>4

(* Occurrences that may all be empty: one of them, or none, is.            *)
LEMMA TimesEmpties ==
    ASSUME NEW once \in Language, NEW n \in Nat
    PROVE  Empties(Times(once)[n]) <=> n = 0 \/ Empties(once)
<1> DEFINE S == {k \in Nat : Empties(Times(once)[k]) <=> k = 0 \/ Empties(once)}
<1>1. 0 \in S
  <2>1. Times(once)[0] = EmptyRuns /\ << >> \in EmptyRuns[<< >>]
    BY NoChildren, TimesFacts, EmptyRunsFacts
  <2> QED  BY <2>1 DEF Empties
<1>2. ASSUME NEW k \in Nat, k \in S PROVE k + 1 \in S
  <2>1. Times(once)[k + 1] = Joined(once, Times(once)[k]) /\ Times(once)[k] \in Language
    BY TimesFacts
  <2>2. Empties(Times(once)[k + 1]) <=> Empties(once) /\ Empties(Times(once)[k])
    BY <2>1, JoinedEmpties
  <2>3. k + 1 \in Nat /\ k + 1 # 0
    OBVIOUS
  <2> QED  BY <1>2, <2>2, <2>3
<1>3. Nat \subseteq S
  <2> HIDE DEF S
  <2> QED  BY <1>1, <1>2, InductionOnNat
<1> QED  BY <1>3

LEMMA OccurrencesEmpties ==
    ASSUME NEW p \in Particles, NEW once \in Language
    PROVE  Empties(TimesRuns(p, once)) <=> p.min = 0 \/ Empties(once)
<1>1. p.min \in Nat /\ Within(p.min, p.max)
  BY ParticleShape
<1>2. Empties(TimesRuns(p, once)) <=> FollowingRun(p, once, 0, << >>, << >>)
  BY NoChildren, RunsTimesFacts, RepeatedFacts DEF Empties
<1>3. FollowingRun(p, once, 0, << >>, << >>) <=> \E n \in Nat : Enough(p, 0 + n) /\ Empties(Times(once)[n])
  BY DEF FollowingRun, Empties
<1>4. ASSUME NEW n \in Nat, Enough(p, 0 + n), Empties(Times(once)[n]) PROVE p.min = 0 \/ Empties(once)
  <2>1. n = 0 \/ Empties(once)
    BY <1>4, TimesEmpties
  <2>2. n >= p.min
    BY <1>4 DEF Enough
  <2> QED  BY <1>1, <2>1, <2>2
<1>5. ASSUME p.min = 0 \/ Empties(once) PROVE Enough(p, 0 + p.min) /\ Empties(Times(once)[p.min])
  <2>1. 0 + p.min = p.min /\ p.min >= p.min
    BY <1>1
  <2> QED  BY <1>1, <1>5, <2>1, TimesEmpties DEF Enough
<1> QED  BY <1>1, <1>2, <1>3, <1>4, <1>5

(* The runs of the members from the i-th on, for every i.                  *)
SeqSteps(parts, runs, e) ==
    /\ SeqRuns(parts, runs) = e[1] /\ e[Len(parts) + 1] = EmptyRuns
    /\ \A i \in 1..Len(parts) : e[i] = Joined(runs[i], e[i + 1])
    /\ \A i \in 1..(Len(parts) + 1) : e[i] \in Language

LEMMA SeqRunsSteps ==
    ASSUME NEW parts, Len(parts) \in Nat, NEW runs, \A i \in 1..Len(parts) : runs[i] \in Language
    PROVE  \E e : SeqSteps(parts, runs, e)
<1> DEFINE N == Len(parts)
           e == CHOOSE e : IsSeqRuns(parts, runs, e)
           empty == [v \in Seq(Name) |-> EmptyRun(v)]
<1>1. IsSeqRuns(parts, runs, e)
  BY SeqRunsExists
<1>2. \A w \in Seq(Name) : RunsInSeq(parts, runs, w) = e[1][w]
  BY DEF RunsInSeq, IsSeqRuns
<1> HIDE DEF e
<1>3. e[N + 1] = empty /\ empty = EmptyRuns
  <2>1. N + 1 \in 1..(N + 1) /\ N + 1 > N
    OBVIOUS
  <2> QED  BY <1>1, <2>1 DEF IsSeqRuns, EmptyRuns
<1>4. empty \in Language
  BY <1>3, EmptyRunsFacts
<1> HIDE DEF empty
<1>5. \A i \in 1..N : e[i] = Joined(runs[i], e[i + 1])
  <2> SUFFICES ASSUME NEW i \in 1..N PROVE e[i] = Joined(runs[i], e[i + 1])
    OBVIOUS
  <2>1. i \in 1..(N + 1) /\ ~(i > N)
    OBVIOUS
  <2> QED  BY <1>1, <2>1 DEF IsSeqRuns, Joined
<1>6. \A i \in 1..(N + 1) : e[i] \in Language
  <2> DEFINE S == {i \in 1..(N + 1) : e[i] \in Language}
  <2>1. N + 1 \in S
    BY <1>3, <1>4
  <2>2. ASSUME NEW i \in 1..N, i + 1 \in S PROVE i \in S
    <3>1. e[i + 1] \in Language /\ i \in 1..(N + 1)
      BY <2>2
    <3> QED  BY <1>5, <3>1, JoinedFacts
  <2> HIDE DEF S
  <2>3. 1..(N + 1) \subseteq S
    BY <2>1, <2>2, DownInduction
  <2> QED  BY <2>3 DEF S
<1>7. e[1] \in Language
  BY <1>6
<1>8. SeqRuns(parts, runs) = [w \in Seq(Name) |-> e[1][w]]
  BY <1>2 DEF SeqRuns
<1>9. SeqRuns(parts, runs) = e[1]
  BY <1>7, <1>8 DEF Language
<1> QED  BY <1>3, <1>5, <1>6, <1>9 DEF SeqSteps

LEMMA SeqEmpties ==
    ASSUME NEW parts, Len(parts) \in Nat, NEW runs, \A i \in 1..Len(parts) : runs[i] \in Language
    PROVE  Empties(SeqRuns(parts, runs)) <=> \A i \in 1..Len(parts) : Empties(runs[i])
<1> DEFINE N == Len(parts)
<1>1. PICK e : SeqSteps(parts, runs, e)
  BY SeqRunsSteps
<1> DEFINE S == {i \in 1..(N + 1) : Empties(e[i]) <=> \A j \in i..N : Empties(runs[j])}
<1>2. N + 1 \in S
  <2>1. e[N + 1] = EmptyRuns /\ << >> \in EmptyRuns[<< >>]
    BY <1>1, NoChildren, EmptyRunsFacts DEF SeqSteps
  <2>2. (N + 1)..N = {}
    OBVIOUS
  <2> QED  BY <2>1, <2>2 DEF Empties
<1>3. ASSUME NEW i \in 1..N, i + 1 \in S PROVE i \in S
  <2>1. i \in 1..(N + 1) /\ i + 1 \in 1..(N + 1) /\ i..N = {i} \cup ((i + 1)..N)
    OBVIOUS
  <2>2. e[i] = Joined(runs[i], e[i + 1]) /\ e[i + 1] \in Language
    BY <1>1, <2>1 DEF SeqSteps
  <2>3. Empties(e[i]) <=> Empties(runs[i]) /\ Empties(e[i + 1])
    BY <2>2, JoinedEmpties
  <2> QED  BY <1>3, <2>1, <2>3
<1>4. 1..(N + 1) \subseteq S
  <2> HIDE DEF S
  <2> QED  BY <1>2, <1>3, DownInduction
<1>5. 1 \in S
  BY <1>4
<1> QED  BY <1>1, <1>5 DEF SeqSteps

LEMMA ChoiceEmpties ==
    ASSUME NEW parts, NEW runs, \A i \in DOMAIN parts : runs[i] \in Language
    PROVE  Empties(ChoiceRuns(parts, runs)) <=> \E i \in DOMAIN parts : Empties(runs[i])
  BY NoChildren, ChoiceRunsFacts DEF Empties

NoneNeeded(s) == \A i \in DOMAIN s : s[i].min = 0

LEMMA AllEmpties ==
    ASSUME NEW m, NEW parts \in Seq(Particles)
    PROVE  Empties(AllRuns(m, parts)) <=> NoneNeeded(parts)
<1> DEFINE zero == [i \in DOMAIN parts |-> 0]
<1>1. \A i \in DOMAIN parts : parts[i].min \in Nat /\ parts[i].max \in Nat \cup {Unbounded}
  BY PartFacts
<1>2. Respects(parts, zero)
  BY <1>1 DEF Respects, Within, Unbounded
<1>3. Met(parts, zero) <=> NoneNeeded(parts)
  <2>1. ASSUME NEW i \in DOMAIN parts PROVE zero[i] >= parts[i].min <=> parts[i].min = 0
    BY <1>1
  <2> QED  BY <2>1 DEF Met, NoneNeeded
<1>4. AllRuns(m, parts) = AllFrom(m, parts, zero)
  BY RunsOfAllFacts
<1> HIDE DEF zero
<1>5. Empties(AllFrom(m, parts, zero)) <=> AllRun(m, parts, zero, << >>, << >>)
  BY NoChildren, AllFromFacts DEF Empties
<1>6. AllRun(m, parts, zero, << >>, << >>) <=> Met(parts, zero)
  BY <1>2, AllRunEmpty
<1> QED  BY <1>3, <1>4, <1>5, <1>6

LEMMA LeafEmpties ==
    ASSUME NEW m, NEW t
    PROVE  ~Empties(LeafRuns(m, t))
<1>1. LeafRuns(m, t)[<< >>] = RunsOfLeaf(m, t, << >>)
  BY NoChildren DEF LeafRuns
<1>2. Len(<< >>) # 1
  OBVIOUS
<1>3. RunsOfLeaf(m, t, << >>) = {}
  BY <1>2 DEF RunsOfLeaf
<1> QED  BY <1>1, <1>3 DEF Empties

LEMMA ParticleFunction ==
    ASSUME NEW R, NEW step, ByMembers(step, R)
    PROVE  \E f \in [Particles -> R] : f = [p \in Particles |-> step[p][f]]
<1>1. PICK f \in [Particles -> R] : \A p \in Particles : f[p] = step[p][f]
  BY ParticleRecursion
<1>2. f = [p \in Particles |-> step[p][f]]
  BY <1>1
<1> QED  BY <1>2

(* What a step that looks at the values of the members only sees.          *)
LEMMA SameMemberValues ==
    ASSUME NEW p \in Particles, p.term \notin LeafTerm, NEW g, NEW h, SameMembers(p, g, h)
    PROVE  /\ \A q \in ToSet(MembersOf(p)) : q \in Particles /\ g[q] = h[q]
           /\ {g[q] : q \in ToSet(MembersOf(p))} = {h[q] : q \in ToSet(MembersOf(p))}
<1>1. MembersOf(p) \in Seq(Particles)
  BY ParticleShape
<1>2. ASSUME NEW q \in ToSet(MembersOf(p)) PROVE q \in Particles /\ g[q] = h[q]
  <2>1. q \in Particles /\ \E i \in DOMAIN MembersOf(p) : q = MembersOf(p)[i]
    BY <1>1, <1>2, MemberOfSeq
  <2> QED  BY <2>1 DEF SameMembers
<1> QED  BY <1>2

(* particleEmptiable, as a step from the members.                          *)
EmptyStep(p, f) ==
    \/ p.min = 0
    \/ IsGroup(Referred(p.term)) /\ GroupEmptiable(Referred(p.term).kind, {f[q] : q \in ToSet(MembersOf(p))})

IsEmptiable(f) ==
    f = [p \in Particles |->
          LET t == Referred(p.term)
          IN  \/ p.min = 0
              \/ IsGroup(t) /\ GroupEmptiable(t.kind, {f[q] : q \in ToSet(t.particles)})]

LEMMA CanBeEmptyFacts ==
    /\ CanBeEmpty \in [Particles -> BOOLEAN]
    /\ \A p \in Particles : CanBeEmpty[p] = EmptyStep(p, CanBeEmpty)
<1> DEFINE step == [p \in Particles |-> [f \in [Particles -> BOOLEAN] |-> EmptyStep(p, f)]]
<1>1. \A p \in Particles : \A f : EmptyStep(p, f) \in BOOLEAN
  BY DEF EmptyStep
<1>2. step \in [Particles -> [[Particles -> BOOLEAN] -> BOOLEAN]]
  BY <1>1
<1>3. ASSUME NEW p \in Particles, NEW g, NEW h, p.term \in LeafTerm \/ SameMembers(p, g, h)
      PROVE  EmptyStep(p, g) = EmptyStep(p, h)
  <2>1. CASE p.term \in LeafTerm
    BY <2>1, LeafFacts DEF EmptyStep
  <2>2. CASE p.term \notin LeafTerm
    <3>1. {g[q] : q \in ToSet(MembersOf(p))} = {h[q] : q \in ToSet(MembersOf(p))}
      BY <1>3, <2>2, SameMemberValues
    <3> QED  BY <3>1 DEF EmptyStep
  <2> QED  BY <2>1, <2>2
<1>4. \A p \in Particles : \A g, h \in [Particles -> BOOLEAN] :
         (p.term \in LeafTerm \/ SameMembers(p, g, h)) => step[p][g] = step[p][h]
  BY <1>3
<1>5. \A p \in Particles : \A f \in [Particles -> BOOLEAN] : step[p][f] = EmptyStep(p, f)
  OBVIOUS
<1> HIDE DEF step
<1>6. ByMembers(step, BOOLEAN)
  BY <1>2, <1>4 DEF ByMembers
<1>7. PICK f \in [Particles -> BOOLEAN] : f = [p \in Particles |-> step[p][f]]
  BY <1>6, ParticleFunction
<1>8. f = [p \in Particles |-> EmptyStep(p, f)]
  BY <1>5, <1>7
<1>9. IsEmptiable(f)
  BY <1>8 DEF IsEmptiable, EmptyStep, MembersOf
<1>10. CanBeEmpty = CHOOSE g : IsEmptiable(g)
  BY DEF CanBeEmpty, IsEmptiable
<1>11. IsEmptiable(CanBeEmpty)
  BY <1>9, <1>10
<1>12. CanBeEmpty = [p \in Particles |-> EmptyStep(p, CanBeEmpty)]
  BY <1>11 DEF IsEmptiable, EmptyStep, MembersOf
<1>13. \A p \in Particles : CanBeEmpty[p] = EmptyStep(p, CanBeEmpty)
  BY <1>12
<1>14. CanBeEmpty = [p \in Particles |-> CanBeEmpty[p]]
  BY <1>12
<1> QED  BY <1>1, <1>13, <1>14

GroupedStep(p, f) ==
    \/ IsLeaf(p.term)
    \/ /\ IsGroup(p.term) /\ (p.term.kind = "choice" => p.term.particles # << >>)
       /\ \A q \in ToSet(p.term.particles) :
            f[q] /\ (p.term.kind = "all" => IsLeaf(q.term) \/ q.term.kind = "all")

IsGrouped(f) ==
    f = [p \in Particles |->
          \/ IsLeaf(p.term)
          \/ /\ IsGroup(p.term) /\ (p.term.kind = "choice" => p.term.particles # << >>)
             /\ \A q \in ToSet(p.term.particles) :
                  f[q] /\ (p.term.kind = "all" => IsLeaf(q.term) \/ q.term.kind = "all")]

LEMMA WellGroupedFacts ==
    \A p \in Particles : WellGrouped[p] = GroupedStep(p, WellGrouped)
<1> DEFINE step == [p \in Particles |-> [f \in [Particles -> BOOLEAN] |-> GroupedStep(p, f)]]
<1>1. \A p \in Particles : \A f : GroupedStep(p, f) \in BOOLEAN
  BY DEF GroupedStep
<1>2. step \in [Particles -> [[Particles -> BOOLEAN] -> BOOLEAN]]
  BY <1>1
<1>3. ASSUME NEW p \in Particles, NEW g, NEW h, p.term \in LeafTerm \/ SameMembers(p, g, h)
      PROVE  GroupedStep(p, g) = GroupedStep(p, h)
  <2>1. CASE ~IsGroup(p.term)
    BY <2>1 DEF GroupedStep
  <2>2. CASE IsGroup(p.term)
    <3>1. p.term \notin LeafTerm /\ MembersOf(p) = p.term.particles
      BY <2>2, GroupShape
    <3>2. \A q \in ToSet(p.term.particles) : g[q] = h[q]
      BY <1>3, <3>1, SameMemberValues
    <3> QED  BY <3>2 DEF GroupedStep
  <2> QED  BY <2>1, <2>2
<1>4. \A p \in Particles : \A g, h \in [Particles -> BOOLEAN] :
         (p.term \in LeafTerm \/ SameMembers(p, g, h)) => step[p][g] = step[p][h]
  BY <1>3
<1>5. \A p \in Particles : \A f \in [Particles -> BOOLEAN] : step[p][f] = GroupedStep(p, f)
  OBVIOUS
<1> HIDE DEF step
<1>6. ByMembers(step, BOOLEAN)
  BY <1>2, <1>4 DEF ByMembers
<1>7. PICK f \in [Particles -> BOOLEAN] : f = [p \in Particles |-> step[p][f]]
  BY <1>6, ParticleFunction
<1>8. f = [p \in Particles |-> GroupedStep(p, f)]
  BY <1>5, <1>7
<1>9. IsGrouped(f)
  BY <1>8 DEF IsGrouped, GroupedStep
<1>10. WellGrouped = CHOOSE g : IsGrouped(g)
  BY DEF WellGrouped, IsGrouped
<1>11. IsGrouped(WellGrouped)
  BY <1>9, <1>10
<1>12. WellGrouped = [p \in Particles |-> GroupedStep(p, WellGrouped)]
  BY <1>11 DEF IsGrouped, GroupedStep
<1> QED  BY <1>12

LEMMA FlattenAllUnfolds ==
    \A p \in Particles : FlattenAll[p] = FlattenStep(p, FlattenAll)
<1>1. FlattenAll = CHOOSE f : IsFlattenAll(f)
  BY DEF FlattenAll, IsFlattenAll
<1>2. IsFlattenAll(FlattenAll)
  BY <1>1, FlattenAllExists
<1>3. FlattenAll = [p \in Particles |-> FlattenStep(p, FlattenAll)]
  BY <1>2 DEF IsFlattenAll, FlattenStep, Optional
<1> QED  BY <1>3

(* flattenAll keeps what must be there: the members of the groups in it.   *)
LEMMA OptionalNeeds ==
    ASSUME NEW q, NEW inner \in Seq(Particles)
    PROVE  NoneNeeded(Optional(q, inner)) <=> q.min = 0 \/ NoneNeeded(inner)
<1> DEFINE s == Optional(q, inner)
<1>1. DOMAIN s = DOMAIN inner
  BY DEF Optional
<1>2. ASSUME NEW k \in DOMAIN inner PROVE s[k].min = IF q.min = 0 THEN 0 ELSE inner[k].min
  <2> DEFINE x == inner[k]
  <2>1. x \in Particles
    OBVIOUS
  <2>2. s[k] = IF q.min = 0 THEN [x EXCEPT !.min = 0] ELSE x
    BY DEF Optional
  <2> HIDE DEF x, s
  <2>3. x = [min |-> x.min, max |-> x.max, term |-> x.term]
    BY <2>1, ParticleShape
  <2>4. [x EXCEPT !.min = 0].min = 0
    BY <2>3
  <2> QED  BY <2>2, <2>4 DEF x
<1> HIDE DEF s
<1>3. NoneNeeded(s) <=> q.min = 0 \/ NoneNeeded(inner)
  BY <1>1, <1>2 DEF NoneNeeded
<1> QED  BY <1>3 DEF s

LEMMA FlattenedNeeds ==
    ASSUME NEW seqs \in Seq(Seq(Particles))
    PROVE  NoneNeeded(FlattenSeq(seqs)) <=> \A i \in DOMAIN seqs : NoneNeeded(seqs[i])
<1>1. ASSUME NEW s \in Seq(Particles) PROVE NoneNeeded(s) <=> \A x \in ToSet(s) : x.min = 0
  BY DEF NoneNeeded, ToSet
<1>2. FlattenSeq(seqs) \in Seq(Particles) /\ ToSet(FlattenSeq(seqs)) = UNION {ToSet(seqs[i]) : i \in DOMAIN seqs}
  BY FlattenFacts
<1>3. \A i \in DOMAIN seqs : seqs[i] \in Seq(Particles)
  OBVIOUS
<1>4. NoneNeeded(FlattenSeq(seqs)) <=> \A x \in ToSet(FlattenSeq(seqs)) : x.min = 0
  BY <1>1, <1>2
<1>5. \A i \in DOMAIN seqs : NoneNeeded(seqs[i]) <=> \A x \in ToSet(seqs[i]) : x.min = 0
  BY <1>1, <1>3
<1> QED  BY <1>2, <1>4, <1>5

LEMMA AllNeeds ==
    ASSUME NEW p \in Particles, p.term.kind = "all"
    PROVE  NoneNeeded(FlattenAll[p]) <=>
             \A i \in DOMAIN p.term.particles : p.term.particles[i].min = 0 \/ NoneNeeded(FlattenAll[p.term.particles[i]])
<1> DEFINE ps == p.term.particles
           seqs == [i \in DOMAIN ps |-> Optional(ps[i], FlattenAll[ps[i]])]
<1>1. ps \in Seq(Particles)
  BY GroupShape DEF IsGroup
<1>2. FlattenAll[p] = FlattenSeq(seqs)
  BY FlattenAllUnfolds DEF FlattenStep
<1> HIDE DEF ps
<1>3. \A i \in DOMAIN ps : ps[i] \in Particles /\ FlattenAll[ps[i]] \in Seq(Particles)
  BY <1>1, FlattenAllFacts
<1>4. \A i \in DOMAIN ps : seqs[i] \in Seq(Particles)
  BY <1>3, OptionalFacts
<1>5. \A i \in DOMAIN ps : NoneNeeded(seqs[i]) <=> ps[i].min = 0 \/ NoneNeeded(FlattenAll[ps[i]])
  <2> SUFFICES ASSUME NEW i \in DOMAIN ps PROVE NoneNeeded(seqs[i]) <=> ps[i].min = 0 \/ NoneNeeded(FlattenAll[ps[i]])
    OBVIOUS
  <2>1. seqs[i] = Optional(ps[i], FlattenAll[ps[i]])
    OBVIOUS
  <2> HIDE DEF seqs
  <2> QED  BY <1>3, <2>1, OptionalNeeds
<1>6. DOMAIN seqs = DOMAIN ps /\ seqs \in Seq(Seq(Particles))
  <2>1. DOMAIN ps = 1..Len(ps) /\ Len(ps) \in Nat
    BY <1>1
  <2>2. seqs = [i \in 1..Len(ps) |-> seqs[i]] /\ DOMAIN seqs = DOMAIN ps
    BY <2>1
  <2> HIDE DEF seqs
  <2> QED  BY <1>4, <2>1, <2>2, SeqOfValues
<1> HIDE DEF seqs
<1>7. NoneNeeded(FlattenSeq(seqs)) <=> \A i \in DOMAIN ps : ps[i].min = 0 \/ NoneNeeded(FlattenAll[ps[i]])
  BY <1>5, <1>6, FlattenedNeeds
<1> QED  BY <1>2, <1>7 DEF ps

(* A group, and a particle of one, without children.                       *)
LEMMA GroupEmptiableFacts ==
    ASSUME NEW ps \in Seq(Particles), NEW kind
    PROVE  GroupEmptiable(kind, {CanBeEmpty[q] : q \in ToSet(ps)}) <=>
             IF kind = "choice" THEN ps = << >> \/ \E i \in DOMAIN ps : CanBeEmpty[ps[i]]
             ELSE \A i \in DOMAIN ps : CanBeEmpty[ps[i]]
<1> DEFINE V == {CanBeEmpty[q] : q \in ToSet(ps)}
<1>1. \A i \in DOMAIN ps : ps[i] \in Particles /\ CanBeEmpty[ps[i]] \in BOOLEAN
  BY CanBeEmptyFacts
<1>2. V = {CanBeEmpty[ps[i]] : i \in DOMAIN ps}
  BY DEF ToSet
<1>3. TRUE \in V <=> \E i \in DOMAIN ps : CanBeEmpty[ps[i]]
  BY <1>1, <1>2
<1>4. FALSE \notin V <=> \A i \in DOMAIN ps : CanBeEmpty[ps[i]]
  BY <1>1, <1>2
<1>5. V = {} <=> ps = << >>
  <2>1. ps = << >> <=> Len(ps) = 0
    BY EmptyIsZero
  <2>2. DOMAIN ps = 1..Len(ps) /\ Len(ps) \in Nat
    OBVIOUS
  <2>3. V = {} <=> DOMAIN ps = {}
    BY <1>2
  <2>4. ASSUME NEW n \in Nat PROVE 1..n = {} <=> n = 0
    <3>1. n = 0 => 1..n = {}
      OBVIOUS
    <3>2. n # 0 => 1 \in 1..n
      OBVIOUS
    <3> QED  BY <3>1, <3>2
  <2> QED  BY <2>1, <2>2, <2>3, <2>4
<1> HIDE DEF V
<1>6. GroupEmptiable(kind, V) <=>
             IF kind = "choice" THEN ps = << >> \/ \E i \in DOMAIN ps : CanBeEmpty[ps[i]]
             ELSE \A i \in DOMAIN ps : CanBeEmpty[ps[i]]
  BY <1>3, <1>4, <1>5 DEF GroupEmptiable
<1> QED  BY <1>6 DEF V

LEMMA EmptiableParticle ==
    ASSUME NEW p \in Particles
    PROVE  CanBeEmpty[p] <=>
             \/ p.min = 0
             \/ /\ IsGroup(Referred(p.term))
                /\ IF Referred(p.term).kind = "choice" THEN MembersOf(p) = << >> \/ \E i \in DOMAIN MembersOf(p) : CanBeEmpty[MembersOf(p)[i]]
                   ELSE \A i \in DOMAIN MembersOf(p) : CanBeEmpty[MembersOf(p)[i]]
<1>1. CanBeEmpty[p] = EmptyStep(p, CanBeEmpty)
  BY CanBeEmptyFacts
<1>2. CASE p.term \in LeafTerm
  BY <1>1, <1>2, LeafFacts DEF EmptyStep
<1>3. CASE p.term \notin LeafTerm
  <2>1. MembersOf(p) \in Seq(Particles)
    BY <1>3, ParticleShape
  <2>2. GroupEmptiable(Referred(p.term).kind, {CanBeEmpty[q] : q \in ToSet(MembersOf(p))}) <=>
             IF Referred(p.term).kind = "choice" THEN MembersOf(p) = << >> \/ \E i \in DOMAIN MembersOf(p) : CanBeEmpty[MembersOf(p)[i]]
             ELSE \A i \in DOMAIN MembersOf(p) : CanBeEmpty[MembersOf(p)[i]]
    BY <2>1, GroupEmptiableFacts
  <2> QED  BY <1>1, <2>2 DEF EmptyStep
<1> QED  BY <1>2, <1>3

(* The members of an all group: a leaf, or a group that is all too.        *)
AllMember(q) == WellGrouped[q] /\ (IsLeaf(q.term) \/ q.term.kind = "all")

LEMMA AllMemberEmpties ==
    \A q \in Particles : AllMember(q) => (q.min = 0 \/ NoneNeeded(FlattenAll[q]) <=> CanBeEmpty[q])
<1> DEFINE S == {q \in Particles : AllMember(q) => (q.min = 0 \/ NoneNeeded(FlattenAll[q]) <=> CanBeEmpty[q])}
<1>1. ASSUME NEW p \in Particles, p.term \in LeafTerm \/ \A i \in DOMAIN MembersOf(p) : MembersOf(p)[i] \in S, AllMember(p)
      PROVE  p.min = 0 \/ NoneNeeded(FlattenAll[p]) <=> CanBeEmpty[p]
  <2>1. CASE p.term \in LeafTerm
    <3>1. p.term.kind # "all" /\ ~IsGroup(Referred(p.term))
      BY <2>1, LeafFacts DEF IsGroup
    <3>2. FlattenAll[p] = <<p>>
      BY <3>1, FlattenAllUnfolds DEF FlattenStep
    <3>3. NoneNeeded(<<p>>) <=> p.min = 0
      BY DEF NoneNeeded
    <3> QED  BY <3>1, <3>2, <3>3, EmptiableParticle
  <2>2. CASE p.term \notin LeafTerm
    <3>1. p.term.kind = "all" /\ IsGroup(p.term) /\ ~IsLeaf(p.term)
      BY <1>1, <2>2, ParticleShape DEF AllMember, IsGroup
    <3>2. MembersOf(p) = p.term.particles /\ Referred(p.term) = p.term /\ p.term.particles \in Seq(Particles)
      BY <3>1, GroupShape
    <3> DEFINE ps == p.term.particles
    <3>3. ASSUME NEW i \in DOMAIN ps PROVE ps[i] \in Particles /\ AllMember(ps[i]) /\ ps[i] \in S
      <4>1. ps[i] \in ToSet(ps) /\ ps[i] \in Particles
        BY <3>2, MemberOfSeq
      <4>2. WellGrouped[p] = GroupedStep(p, WellGrouped)
        BY WellGroupedFacts
      <4>3. WellGrouped[ps[i]] /\ (IsLeaf(ps[i].term) \/ ps[i].term.kind = "all")
        BY <1>1, <3>1, <4>1, <4>2 DEF GroupedStep, AllMember
      <4> QED  BY <1>1, <2>2, <3>2, <4>1, <4>3 DEF AllMember
    <3>4. \A i \in DOMAIN ps : ps[i].min = 0 \/ NoneNeeded(FlattenAll[ps[i]]) <=> CanBeEmpty[ps[i]]
      BY <3>3
    <3>5. NoneNeeded(FlattenAll[p]) <=> \A i \in DOMAIN ps : ps[i].min = 0 \/ NoneNeeded(FlattenAll[ps[i]])
      BY <3>1, AllNeeds
    <3>6. CanBeEmpty[p] <=> p.min = 0 \/ \A i \in DOMAIN ps : CanBeEmpty[ps[i]]
      <4>1. Referred(p.term).kind # "choice" /\ IsGroup(Referred(p.term))
        BY <3>1, <3>2
      <4> QED  BY <3>2, <4>1, EmptiableParticle
    <3> HIDE DEF ps, S
    <3> QED  BY <3>4, <3>5, <3>6
  <2> QED  BY <2>1, <2>2
<1>2. \A p \in Particles :
        p.term \in LeafTerm \/ (\A i \in DOMAIN MembersOf(p) : MembersOf(p)[i] \in S) => p \in S
  BY <1>1
<1>3. Particles \subseteq S
  <2> HIDE DEF S
  <2> QED  BY <1>2, ParticleInduction
<1> QED  BY <1>3

(* One occurrence of a group, given which of its members can be empty.     *)
LEMMA TermEmpties ==
    ASSUME NEW m, NEW p \in Particles, IsGroup(p.term), WellGrouped[p],
           NEW runs, \A i \in DOMAIN p.term.particles :
             runs[i] \in Language /\ (Empties(runs[i]) <=> CanBeEmpty[p.term.particles[i]])
    PROVE  p.min = 0 \/ Empties(TermRuns(m, p, runs)) <=> CanBeEmpty[p]
<1> DEFINE ps == p.term.particles
<1>1. MembersOf(p) = ps /\ Referred(p.term) = p.term /\ ps \in Seq(Particles)
  BY GroupShape
<1>2. CanBeEmpty[p] <=> p.min = 0 \/ IF p.term.kind = "choice" THEN ps = << >> \/ \E i \in DOMAIN ps : CanBeEmpty[ps[i]]
                                      ELSE \A i \in DOMAIN ps : CanBeEmpty[ps[i]]
  BY <1>1, EmptiableParticle
<1>3. WellGrouped[p] = GroupedStep(p, WellGrouped) /\ ~IsLeaf(p.term)
  BY WellGroupedFacts DEF IsLeaf, IsGroup
<1>4. CASE p.term.kind = "sequence"
  <2>1. TermRuns(m, p, runs) = SeqRuns(ps, runs)
    BY <1>4, TermRunsByKind
  <2>2. Len(ps) \in Nat /\ DOMAIN ps = 1..Len(ps)
    BY <1>1
  <2> HIDE DEF ps
  <2>3. Empties(SeqRuns(ps, runs)) <=> \A i \in 1..Len(ps) : Empties(runs[i])
    BY <2>2, SeqEmpties DEF ps
  <2> QED  BY <1>2, <1>4, <2>1, <2>2, <2>3 DEF ps
<1>5. CASE p.term.kind = "choice"
  <2>1. TermRuns(m, p, runs) = ChoiceRuns(ps, runs)
    BY <1>5, TermRunsByKind
  <2>2. Empties(ChoiceRuns(ps, runs)) <=> \E i \in DOMAIN ps : Empties(runs[i])
    BY ChoiceEmpties
  <2>3. ps # << >>
    BY <1>3, <1>5 DEF GroupedStep
  <2> QED  BY <1>2, <1>5, <2>1, <2>2, <2>3
<1>6. CASE p.term.kind = "all"
  <2>1. TermRuns(m, p, runs) = AllRuns(m, FlattenAll[p]) /\ FlattenAll[p] \in Seq(Particles)
    BY <1>6, TermRunsByKind, FlattenAllFacts
  <2>2. Empties(AllRuns(m, FlattenAll[p])) <=> NoneNeeded(FlattenAll[p])
    BY <2>1, AllEmpties
  <2>3. AllMember(p)
    BY <1>6 DEF AllMember
  <2> QED  BY <2>1, <2>2, <2>3, AllMemberEmpties
<1> QED  BY <1>4, <1>5, <1>6 DEF IsGroup

(* particleEmptiable is exact: a particle can be left empty if and only if *)
(* it has a run without children.                                          *)
LEMMA ParticleEmpties ==
    ASSUME NEW m
    PROVE  \A p \in Particles : WellGrouped[p] => (Empties(RunsFrom(m)[p]) <=> CanBeEmpty[p])
<1> DEFINE S == {p \in Particles : WellGrouped[p] => (Empties(RunsFrom(m)[p]) <=> CanBeEmpty[p])}
           R == RunsFrom(m)
<1>1. \A p \in Particles : R[p] = TimesRuns(p, TermRuns(m, p, InnerOf(p, R))) /\ R[p] \in Language
  BY RunsFromFacts DEF RunsStep
<1> HIDE DEF R
<1>2. ASSUME NEW p \in Particles, p.term \in LeafTerm \/ \A i \in DOMAIN MembersOf(p) : MembersOf(p)[i] \in S, WellGrouped[p]
      PROVE  Empties(R[p]) <=> CanBeEmpty[p]
  <2> DEFINE once == TermRuns(m, p, InnerOf(p, R))
  <2>1. R[p] = TimesRuns(p, once)
    BY <1>1
  <2>2. IsGroup(p.term) => \A i \in DOMAIN p.term.particles :
          p.term.particles[i] \in Particles /\ InnerOf(p, R)[i] = R[p.term.particles[i]] /\ InnerOf(p, R)[i] \in Language
    BY <1>1, InnerFacts
  <2>3. once \in Language
    BY <2>2, TermRunsFacts
  <2>4. Empties(R[p]) <=> p.min = 0 \/ Empties(once)
    BY <2>1, <2>3, OccurrencesEmpties
  <2>5. CASE p.term \in LeafTerm
    <3>1. ~IsGroup(p.term) /\ ~IsGroup(Referred(p.term))
      BY <2>5, LeafFacts
    <3>2. once = LeafRuns(m, p.term)
      BY <3>1, TermRunsByKind
    <3>3. ~Empties(once)
      BY <3>2, LeafEmpties
    <3> QED  BY <2>4, <3>1, <3>3, EmptiableParticle
  <2>6. CASE p.term \notin LeafTerm
    <3>1. WellGrouped[p] = GroupedStep(p, WellGrouped) /\ ~IsLeaf(p.term)
      BY <2>6, ParticleShape, WellGroupedFacts
    <3>2. IsGroup(p.term)
      BY <1>2, <3>1 DEF GroupedStep
    <3>3. MembersOf(p) = p.term.particles /\ p.term.particles \in Seq(Particles)
      BY <3>2, GroupShape
    <3>4. ASSUME NEW i \in DOMAIN p.term.particles
          PROVE  InnerOf(p, R)[i] \in Language /\ (Empties(InnerOf(p, R)[i]) <=> CanBeEmpty[p.term.particles[i]])
      <4>1. p.term.particles[i] \in ToSet(p.term.particles)
        BY <3>3, MemberOfSeq
      <4>2. WellGrouped[p.term.particles[i]]
        BY <1>2, <3>1, <4>1 DEF GroupedStep
      <4>3. p.term.particles[i] \in S
        BY <1>2, <2>6, <3>3
      <4> QED  BY <2>2, <3>2, <4>2, <4>3 DEF R
    <3> QED  BY <1>2, <2>4, <3>2, <3>4, TermEmpties
  <2> QED  BY <2>5, <2>6
<1>3. \A p \in Particles :
        p.term \in LeafTerm \/ (\A i \in DOMAIN MembersOf(p) : MembersOf(p)[i] \in S) => p \in S
  BY <1>2 DEF R
<1>4. Particles \subseteq S
  <2> HIDE DEF S
  <2> QED  BY <1>3, ParticleInduction
<1> QED  BY <1>4

(* Looking through references does not change what can be empty.           *)
LEMMA UnfoldedEmpties ==
    \A p \in Particles : CanBeEmpty[Unfolded[p]] <=> CanBeEmpty[p]
<1> DEFINE S == {p \in Particles : CanBeEmpty[Unfolded[p]] <=> CanBeEmpty[p]}
<1>1. ASSUME NEW p \in Particles, p.term \in LeafTerm \/ \A i \in DOMAIN MembersOf(p) : MembersOf(p)[i] \in S
      PROVE  CanBeEmpty[Unfolded[p]] <=> CanBeEmpty[p]
  <2>1. Unfolded[p] = UnfoldStep(p, Unfolded) /\ Unfolded[p] \in Particles
    BY UnfoldedFacts
  <2>2. CASE p.term \in LeafTerm
    BY <2>1, <2>2, LeafFacts DEF UnfoldStep
  <2>3. CASE p.term \notin LeafTerm
    <3> DEFINE t == Referred(p.term)
               ps == MembersOf(p)
               us == [i \in DOMAIN ps |-> Unfolded[ps[i]]]
               u == Unfolded[p]
    <3>1. IsGroup(t) /\ ~IsLeaf(t) /\ ps \in Seq(Particles) /\ p = [min |-> p.min, max |-> p.max, term |-> p.term]
      BY <2>3, ParticleShape
    <3>2. u = [p EXCEPT !.term = Group(t.kind, us)]
      BY <2>1, <3>1 DEF UnfoldStep
    <3>3. u.min = p.min /\ u.term = Group(t.kind, us)
      BY <3>1, <3>2
    <3>4. u.term.kind = t.kind /\ u.term.particles = us /\ IsGroup(u.term)
      BY <3>1, <3>3 DEF Group, IsGroup
    <3>5. MembersOf(u) = us /\ Referred(u.term) = u.term
      BY <2>1, <3>4, GroupShape
    <3>6. CanBeEmpty[u] <=> \/ u.min = 0
                            \/ IF t.kind = "choice" THEN us = << >> \/ \E i \in DOMAIN us : CanBeEmpty[us[i]]
                               ELSE \A i \in DOMAIN us : CanBeEmpty[us[i]]
      BY <2>1, <3>4, <3>5, EmptiableParticle
    <3>7. CanBeEmpty[p] <=> \/ p.min = 0
                            \/ IF t.kind = "choice" THEN ps = << >> \/ \E i \in DOMAIN ps : CanBeEmpty[ps[i]]
                               ELSE \A i \in DOMAIN ps : CanBeEmpty[ps[i]]
      BY <3>1, EmptiableParticle
    <3>8. DOMAIN us = DOMAIN ps /\ \A i \in DOMAIN ps : CanBeEmpty[us[i]] <=> CanBeEmpty[ps[i]]
      BY <1>1, <2>3
    <3>9. us = << >> <=> ps = << >>
      <4>1. us \in Seq(Particles) /\ Len(us) = Len(ps)
        <5>1. DOMAIN ps = 1..Len(ps) /\ Len(ps) \in Nat
          BY <3>1
        <5>2. \A i \in 1..Len(ps) : us[i] \in Particles
          BY <3>1, <5>1, UnfoldedFacts
        <5>3. us = [i \in 1..Len(ps) |-> us[i]]
          BY <5>1
        <5> HIDE DEF us
        <5> QED  BY <5>1, <5>2, <5>3, SeqOfValues
      <4> QED  BY <3>1, <4>1, EmptyIsZero
    <3> HIDE DEF us, u, ps, t
    <3> QED  BY <3>3, <3>6, <3>7, <3>8, <3>9 DEF u
  <2> QED  BY <2>2, <2>3
<1>2. \A p \in Particles :
        p.term \in LeafTerm \/ (\A i \in DOMAIN MembersOf(p) : MembersOf(p)[i] \in S) => p \in S
  BY <1>1
<1>3. Particles \subseteq S
  <2> HIDE DEF S
  <2> QED  BY <1>2, ParticleInduction
<1> QED  BY <1>3

LEMMA ExpandedEmpties ==
    ASSUME NEW m, NEW p \in Particles \cup {NoParticle}, WellGrouped[Expanded(p)]
    PROVE  Emptiable(p) <=> Empties(RunsFrom(m)[Expanded(p)])
<1>1. Expanded(p) \in Particles
  BY ExpandedFacts
<1>2. Empties(RunsFrom(m)[Expanded(p)]) <=> CanBeEmpty[Expanded(p)]
  BY <1>1, ParticleEmpties
<1>3. CASE p = NoParticle
  <2> DEFINE e == Particle(1, 1, Group("sequence", << >>))
  <2>1. Expanded(p) = e
    BY <1>3 DEF Expanded
  <2>2. e.term.kind = "sequence" /\ e.term.particles = << >>
    BY DEF Particle, Group
  <2> HIDE DEF e
  <2>3. IsGroup(e.term) /\ e \in Particles
    BY <1>1, <2>1, <2>2 DEF IsGroup
  <2>4. MembersOf(e) = << >> /\ Referred(e.term) = e.term
    BY <2>2, <2>3, GroupShape
  <2>5. CanBeEmpty[e]
    BY <2>2, <2>3, <2>4, EmptiableParticle
  <2> QED  BY <1>2, <1>3, <2>1, <2>5 DEF Emptiable
<1>4. CASE p # NoParticle
  <2>1. Expanded(p) = Unfolded[p] /\ p \in Particles
    BY <1>4 DEF Expanded
  <2> QED  BY <1>2, <1>4, <2>1, UnfoldedEmpties DEF Emptiable
<1> QED  BY <1>3, <1>4

(* An element without children: none of them is open content's.            *)
LEMMA AcceptsIfRuns ==
    ASSUME NEW m, IsMatcher(m), m.open.mode \in OpenModes
    PROVE  Match(m).ok <=> ModelRuns(m) # {}
<1>1. MatchedExactly(m)
  BY MatchIsExact
<1> QED  BY <1>1 DEF MatchedExactly

LEMMA AcceptsNothing ==
    ASSUME NEW m, IsMatcher(m), m.open.mode \in OpenModes, m.children = << >>
    PROVE  Match(m).ok <=> Empties(Runs(m))
<1>1. DOMAIN m.children = {} /\ Len(m.children) = 0
  <2>1. DOMAIN m.children = 1..Len(m.children) /\ Len(m.children) = 0
    BY ChildrenFacts
  <2> QED  BY <2>1
<1>2. OpenSets(m) = {{}}
  <2>1. {} \in OpenSets(m)
    BY DEF OpenSets
  <2>2. ASSUME NEW S \in OpenSets(m) PROVE S = {}
    BY <1>1 DEF OpenSets
  <2> QED  BY <2>1, <2>2
<1>3. LeftBy(m, {}) = << >>
  <2>1. PlaceOf({}, 0) = 0
    BY PlaceFacts
  <2>2. LeftBy(m, {}) \in Seq(Name) /\ Len(LeftBy(m, {})) = 0
    BY <1>1, <2>1, NumberingFacts
  <2> QED  BY <2>2, EmptyIsZero
<1>4. Runs(m) \in Language
  BY RunsUnfold, RunsFromFacts DEF IsMatcher
<1>5. ModelRuns(m) = {Filled(m, {}, run) : run \in Runs(m)[<< >>]}
  <2> DEFINE F(S) == {Filled(m, S, run) : run \in Runs(m)[LeftBy(m, S)]}
  <2>1. ModelRuns(m) = UNION {F(S) : S \in OpenSets(m)}
    BY ModelRunsUnfold
  <2>2. F({}) = {Filled(m, {}, run) : run \in Runs(m)[<< >>]}
    BY <1>3
  <2> HIDE DEF F
  <2> QED  BY <1>2, <2>1, <2>2
<1>6. ModelRuns(m) # {} <=> Runs(m)[<< >>] # {}
  BY <1>5
<1> QED  BY <1>4, <1>6, AcceptsIfRuns, NoChildren

(* A type whose content may be empty by the code's test accepts an element *)
(* without children, and no other does.                                    *)
THEOREM EmptiableIfAccepted ==
    ASSUME NEW c \in Contents, WellGrouped[Expanded(c.particle)]
    PROVE  Emptiable(c.particle) <=> Accepts(c, << >>)
<1>1. c.particle \in Particles \cup {NoParticle} /\ c.open \in OpenContents
  <2>1. c.particle \in ParticlesTo[Depth - 1] \cup {NoParticle} /\ c.open \in OpenContents
    BY DEF Contents, SimpleContent, Content, OpenContents
  <2> QED  BY <2>1, ShallowFacts
<1> DEFINE m == MatcherOf(c, << >>)
<1>2. m.particle = Expanded(c.particle) /\ m.children = << >> /\ m.open = Effective(c.open)
  BY DEF MatcherOf, Matcher
<1>3. Accepts(c, << >>) <=> Match(m).ok
  BY DEF Accepts, Matching
<1> HIDE DEF m
<1>4. IsMatcher(m) /\ m.open.mode \in OpenModes
  BY <1>1, <1>2, NoChildren, ExpandedFacts, OpenContentFacts DEF IsMatcher
<1>5. Match(m).ok <=> Empties(RunsFrom(m)[Expanded(c.particle)])
  BY <1>2, <1>4, AcceptsNothing, RunsUnfold
<1> QED  BY <1>1, <1>3, <1>5, ExpandedEmpties

(* What a restriction to simple content leaves, and reports.               *)
SimpleBuilt ==
    stage # "declared" /\ declared.method = "simple" =>
      /\ content.simple
      /\ base.mixed => (base.simple \/ ("not emptiable" \in reported <=> ~Emptiable(base.particle)))

LEMMA InitSimple == Init => SimpleBuilt
  BY DEF Init, SimpleBuilt

LEMMA NextSimple == SimpleBuilt /\ [Next]_vars => SimpleBuilt'
<1> SUFFICES ASSUME SimpleBuilt, [Next]_vars, (stage # "declared")', declared'.method = "simple"
             PROVE  /\ content'.simple
                    /\ declared'.base.mixed => (declared'.base.simple \/ ("not emptiable" \in reported' <=> ~Emptiable(declared'.base.particle)))
  BY DEF SimpleBuilt, base
<1>1. ASSUME declared.method # "simple", declared' = declared PROVE FALSE
  BY <1>1
<1>2. CASE BuildAlone
  BY <1>1, <1>2 DEF BuildAlone, Built
<1>3. CASE BuildFromSimple
  BY <1>1, <1>3 DEF BuildFromSimple, Built
<1>4. CASE RestrictToSimple
  <2>1. /\ declared' = declared /\ content' = SimpleContent
        /\ reported' = IF base.simple THEN {} ELSE IF ~base.mixed THEN {"not simple"}
                       ELSE IF Emptiable(base.particle) THEN {} ELSE {"not emptiable"}
    BY <1>4 DEF RestrictToSimple, Built
  <2>2. SimpleContent.simple = TRUE
    BY DEF SimpleContent, Content
  <2> QED  BY <2>1, <2>2 DEF base
<1>5. CASE BuildExtension
  BY <1>1, <1>5 DEF BuildExtension, Built
<1>6. CASE BuildRedefined
  BY <1>1, <1>6 DEF BuildRedefined, Built
<1>7. CASE Check
  <2>1. declared' = declared /\ content' = content /\ stage = "built" /\ declared.method = "simple"
    BY <1>7 DEF Check
  <2>2. content.simple /\ RestrictionReports = {}
    BY <2>1 DEF SimpleBuilt, RestrictionReports
  <2>3. reported' = reported
    BY <1>7, <2>2 DEF Check
  <2> QED  BY <2>1, <2>3 DEF SimpleBuilt, base
<1>8. ASSUME NEW w \in WordsFor(declared), MatchChildren(w)
      PROVE  /\ content'.simple
             /\ declared'.base.mixed => (declared'.base.simple \/ ("not emptiable" \in reported' <=> ~Emptiable(declared'.base.particle)))
  BY <1>8 DEF MatchChildren, SimpleBuilt, base
<1>9. CASE UNCHANGED vars
  BY <1>9 DEF vars, SimpleBuilt, base
<1> QED  BY <1>2, <1>3, <1>4, <1>5, <1>6, <1>7, <1>8, <1>9 DEF Next

LEMMA SimpleIsExact == Typed /\ SimpleBuilt => EmptiableExact
<1> SUFFICES ASSUME Typed, SimpleBuilt, Checked, declared.method = "simple", base.mixed, WellGrouped[Expanded(base.particle)]
             PROVE  "not emptiable" \in reported <=> ~Accepts(base, << >>)
  BY DEF EmptiableExact
<1>1. base \in Contents
  BY DEF Typed, IsDeclaration, base
<1>2. ~base.simple
  BY <1>1 DEF Contents, SimpleContent, Content
<1>3. stage # "declared"
  BY DEF Checked
<1>4. "not emptiable" \in reported <=> ~Emptiable(base.particle)
  BY <1>2, <1>3 DEF SimpleBuilt
<1> QED  BY <1>1, <1>4, EmptiableIfAccepted

(* A mixed type is refused as the base of simple content exactly when it   *)
(* accepts no element without children (fillSimpleContent).                *)
THEOREM EmptiableExactly == Spec => []EmptiableExact
<1>1. Init => Typed /\ Matches /\ SimpleBuilt
  BY InitTyped, InitSimple
<1>2. (Typed /\ Matches /\ SimpleBuilt) /\ [Next]_vars => (Typed /\ Matches /\ SimpleBuilt)'
  BY NextTyped, NextSimple
<1>3. Typed /\ Matches /\ SimpleBuilt => EmptiableExact
  BY SimpleIsExact
<1> QED  BY <1>1, <1>2, <1>3, PTL DEF Spec

-----------------------------------------------------------------------------
(* The runs of a particle in the matchers of two content types.  What is   *)
(* around it matters to a ##definedSibling only.                           *)
LEMMA UnfoldedShape ==
    ASSUME NEW p \in Particles
    PROVE  /\ Unfolded[p] \in Particles /\ Unfolded[p].min = p.min /\ Unfolded[p].max = p.max
           /\ p.term \in LeafTerm => Unfolded[p] = p
           /\ p.term \notin LeafTerm =>
                LET t == Unfolded[p].term
                IN  /\ IsGroup(t) /\ ~IsLeaf(t) /\ t.kind = Referred(p.term).kind
                    /\ t.particles \in Seq(Particles) /\ Len(t.particles) = Len(MembersOf(p))
                    /\ \A i \in 1..Len(MembersOf(p)) :
                         MembersOf(p)[i] \in Particles /\ t.particles[i] = Unfolded[MembersOf(p)[i]]
<1> DEFINE u == Unfolded[p]
           t == Referred(p.term)
           ps == MembersOf(p)
           us == [i \in DOMAIN ps |-> Unfolded[ps[i]]]
<1>1. u = UnfoldStep(p, Unfolded) /\ u \in Particles
  BY UnfoldedFacts
<1>2. p = [min |-> p.min, max |-> p.max, term |-> p.term]
  BY ParticleShape
<1>3. CASE p.term \in LeafTerm
  BY <1>1, <1>3, LeafFacts DEF UnfoldStep
<1>4. CASE p.term \notin LeafTerm
  <2>1. IsGroup(t) /\ ~IsLeaf(t) /\ ps \in Seq(Particles)
    BY <1>4, ParticleShape
  <2>2. u = [p EXCEPT !.term = Group(t.kind, us)]
    BY <1>1, <2>1 DEF UnfoldStep
  <2>3. u.min = p.min /\ u.max = p.max /\ u.term = Group(t.kind, us)
    BY <1>2, <2>2
  <2>4. u.term.kind = t.kind /\ u.term.particles = us
    BY <2>3 DEF Group
  <2>5. IsGroup(u.term) /\ ~IsLeaf(u.term)
    BY <2>1, <2>4 DEF IsGroup, IsLeaf
  <2>6. DOMAIN ps = 1..Len(ps) /\ Len(ps) \in Nat
    BY <2>1
  <2>7. \A i \in 1..Len(ps) : ps[i] \in Particles /\ us[i] = Unfolded[ps[i]] /\ us[i] \in Particles
    BY <2>1, <2>6, UnfoldedFacts
  <2>8. us = [i \in 1..Len(ps) |-> us[i]]
    BY <2>6
  <2> HIDE DEF us, u, ps, t
  <2>9. us \in Seq(Particles) /\ Len(us) = Len(ps)
    BY <2>6, <2>7, <2>8, SeqOfValues
  <2> QED  BY <1>1, <1>4, <2>3, <2>4, <2>5, <2>7, <2>9 DEF u, ps, t
<1> QED  BY <1>3, <1>4

LeavesStep(p, f) ==
    IF IsLeaf(Referred(p.term)) THEN {Referred(p.term)} ELSE UNION {f[q] : q \in ToSet(MembersOf(p))}

IsLeaves(f) ==
    f = [p \in Particles |->
          LET t == Referred(p.term) IN IF IsLeaf(t) THEN {t} ELSE UNION {f[q] : q \in ToSet(t.particles)}]

LEMMA LeavesUnfold ==
    \A p \in Particles : Leaves[p] = LeavesStep(p, Leaves)
<1> DEFINE R == SUBSET LeafTerm
           step == [p \in Particles |-> [f \in [Particles -> R] |-> LeavesStep(p, f)]]
<1>1. ASSUME NEW p \in Particles, NEW f \in [Particles -> R] PROVE LeavesStep(p, f) \in R
  <2>1. CASE p.term \in LeafTerm
    BY <2>1, LeafFacts DEF LeavesStep
  <2>2. CASE p.term \notin LeafTerm
    <3>1. MembersOf(p) \in Seq(Particles) /\ ~IsLeaf(Referred(p.term))
      BY <2>2, ParticleShape
    <3>2. \A q \in ToSet(MembersOf(p)) : f[q] \in R
      BY <3>1, MemberOfSeq
    <3> QED  BY <3>1, <3>2 DEF LeavesStep
  <2> QED  BY <2>1, <2>2
<1>2. step \in [Particles -> [[Particles -> R] -> R]] /\ R # {}
  BY <1>1
<1>3. ASSUME NEW p \in Particles, NEW g, NEW h, p.term \in LeafTerm \/ SameMembers(p, g, h)
      PROVE  LeavesStep(p, g) = LeavesStep(p, h)
  <2>1. CASE p.term \in LeafTerm
    BY <2>1, LeafFacts DEF LeavesStep
  <2>2. CASE p.term \notin LeafTerm
    <3>1. {g[q] : q \in ToSet(MembersOf(p))} = {h[q] : q \in ToSet(MembersOf(p))}
      BY <1>3, <2>2, SameMemberValues
    <3> QED  BY <3>1 DEF LeavesStep
  <2> QED  BY <2>1, <2>2
<1>4. \A p \in Particles : \A g, h \in [Particles -> R] :
         (p.term \in LeafTerm \/ SameMembers(p, g, h)) => step[p][g] = step[p][h]
  BY <1>3
<1>5. \A p \in Particles : \A f \in [Particles -> R] : step[p][f] = LeavesStep(p, f)
  OBVIOUS
<1> HIDE DEF step, R
<1>6. ByMembers(step, R)
  BY <1>2, <1>4 DEF ByMembers
<1>7. PICK f \in [Particles -> R] : f = [p \in Particles |-> step[p][f]]
  BY <1>6, ParticleFunction
<1>8. f = [p \in Particles |-> LeavesStep(p, f)]
  BY <1>5, <1>7
<1>9. IsLeaves(f)
  BY <1>8 DEF IsLeaves, LeavesStep, MembersOf
<1>10. Leaves = CHOOSE g : IsLeaves(g)
  BY DEF Leaves, IsLeaves
<1>11. IsLeaves(Leaves)
  BY <1>9, <1>10
<1>12. Leaves = [p \in Particles |-> LeavesStep(p, Leaves)]
  BY <1>11 DEF IsLeaves, LeavesStep, MembersOf
<1> QED  BY <1>12

LEMMA LeavesFacts ==
    ASSUME NEW p \in Particles
    PROVE  /\ IsLeaf(p.term) => Leaves[p] = {p.term}
           /\ IsGroup(p.term) => \A i \in DOMAIN p.term.particles : Leaves[p.term.particles[i]] \subseteq Leaves[p]
<1>1. Leaves[p] = LeavesStep(p, Leaves)
  BY LeavesUnfold
<1>2. ASSUME IsLeaf(p.term) PROVE Leaves[p] = {p.term}
  <2>1. Referred(p.term) = p.term
    BY <1>2 DEF IsLeaf, Referred
  <2> QED  BY <1>1, <1>2, <2>1 DEF LeavesStep
<1>3. ASSUME IsGroup(p.term), NEW i \in DOMAIN p.term.particles PROVE Leaves[p.term.particles[i]] \subseteq Leaves[p]
  <2>1. MembersOf(p) = p.term.particles /\ Referred(p.term) = p.term /\ p.term.particles \in Seq(Particles) /\ ~IsLeaf(p.term)
    BY <1>3, GroupShape DEF IsGroup, IsLeaf
  <2>2. p.term.particles[i] \in ToSet(MembersOf(p))
    BY <1>3, <2>1, MemberOfSeq
  <2> QED  BY <1>1, <2>1, <2>2 DEF LeavesStep
<1> QED  BY <1>2, <1>3

(* Flattening an all group adds no leaf.                                   *)
LEMMA FlattenedLeaves ==
    \A p \in Particles : \A x \in ToSet(FlattenAll[Unfolded[p]]) : IsLeaf(x.term) => x.term \in Leaves[Unfolded[p]]
<1> DEFINE S == {p \in Particles : \A x \in ToSet(FlattenAll[Unfolded[p]]) : IsLeaf(x.term) => x.term \in Leaves[Unfolded[p]]}
<1>1. ASSUME NEW p \in Particles, p.term \in LeafTerm \/ \A i \in DOMAIN MembersOf(p) : MembersOf(p)[i] \in S,
             NEW x \in ToSet(FlattenAll[Unfolded[p]]), IsLeaf(x.term)
      PROVE  x.term \in Leaves[Unfolded[p]]
  <2> DEFINE u == Unfolded[p]
             us == u.term.particles
             ps == MembersOf(p)
  <2>1. u \in Particles
    BY UnfoldedShape
  <2>2. FlattenAll[u] = FlattenStep(u, FlattenAll)
    BY <2>1, FlattenAllUnfolds
  <2>3. CASE u.term.kind # "all"
    <3>1. FlattenAll[u] = <<u>>
      BY <2>2, <2>3 DEF FlattenStep
    <3>2. x = u
      BY <3>1 DEF ToSet
    <3> QED  BY <1>1, <2>1, <3>2, LeavesFacts
  <2>4. CASE u.term.kind = "all"
    <3>1. p.term \notin LeafTerm
      BY <2>4, UnfoldedShape, LeafFacts DEF IsLeaf
    <3>2. IsGroup(u.term) /\ us \in Seq(Particles) /\ Len(us) = Len(ps)
          /\ \A i \in 1..Len(ps) : ps[i] \in Particles /\ us[i] = Unfolded[ps[i]]
      BY <3>1, UnfoldedShape
    <3>3. ps \in Seq(Particles)
      BY <3>1, ParticleShape
    <3> DEFINE seqs == [i \in DOMAIN us |-> Optional(us[i], FlattenAll[us[i]])]
    <3>4. FlattenAll[u] = FlattenSeq(seqs)
      BY <2>2, <2>4 DEF FlattenStep
    <3>5. Len(us) \in Nat /\ DOMAIN us = 1..Len(us) /\ DOMAIN ps = 1..Len(us)
      BY <3>2, <3>3
    <3>6. \A i \in 1..Len(us) : us[i] \in Particles /\ FlattenAll[us[i]] \in Seq(Particles)
      BY <3>2, <3>5, FlattenAllFacts
    <3>7. \A i \in 1..Len(us) : seqs[i] = Optional(us[i], FlattenAll[us[i]]) /\ seqs[i] \in Seq(Particles)
      BY <3>5, <3>6, OptionalFacts
    <3>8. seqs = [i \in 1..Len(us) |-> seqs[i]]
      BY <3>5
    <3> HIDE DEF seqs, us, ps
    <3>9. seqs \in Seq(Seq(Particles)) /\ DOMAIN seqs = 1..Len(us)
      BY <3>5, <3>7, <3>8, SeqOfValues
    <3>10. PICK i \in 1..Len(us) : x \in ToSet(seqs[i])
      <4>1. x \in ToSet(FlattenSeq(seqs))
        BY <1>1, <3>4
      <4>2. ToSet(FlattenSeq(seqs)) = UNION {ToSet(seqs[i]) : i \in DOMAIN seqs}
        BY <3>9, FlattenFacts
      <4> QED  BY <3>9, <4>1, <4>2
    <3>11. PICK k \in DOMAIN seqs[i] : x = seqs[i][k]
      BY <3>10 DEF ToSet
    <3> DEFINE inner == FlattenAll[us[i]]
    <3>12. seqs[i] = Optional(us[i], inner) /\ inner \in Seq(Particles)
      BY <3>6, <3>7
    <3> HIDE DEF inner
    <3>13. k \in DOMAIN inner /\ x = (IF us[i].min = 0 THEN [inner[k] EXCEPT !.min = 0] ELSE inner[k])
      BY <3>11, <3>12 DEF Optional
    <3>14. inner[k] \in ToSet(inner) /\ inner[k] \in Particles
      BY <3>12, <3>13, MemberOfSeq
    <3>15. inner[k] = [min |-> inner[k].min, max |-> inner[k].max, term |-> inner[k].term]
      BY <3>14, ParticleShape
    <3>16. x.term = inner[k].term
      BY <3>13, <3>15
    <3>17. ps[i] \in S /\ us[i] = Unfolded[ps[i]]
      BY <1>1, <3>1, <3>2, <3>5 DEF ps
    <3>18. x.term \in Leaves[us[i]]
      BY <1>1, <3>14, <3>16, <3>17 DEF inner
    <3> QED  BY <2>1, <3>2, <3>5, <3>18, LeavesFacts DEF us
  <2> QED  BY <2>3, <2>4
<1>2. \A p \in Particles :
        p.term \in LeafTerm \/ (\A i \in DOMAIN MembersOf(p) : MembersOf(p)[i] \in S) => p \in S
  BY <1>1
<1>3. Particles \subseteq S
  <2> HIDE DEF S
  <2> QED  BY <1>2, ParticleInduction
<1> QED  BY <1>3

SameTaking(m1, m2, t) == \A q \in Name : Accept(m1, t, q) = Accept(m2, t, q)

LEMMA SameWildcard ==
    ASSUME NEW m1, NEW m2, NEW w \in Wildcard, "##definedSibling" \notin w.keywords, NEW q
    PROVE  WildcardOK(m1, w, q) <=> WildcardOK(m2, w, q)
<1>1. ASSUME NEW k \in w.keywords PROVE MatcherContext(m1)[k] = MatcherContext(m2)[k]
  <2>1. k \in Keyword /\ k = "##defined"
    BY <1>1 DEF Wildcard, Keyword
  <2> QED  BY <2>1 DEF MatcherContext
<1> QED  BY <1>1 DEF WildcardOK, Allows

LEMMA SameLeaf ==
    ASSUME NEW m1, NEW m2, NEW t \in LeafTerm, t.kind = "wildcard" => "##definedSibling" \notin t.wildcard.keywords
    PROVE  SameTaking(m1, m2, t)
<1>1. CASE t.kind = "element"
  BY <1>1 DEF SameTaking, Accept
<1>2. CASE t.kind = "wildcard" /\ t.wildcard \in Wildcard
  <2>1. \A q : WildcardOK(m1, t.wildcard, q) <=> WildcardOK(m2, t.wildcard, q)
    BY <1>2, SameWildcard
  <2> QED  BY <1>2, <2>1 DEF SameTaking, Accept
<1> QED  BY <1>1, <1>2, LeafFacts

LEMMA SameNoLeaf ==
    ASSUME NEW m1, NEW m2, NEW t, ~IsLeaf(t)
    PROVE  SameTaking(m1, m2, t)
  BY DEF SameTaking, Accept, IsLeaf

LEMMA SameLeafRuns ==
    ASSUME NEW m1, NEW m2, NEW t, SameTaking(m1, m2, t)
    PROVE  LeafRuns(m1, t) = LeafRuns(m2, t)
<1>1. ASSUME NEW w \in Seq(Name) PROVE RunsOfLeaf(m1, t, w) = RunsOfLeaf(m2, t, w)
  <2>1. CASE Len(w) # 1
    BY <2>1 DEF RunsOfLeaf
  <2>2. CASE Len(w) = 1
    <3>1. w[1] \in Name
      BY <2>2
    <3>2. Accept(m1, t, w[1]) = Accept(m2, t, w[1])
      BY <3>1 DEF SameTaking
    <3> QED  BY <3>2 DEF RunsOfLeaf
  <2> QED  BY <2>1, <2>2
<1> QED  BY <1>1 DEF LeafRuns

SameParts(m1, m2, parts) == \A i \in DOMAIN parts : SameTaking(m1, m2, parts[i].term)

LEMMA SameAllRun ==
    ASSUME NEW m1, NEW m2, NEW parts, SameParts(m1, m2, parts), NEW used, NEW w \in Seq(Name), NEW r,
           AllRun(m1, parts, used, w, r)
    PROVE  AllRun(m2, parts, used, w, r)
<1>1. PICK f \in [1..Len(w) -> DOMAIN parts] :
        Suit(m1, parts, w, f) /\ Fit(parts, used, Len(w), f) /\ r = RunOf(m1, parts, w, f)
  BY DEF AllRun
<1>2. ASSUME NEW k \in 1..Len(w) PROVE Accept(m1, parts[f[k]].term, w[k]) = Accept(m2, parts[f[k]].term, w[k])
  <2>1. f[k] \in DOMAIN parts /\ w[k] \in Name
    OBVIOUS
  <2> QED  BY <2>1 DEF SameParts, SameTaking
<1>3. Suit(m2, parts, w, f)
  BY <1>1, <1>2 DEF Suit
<1>4. RunOf(m2, parts, w, f) = RunOf(m1, parts, w, f)
  BY <1>2 DEF RunOf, Chosen
<1> QED  BY <1>1, <1>3, <1>4 DEF AllRun

LEMMA SameAllRuns ==
    ASSUME NEW m1, NEW m2, NEW parts \in Seq(Particles), SameParts(m1, m2, parts)
    PROVE  AllRuns(m1, parts) = AllRuns(m2, parts)
<1> DEFINE zero == [i \in DOMAIN parts |-> 0]
<1>1. SameParts(m2, m1, parts)
  BY DEF SameParts, SameTaking
<1>2. ASSUME NEW w \in Seq(Name), NEW r PROVE AllRun(m1, parts, zero, w, r) <=> AllRun(m2, parts, zero, w, r)
  <2> HIDE DEF zero
  <2> QED  BY <1>1, SameAllRun
<1> HIDE DEF zero
<1>3. AllFrom(m1, parts, zero) = AllFrom(m2, parts, zero)
  BY <1>2 DEF AllFrom
<1> QED  BY <1>3, RunsOfAllFacts DEF zero

LEMMA SameTermRuns ==
    ASSUME NEW m1, NEW m2, NEW p \in Particles, \A t \in Leaves[Unfolded[p]] : SameTaking(m1, m2, t),
           NEW runs1, NEW runs2, IsGroup(Unfolded[p].term) => runs1 = runs2
    PROVE  TermRuns(m1, Unfolded[p], runs1) = TermRuns(m2, Unfolded[p], runs2)
<1> DEFINE u == Unfolded[p]
<1>1. u \in Particles
  BY UnfoldedShape
<1>2. CASE ~IsGroup(u.term)
  <2>1. p.term \in LeafTerm /\ u = p
    BY <1>2, UnfoldedShape
  <2>2. SameTaking(m1, m2, u.term)
    BY <1>1, <2>1, LeavesFacts, LeafFacts
  <2> QED  BY <1>2, <2>2, SameLeafRuns, TermRunsByKind
<1>3. CASE u.term.kind = "sequence" \/ u.term.kind = "choice"
  BY <1>3, TermRunsByKind DEF IsGroup
<1>4. CASE u.term.kind = "all"
  <2>1. FlattenAll[u] \in Seq(Particles)
    BY <1>1, FlattenAllFacts
  <2>2. ASSUME NEW i \in DOMAIN FlattenAll[u] PROVE SameTaking(m1, m2, FlattenAll[u][i].term)
    <3>1. FlattenAll[u][i] \in ToSet(FlattenAll[u])
      BY <2>1, MemberOfSeq
    <3> QED  BY <3>1, FlattenedLeaves, SameNoLeaf
  <2>3. AllRuns(m1, FlattenAll[u]) = AllRuns(m2, FlattenAll[u])
    BY <2>1, <2>2, SameAllRuns DEF SameParts
  <2> QED  BY <1>4, <2>3, TermRunsByKind
<1> QED  BY <1>2, <1>3, <1>4 DEF IsGroup

LEMMA SameRuns ==
    ASSUME NEW m1, NEW m2
    PROVE  \A p \in Particles : (\A t \in Leaves[Unfolded[p]] : SameTaking(m1, m2, t)) =>
             RunsFrom(m1)[Unfolded[p]] = RunsFrom(m2)[Unfolded[p]]
<1> DEFINE R1 == RunsFrom(m1)
           R2 == RunsFrom(m2)
           S == {p \in Particles : (\A t \in Leaves[Unfolded[p]] : SameTaking(m1, m2, t)) => R1[Unfolded[p]] = R2[Unfolded[p]]}
<1>1. \A p \in Particles : /\ R1[p] = TimesRuns(p, TermRuns(m1, p, InnerOf(p, R1)))
                           /\ R2[p] = TimesRuns(p, TermRuns(m2, p, InnerOf(p, R2)))
  BY RunsFromFacts DEF RunsStep
<1> HIDE DEF R1, R2
<1>2. ASSUME NEW p \in Particles, p.term \in LeafTerm \/ \A i \in DOMAIN MembersOf(p) : MembersOf(p)[i] \in S,
             \A t \in Leaves[Unfolded[p]] : SameTaking(m1, m2, t)
      PROVE  R1[Unfolded[p]] = R2[Unfolded[p]]
  <2> DEFINE u == Unfolded[p]
             us == u.term.particles
  <2>1. u \in Particles
    BY UnfoldedShape
  <2>2. ASSUME IsGroup(u.term) PROVE InnerOf(u, R1) = InnerOf(u, R2)
    <3>1. p.term \notin LeafTerm
      BY <2>2, UnfoldedShape, LeafFacts
    <3>2. us \in Seq(Particles) /\ Len(us) = Len(MembersOf(p)) /\ MembersOf(p) \in Seq(Particles)
          /\ \A i \in 1..Len(MembersOf(p)) : us[i] = Unfolded[MembersOf(p)[i]]
      BY <3>1, UnfoldedShape, ParticleShape
    <3>3. ASSUME NEW i \in DOMAIN us PROVE R1[us[i]] = R2[us[i]]
      <4>1. i \in DOMAIN MembersOf(p) /\ us[i] = Unfolded[MembersOf(p)[i]]
        BY <3>2
      <4>2. \A t \in Leaves[us[i]] : SameTaking(m1, m2, t)
        BY <1>2, <2>1, <2>2, LeavesFacts
      <4> QED  BY <1>2, <3>1, <4>1, <4>2
    <3> QED  BY <3>3 DEF InnerOf
  <2>3. TermRuns(m1, u, InnerOf(u, R1)) = TermRuns(m2, u, InnerOf(u, R2))
    BY <1>2, <2>2, SameTermRuns
  <2> QED  BY <1>1, <2>1, <2>3
<1>3. \A p \in Particles :
        p.term \in LeafTerm \/ (\A i \in DOMAIN MembersOf(p) : MembersOf(p)[i] \in S) => p \in S
  BY <1>2
<1>4. Particles \subseteq S
  <2> HIDE DEF S
  <2> QED  BY <1>3, ParticleInduction
<1> QED  BY <1>4 DEF R1, R2

-----------------------------------------------------------------------------
(* What an extension derives has the runs of its base.                     *)
LEMMA OnceIsEnough ==
    ASSUME NEW p \in Particles, NEW once \in Language, p.min <= 1, Within(1, p.max),
           NEW w \in Seq(Name), NEW r \in once[w]
    PROVE  r \in TimesRuns(p, once)[w]
<1>1. << >> \in Seq(Name) /\ << >> \in Times(once)[0][<< >>]
  BY NoChildren, TimesFacts, EmptyRunsFacts
<1>2. r \in Seq(Taken) /\ r \o << >> = r /\ w \o << >> = w
  BY LanguageFacts, ConcatEmpty
<1>3. r \o << >> \in Times(once)[0 + 1][w \o << >>]
  BY <1>1, OneMoreTime
<1>4. p.min \in Nat /\ 0 + 1 = 1 /\ 1 \in Nat
  BY ParticleShape
<1>5. Enough(p, 0 + 1) /\ r \in Times(once)[1][w]
  BY <1>2, <1>3, <1>4 DEF Enough
<1>6. FollowingRun(p, once, 0, w, r)
  BY <1>4, <1>5 DEF FollowingRun
<1> QED  BY <1>6, RunsTimesFacts, RepeatedFacts

LEMMA EmptySecond ==
    ASSUME NEW h1 \in Language, NEW h2 \in Language, Empties(h2), NEW w \in Seq(Name), NEW r \in h1[w]
    PROVE  r \in Joined(h1, h2)[w]
<1>1. << >> \in Seq(Name) /\ << >> \in h2[<< >>]
  BY NoChildren DEF Empties
<1>2. r \in Seq(Taken) /\ r = r \o << >> /\ w = w \o << >>
  BY LanguageFacts, ConcatEmpty
<1>3. JoinedRun(h1, h2, w, r)
  BY <1>1, <1>2 DEF JoinedRun
<1> QED  BY <1>3, JoinedFacts

LEMMA SeqOfTwo ==
    ASSUME NEW parts, Len(parts) = 2, NEW runs, runs[1] \in Language, runs[2] \in Language, Empties(runs[2]),
           NEW w \in Seq(Name), NEW r \in runs[1][w]
    PROVE  r \in SeqRuns(parts, runs)[w]
<1>1. \A i \in 1..Len(parts) : runs[i] \in Language
  <2>1. 1..2 = {1, 2}
    OBVIOUS
  <2> QED  BY <2>1
<1>2. PICK e : SeqSteps(parts, runs, e)
  <2>1. Len(parts) \in Nat
    OBVIOUS
  <2> QED  BY <1>1, <2>1, SeqRunsSteps
<1>3. /\ SeqRuns(parts, runs) = e[1] /\ e[3] = EmptyRuns
      /\ e[1] = Joined(runs[1], e[2]) /\ e[2] = Joined(runs[2], e[3]) /\ e[2] \in Language
  BY <1>2 DEF SeqSteps
<1>4. EmptyRuns \in Language /\ Empties(EmptyRuns)
  BY NoChildren, EmptyRunsFacts DEF Empties
<1>5. Empties(e[2])
  BY <1>3, <1>4, JoinedEmpties
<1>6. r \in Joined(runs[1], e[2])[w]
  BY <1>3, <1>5, EmptySecond
<1> QED  BY <1>3, <1>6

(* The base's particle followed by one that can be left empty.             *)
LEMMA SequenceKeeps ==
    ASSUME NEW m, NEW b \in Particles, NEW o \in Particles, NEW e \in Particles,
           e = Particle(1, 1, Group("sequence", <<b, o>>)), Empties(RunsFrom(m)[Unfolded[o]]),
           NEW w \in Seq(Name), NEW r \in RunsFrom(m)[Unfolded[b]][w]
    PROVE  r \in RunsFrom(m)[Unfolded[e]][w]
<1> DEFINE R == RunsFrom(m)
           u == Unfolded[e]
           us == u.term.particles
<1>1. \A p \in Particles : R[p] = TimesRuns(p, TermRuns(m, p, InnerOf(p, R))) /\ R[p] \in Language
  BY RunsFromFacts DEF RunsStep
<1>2. e.term.kind = "sequence" /\ e.term.particles = <<b, o>> /\ e.min = 1 /\ e.max = 1
  BY DEF Particle, Group
<1>3. IsGroup(e.term) /\ e.term \notin LeafTerm /\ Referred(e.term) = e.term /\ MembersOf(e) = <<b, o>>
  BY <1>2, GroupShape DEF IsGroup
<1>4. Len(<<b, o>>) = 2 /\ <<b, o>>[1] = b /\ <<b, o>>[2] = o
  OBVIOUS
<1>5. /\ u \in Particles /\ u.min = 1 /\ u.max = 1 /\ IsGroup(u.term) /\ u.term.kind = "sequence"
      /\ us \in Seq(Particles) /\ Len(us) = 2 /\ us[1] = Unfolded[b] /\ us[2] = Unfolded[o]
  <2>1. 1 \in 1..2 /\ 2 \in 1..2
    OBVIOUS
  <2>2. u \in Particles /\ u.min = 1 /\ u.max = 1
    BY <1>2, UnfoldedShape
  <2>3. /\ IsGroup(u.term) /\ u.term.kind = Referred(e.term).kind
        /\ us \in Seq(Particles) /\ Len(us) = Len(MembersOf(e))
        /\ \A i \in 1..Len(MembersOf(e)) : us[i] = Unfolded[MembersOf(e)[i]]
    BY <1>3, UnfoldedShape
  <2>4. u.term.kind = "sequence" /\ Len(us) = 2
    BY <1>2, <1>3, <1>4, <2>3
  <2>5. us[1] = Unfolded[b] /\ us[2] = Unfolded[o]
    <3> DEFINE ms == MembersOf(e)
    <3>1. Len(ms) = 2 /\ ms[1] = b /\ ms[2] = o
      BY <1>3, <1>4
    <3>2. \A i \in 1..Len(ms) : us[i] = Unfolded[ms[i]]
      BY <2>3
    <3> HIDE DEF ms, us
    <3>3. \A i \in 1..2 : us[i] = Unfolded[ms[i]]
      BY <3>1, <3>2
    <3>4. us[1] = Unfolded[ms[1]] /\ us[2] = Unfolded[ms[2]]
      BY <2>1, <3>3
    <3> QED  BY <3>1, <3>4
  <2> HIDE DEF us, u
  <2> QED  BY <2>2, <2>3, <2>4, <2>5
<1> HIDE DEF R, u, us
<1>6. InnerOf(u, R)[1] = R[Unfolded[b]] /\ InnerOf(u, R)[2] = R[Unfolded[o]]
  <2>1. 1 \in DOMAIN us /\ 2 \in DOMAIN us
    BY <1>5
  <2> QED  BY <1>5, <2>1 DEF InnerOf, us
<1>7. R[Unfolded[b]] \in Language /\ R[Unfolded[o]] \in Language
  BY <1>1, UnfoldedShape
<1> DEFINE once == TermRuns(m, u, InnerOf(u, R))
<1>8. once = SeqRuns(us, InnerOf(u, R))
  BY <1>5, TermRunsByKind DEF us
<1>9. r \in once[w]
  BY <1>5, <1>6, <1>7, <1>8, SeqOfTwo DEF R
<1>10. once \in Language
  <2>1. Len(us) \in Nat /\ 1..2 = {1, 2}
    BY <1>5
  <2>2. \A i \in 1..Len(us) : InnerOf(u, R)[i] \in Language
    BY <1>5, <1>6, <1>7, <2>1
  <2> QED  BY <1>8, <2>1, <2>2, SeqRunsFacts
<1>11. R[u] = TimesRuns(u, once)
  BY <1>1, <1>5
<1>12. u.min <= 1 /\ Within(1, u.max)
  BY <1>5 DEF Within
<1> HIDE DEF once
<1>13. r \in TimesRuns(u, once)[w]
  BY <1>5, <1>9, <1>10, <1>12, OnceIsEnough
<1> QED  BY <1>11, <1>13 DEF R, u

(* A base without a particle accepts only the children of the empty word.  *)
LEMMA TimesOfNothing ==
    ASSUME NEW n \in Nat, NEW w \in Seq(Name), NEW r \in Times(EmptyRuns)[n][w]
    PROVE  w = << >>
<1> DEFINE only(k) == \A v \in Seq(Name) : \A s \in Times(EmptyRuns)[k][v] : v = << >>
           S == {k \in Nat : only(k)}
<1>1. EmptyRuns \in Language
  BY EmptyRunsFacts
<1>2. 0 \in S
  BY <1>1, NoTime
<1>3. ASSUME NEW k \in Nat, k \in S PROVE k + 1 \in S
  <2>1. ASSUME NEW v \in Seq(Name), NEW s \in Times(EmptyRuns)[k + 1][v] PROVE v = << >>
    <3>1. JoinedRun(EmptyRuns, Times(EmptyRuns)[k], v, s)
      BY <1>1, <2>1, FirstTime
    <3>2. PICK v1 \in Seq(Name), v2 \in Seq(Name) : \E r1 \in EmptyRuns[v1], r2 \in Times(EmptyRuns)[k][v2] : v = v1 \o v2 /\ s = r1 \o r2
      BY <3>1 DEF JoinedRun
    <3>3. v1 = << >> /\ v2 = << >>
      BY <1>3, <3>2, EmptyRunsFacts
    <3>4. v1 \o << >> = v1
      BY ConcatEmpty
    <3> QED  BY <3>2, <3>3, <3>4
  <2> QED  BY <2>1
<1>4. Nat \subseteq S
  <2> HIDE DEF S
  <2> QED  BY <1>2, <1>3, InductionOnNat
<1>5. only(n)
  BY <1>4
<1> QED  BY <1>5

LEMMA NoParticleRuns ==
    ASSUME NEW m, NEW w \in Seq(Name), NEW r \in RunsFrom(m)[Expanded(NoParticle)][w]
    PROVE  w = << >>
<1> DEFINE R == RunsFrom(m)
           e == Particle(1, 1, Group("sequence", << >>))
<1>1. Expanded(NoParticle) = e /\ e \in Particles
  BY EmptyModel DEF Expanded
<1>2. R[e] = TimesRuns(e, TermRuns(m, e, InnerOf(e, R)))
  BY <1>1, RunsFromFacts DEF RunsStep
<1>3. e.term.kind = "sequence" /\ e.term.particles = << >>
  BY DEF Particle, Group
<1> HIDE DEF e, R
<1> DEFINE runs == InnerOf(e, R)
<1>4. TermRuns(m, e, runs) = SeqRuns(<< >>, runs)
  BY <1>3, TermRunsByKind
<1> HIDE DEF runs
<1>5. SeqRuns(<< >>, runs) = EmptyRuns
  <2>1. Len(<< >>) = 0 /\ 1..0 = {} /\ 0 + 1 = 1
    OBVIOUS
  <2>2. PICK f : SeqSteps(<< >>, runs, f)
    BY <2>1, SeqRunsSteps
  <2> QED  BY <2>1, <2>2 DEF SeqSteps
<1>6. r \in TimesRuns(e, EmptyRuns)[w]
  BY <1>1, <1>2, <1>4, <1>5 DEF R, runs
<1>7. FollowingRun(e, EmptyRuns, 0, w, r)
  BY <1>1, <1>6, EmptyRunsFacts, RunsTimesFacts, RepeatedFacts
<1> QED  BY <1>7, TimesOfNothing DEF FollowingRun

(* The members of an all group, flattened one by one.                      *)
FlatMember(x) == Optional(Unfolded[x], FlattenAll[Unfolded[x]])
FlatMembers(ps) == [i \in 1..Len(ps) |-> FlatMember(ps[i])]

LEMMA FlatMembersFacts ==
    ASSUME NEW ps \in Seq(Particles)
    PROVE  /\ FlatMembers(ps) \in Seq(Seq(Particles)) /\ Len(FlatMembers(ps)) = Len(ps)
           /\ \A i \in 1..Len(ps) : FlatMembers(ps)[i] = FlatMember(ps[i])
<1>1. Len(ps) \in Nat /\ \A i \in 1..Len(ps) : ps[i] \in Particles
  OBVIOUS
<1>2. \A i \in 1..Len(ps) : FlatMember(ps[i]) \in Seq(Particles)
  BY <1>1, UnfoldedShape, FlattenAllFacts, OptionalFacts DEF FlatMember
<1>3. \A i \in 1..Len(ps) : FlatMembers(ps)[i] = FlatMember(ps[i])
  BY DEF FlatMembers
<1>4. FlatMembers(ps) = [i \in 1..Len(ps) |-> FlatMembers(ps)[i]]
  BY DEF FlatMembers
<1> QED  BY <1>1, <1>2, <1>3, <1>4, SeqOfValues

LEMMA FlattenedGroup ==
    ASSUME NEW p \in Particles, Unfolded[p].term.kind = "all"
    PROVE  /\ MembersOf(p) \in Seq(Particles) /\ p.term \notin LeafTerm
           /\ FlattenAll[Unfolded[p]] = FlattenSeq(FlatMembers(MembersOf(p)))
<1> DEFINE u == Unfolded[p]
           us == u.term.particles
           ps == MembersOf(p)
           seqs == [i \in DOMAIN us |-> Optional(us[i], FlattenAll[us[i]])]
<1>1. u \in Particles
  BY UnfoldedShape
<1>2. p.term \notin LeafTerm
  BY UnfoldedShape, LeafFacts DEF IsLeaf
<1>3. FlattenAll[u] = FlattenSeq(seqs)
  BY <1>1, FlattenAllUnfolds DEF FlattenStep
<1>4. /\ us \in Seq(Particles) /\ Len(us) = Len(ps) /\ ps \in Seq(Particles)
      /\ \A i \in 1..Len(ps) : us[i] = Unfolded[ps[i]]
  BY <1>2, UnfoldedShape, ParticleShape
<1>5. DOMAIN us = 1..Len(ps)
  BY <1>4
<1>6. \A i \in 1..Len(ps) : Optional(us[i], FlattenAll[us[i]]) = FlatMember(ps[i])
  BY <1>4 DEF FlatMember
<1> HIDE DEF us, ps
<1>7. seqs = FlatMembers(ps)
  BY <1>5, <1>6 DEF FlatMembers
<1> HIDE DEF seqs
<1> QED  BY <1>2, <1>3, <1>4, <1>7 DEF ps

(* Merging two all groups puts their flattened members in a row.           *)
LEMMA FlattenedMerge ==
    ASSUME NEW b \in Particles, NEW o \in Particles, NEW e \in Particles,
           Unfolded[b].term.kind = "all", Unfolded[o].term.kind = "all", Unfolded[e].term.kind = "all",
           MembersOf(e) = MembersOf(b) \o MembersOf(o)
    PROVE  FlattenAll[Unfolded[e]] = FlattenAll[Unfolded[b]] \o FlattenAll[Unfolded[o]]
<1> DEFINE s == MembersOf(b)
           t == MembersOf(o)
<1>1. s \in Seq(Particles) /\ t \in Seq(Particles)
  BY FlattenedGroup
<1>2. /\ FlattenAll[Unfolded[b]] = FlattenSeq(FlatMembers(s))
      /\ FlattenAll[Unfolded[o]] = FlattenSeq(FlatMembers(t))
      /\ FlattenAll[Unfolded[e]] = FlattenSeq(FlatMembers(s \o t))
  BY FlattenedGroup
<1> HIDE DEF s, t
<1>3. FlatMembers(s \o t) = FlatMembers(s) \o FlatMembers(t)
  <2> DEFINE f == FlatMembers(s)
             g == FlatMembers(t)
             h == FlatMembers(s \o t)
  <2>1. /\ s \o t \in Seq(Particles) /\ Len(s \o t) = Len(s) + Len(t) /\ Len(s) \in Nat /\ Len(t) \in Nat
        /\ (\A i \in 1..Len(s) : (s \o t)[i] = s[i]) /\ (\A i \in 1..Len(t) : (s \o t)[Len(s) + i] = t[i])
    BY <1>1, ConcatFacts
  <2>2. /\ f \in Seq(Seq(Particles)) /\ Len(f) = Len(s) /\ (\A i \in 1..Len(s) : f[i] = FlatMember(s[i]))
        /\ g \in Seq(Seq(Particles)) /\ Len(g) = Len(t) /\ (\A i \in 1..Len(t) : g[i] = FlatMember(t[i]))
    BY <1>1, FlatMembersFacts
  <2>3. /\ h \in Seq(Seq(Particles)) /\ Len(h) = Len(s) + Len(t)
        /\ \A i \in 1..(Len(s) + Len(t)) : h[i] = FlatMember((s \o t)[i])
    BY <2>1, FlatMembersFacts
  <2> HIDE DEF f, g, h
  <2>4. /\ f \o g \in Seq(Seq(Particles)) /\ Len(f \o g) = Len(s) + Len(t)
        /\ (\A i \in 1..Len(s) : (f \o g)[i] = f[i]) /\ (\A i \in 1..Len(t) : (f \o g)[Len(s) + i] = g[i])
    <3>1. f \in Seq(Seq(Particles)) /\ g \in Seq(Seq(Particles))
      BY <2>2
    <3>2. /\ f \o g \in Seq(Seq(Particles)) /\ Len(f \o g) = Len(f) + Len(g)
          /\ (\A i \in 1..Len(f) : (f \o g)[i] = f[i])
          /\ (\A i \in 1..Len(g) : (f \o g)[Len(f) + i] = g[i])
      BY <3>1, ConcatFacts
    <3>3. Len(f) = Len(s) /\ Len(g) = Len(t)
      BY <2>2
    <3> QED  BY <3>2, <3>3
  <2>5. ASSUME NEW i \in 1..(Len(s) + Len(t)) PROVE h[i] = (f \o g)[i]
    <3>1. h[i] = FlatMember((s \o t)[i])
      BY <2>3
    <3>2. CASE i <= Len(s)
      <4>1. i \in 1..Len(s)
        BY <2>1, <3>2
      <4> QED  BY <2>1, <2>2, <2>4, <3>1, <4>1
    <3>3. CASE ~(i <= Len(s))
      <4>1. i - Len(s) \in 1..Len(t) /\ Len(s) + (i - Len(s)) = i
        BY <2>1, <3>3
      <4> QED  BY <2>1, <2>2, <2>4, <3>1, <4>1
    <3> QED  BY <3>2, <3>3
  <2>6. Len(h) = Len(f \o g) /\ \A i \in 1..Len(f \o g) : h[i] = (f \o g)[i]
    BY <2>3, <2>4, <2>5
  <2>7. h = f \o g
    BY <2>3, <2>4, <2>6, SameSeq
  <2> QED  BY <2>7 DEF f, g, h
<1>4. FlatMembers(s) \in Seq(Seq(Particles)) /\ FlatMembers(t) \in Seq(Seq(Particles))
  BY <1>1, FlatMembersFacts
<1>5. FlattenSeq(FlatMembers(s) \o FlatMembers(t)) = FlattenSeq(FlatMembers(s)) \o FlattenSeq(FlatMembers(t))
  BY <1>4, FlattenConcat
<1> QED  BY <1>2, <1>3, <1>5

(* Members that nothing has to be given to change no assignment.           *)
LEMMA AllRunWiden ==
    ASSUME NEW m, NEW s \in Seq(Particles), NEW t \in Seq(Particles), NoneNeeded(t),
           NEW w \in Seq(Name), NEW r, AllRun(m, s, [i \in DOMAIN s |-> 0], w, r)
    PROVE  AllRun(m, s \o t, [i \in DOMAIN (s \o t) |-> 0], w, r)
<1> DEFINE c == s \o t
           n == Len(w)
           zs == [i \in DOMAIN s |-> 0]
           zc == [i \in DOMAIN c |-> 0]
<1>1. /\ c \in Seq(Particles) /\ Len(c) = Len(s) + Len(t) /\ Len(s) \in Nat /\ Len(t) \in Nat /\ n \in Nat
      /\ (\A i \in 1..Len(s) : c[i] = s[i]) /\ (\A i \in 1..Len(t) : c[Len(s) + i] = t[i])
  BY ConcatFacts
<1>2. DOMAIN s = 1..Len(s) /\ DOMAIN t = 1..Len(t) /\ DOMAIN c = 1..(Len(s) + Len(t))
  BY <1>1
<1>3. PICK f \in [1..n -> DOMAIN s] : Suit(m, s, w, f) /\ Fit(s, zs, n, f) /\ r = RunOf(m, s, w, f)
  BY DEF AllRun
<1>4. \A i \in DOMAIN s : zs[i] = 0
  OBVIOUS
<1>5. \A i \in DOMAIN c : zc[i] = 0
  OBVIOUS
<1> HIDE DEF c, zs, zc, n
<1>6. f \in [1..n -> DOMAIN c] /\ \A k \in 1..n : c[f[k]] = s[f[k]]
  BY <1>1, <1>2
<1>7. Suit(m, c, w, f)
  BY <1>3, <1>6 DEF Suit, n
<1>8. RunOf(m, c, w, f) = RunOf(m, s, w, f)
  BY <1>6 DEF RunOf, n
<1>9. Fit(c, zc, n, f)
  <2> SUFFICES ASSUME NEW i \in DOMAIN c
               PROVE  zc[i] + Cardinality(OfMember(n, f, i)) >= c[i].min
                      /\ Within(zc[i] + Cardinality(OfMember(n, f, i)), c[i].max)
    BY DEF Fit
  <2>1. CASE i \in DOMAIN s
    <3>1. c[i] = s[i] /\ zc[i] = zs[i]
      BY <1>1, <1>2, <1>4, <1>5, <2>1
    <3> QED  BY <1>3, <2>1, <3>1 DEF Fit
  <2>2. CASE i \notin DOMAIN s
    <3>1. i - Len(s) \in DOMAIN t /\ c[i] = t[i - Len(s)]
      <4>1. i - Len(s) \in 1..Len(t) /\ Len(s) + (i - Len(s)) = i
        BY <1>1, <1>2, <2>2
      <4> QED  BY <1>1, <1>2, <4>1
    <3>2. c[i].min = 0 /\ c[i].max \in Nat \cup {Unbounded}
      BY <3>1, PartFacts DEF NoneNeeded
    <3>3. OfMember(n, f, i) = {}
      BY <1>3, <2>2 DEF OfMember
    <3>4. Cardinality({}) = 0
      BY FS_EmptySet
    <3>5. zc[i] + Cardinality(OfMember(n, f, i)) = 0
      BY <1>5, <3>3, <3>4
    <3> QED  BY <3>2, <3>5 DEF Within, Unbounded
  <2> QED  BY <2>1, <2>2
<1>10. AllRun(m, c, zc, w, r)
  BY <1>3, <1>6, <1>7, <1>8, <1>9 DEF AllRun, n
<1> QED  BY <1>10 DEF c, zc

-----------------------------------------------------------------------------
LEMMA OneOccurrence ==
    ASSUME NEW p \in Particles, NEW once \in Language, p.max \in {0, 1},
           NEW w \in Seq(Name), NEW r \in TimesRuns(p, once)[w]
    PROVE  (p.min = 0 /\ w = << >> /\ r = << >>) \/ r \in once[w]
<1>1. FollowingRun(p, once, 0, w, r)
  BY RunsTimesFacts, RepeatedFacts
<1>2. PICK n \in Nat : Enough(p, 0 + n) /\ r \in Times(once)[n][w]
  BY <1>1 DEF FollowingRun
<1>3. n <= 1 /\ n >= p.min /\ p.min \in Nat
  BY <1>2, ParticleShape DEF Enough, Within, Unbounded
<1>4. CASE n = 0
  BY <1>2, <1>3, <1>4, NoTime
<1>5. CASE n = 1
  <2>1. r \in Times(once)[0 + 1][w]
    BY <1>2, <1>5
  <2>2. JoinedRun(once, Times(once)[0], w, r)
    BY <2>1, FirstTime
  <2>3. PICK v1 \in Seq(Name), v2 \in Seq(Name) : \E r1 \in once[v1], r2 \in Times(once)[0][v2] : w = v1 \o v2 /\ r = r1 \o r2
    BY <2>2 DEF JoinedRun
  <2>4. PICK r1 \in once[v1], r2 \in Times(once)[0][v2] : w = v1 \o v2 /\ r = r1 \o r2
    BY <2>3
  <2>5. v2 = << >> /\ r2 = << >>
    BY <2>4, NoTime
  <2>6. r1 \in Seq(Taken)
    BY <2>4, LanguageFacts
  <2>7. w = v1 /\ r = r1
    BY <2>4, <2>5, <2>6, ConcatEmpty
  <2> QED  BY <2>4, <2>7
<1> QED  BY <1>3, <1>4, <1>5

(* Nothing has to be given to the members of an all group that can all be  *)
(* empty.                                                                  *)
LEMMA AllNoneNeeded ==
    ASSUME NEW o \in Particles, Unfolded[o].term.kind = "all", WellGrouped[Unfolded[o]],
           \A i \in 1..Len(MembersOf(o)) : CanBeEmpty[MembersOf(o)[i]]
    PROVE  NoneNeeded(FlattenAll[Unfolded[o]])
<1> DEFINE u == Unfolded[o]
           us == u.term.particles
           ps == MembersOf(o)
<1>1. u \in Particles /\ IsGroup(u.term) /\ ~IsLeaf(u.term)
  BY UnfoldedShape DEF IsGroup, IsLeaf
<1>2. us \in Seq(Particles) /\ Len(us) = Len(ps) /\ \A i \in 1..Len(ps) : ps[i] \in Particles /\ us[i] = Unfolded[ps[i]]
  BY UnfoldedShape, LeafFacts DEF IsGroup
<1>3. GroupedStep(u, WellGrouped)
  BY <1>1, WellGroupedFacts
<1>4. \A q \in ToSet(us) : AllMember(q)
  BY <1>1, <1>3 DEF GroupedStep, AllMember
<1>5. DOMAIN us = 1..Len(ps) /\ \A i \in DOMAIN us : us[i] \in Particles /\ us[i] \in ToSet(us)
  BY <1>2, MemberOfSeq
<1> HIDE DEF u, us, ps
<1>6. ASSUME NEW i \in DOMAIN us PROVE us[i].min = 0 \/ NoneNeeded(FlattenAll[us[i]])
  <2>1. AllMember(us[i])
    BY <1>4, <1>5
  <2>2. CanBeEmpty[ps[i]] /\ ps[i] \in Particles /\ us[i] = Unfolded[ps[i]]
    BY <1>2, <1>5 DEF ps
  <2>3. CanBeEmpty[us[i]]
    BY <2>2, UnfoldedEmpties
  <2> QED  BY <1>5, <2>1, <2>3, AllMemberEmpties
<1>7. u.term.kind = "all" /\ us = u.term.particles
  BY DEF u, us
<1> QED  BY <1>1, <1>6, <1>7, AllNeeds DEF u

LEMMA AllLanguage ==
    ASSUME NEW m, NEW p \in Particles, Unfolded[p].term.kind = "all"
    PROVE  LET s == FlattenAll[Unfolded[p]]
           IN  /\ RunsFrom(m)[Unfolded[p]] = TimesRuns(Unfolded[p], AllRuns(m, s)) /\ AllRuns(m, s) \in Language
               /\ \A w \in Seq(Name) : \A r : r \in AllRuns(m, s)[w] <=> AllRun(m, s, [i \in DOMAIN s |-> 0], w, r)
<1> DEFINE u == Unfolded[p]
           s == FlattenAll[u]
<1>1. u \in Particles /\ u.term.kind = "all"
  BY UnfoldedShape
<1> HIDE DEF u
<1>2. s \in Seq(Particles)
  BY <1>1, FlattenAllFacts
<1>3. RunsFrom(m)[u] = RunsStep(m, u, RunsFrom(m))
  BY <1>1, RunsFromFacts
<1>4. RunsFrom(m)[u] = TimesRuns(u, AllRuns(m, s))
  BY <1>1, <1>3, TermRunsByKind DEF RunsStep
<1> HIDE DEF s
<1>5. AllRuns(m, s) = AllFrom(m, s, [i \in DOMAIN s |-> 0])
  BY <1>2, RunsOfAllFacts
<1>6. AllRuns(m, s) \in Language /\ \A w \in Seq(Name) : \A r : r \in AllRuns(m, s)[w] <=> AllRun(m, s, [i \in DOMAIN s |-> 0], w, r)
  BY <1>2, <1>5, AllFromFacts
<1> QED  BY <1>4, <1>6 DEF s, u

(* Merging members that can be left out into an all group that occurs at   *)
(* most once loses none of its words.                                      *)
LEMMA AllKeeps ==
    ASSUME NEW m, NEW b \in Particles, NEW o \in Particles, NEW e \in Particles,
           Unfolded[b].term.kind = "all", Unfolded[o].term.kind = "all", Unfolded[e].term.kind = "all",
           MembersOf(e) = MembersOf(b) \o MembersOf(o), e.min = b.min, e.max = 1, b.max \in {0, 1},
           NoneNeeded(FlattenAll[Unfolded[o]]),
           NEW w \in Seq(Name), NEW r \in RunsFrom(m)[Unfolded[b]][w]
    PROVE  r \in RunsFrom(m)[Unfolded[e]][w]
<1> DEFINE ub == Unfolded[b]
           ue == Unfolded[e]
           s == FlattenAll[ub]
           t == FlattenAll[Unfolded[o]]
           c == FlattenAll[ue]
           hb == AllRuns(m, s)
           he == AllRuns(m, c)
<1>1. ub \in Particles /\ ue \in Particles /\ Unfolded[o] \in Particles
      /\ ub.min = b.min /\ ub.max = b.max /\ ue.min = b.min /\ ue.max = 1
  BY UnfoldedShape
<1>2. s \in Seq(Particles) /\ t \in Seq(Particles)
  BY <1>1, FlattenAllFacts
<1>3. c = s \o t
  BY FlattenedMerge
<1>4. RunsFrom(m)[ub] = TimesRuns(ub, hb) /\ hb \in Language
      /\ \A v \in Seq(Name) : \A x : x \in hb[v] <=> AllRun(m, s, [i \in DOMAIN s |-> 0], v, x)
  BY AllLanguage
<1>5. RunsFrom(m)[ue] = TimesRuns(ue, he) /\ he \in Language
      /\ \A v \in Seq(Name) : \A x : x \in he[v] <=> AllRun(m, c, [i \in DOMAIN c |-> 0], v, x)
  BY AllLanguage
<1>6. NoneNeeded(t) /\ r \in RunsFrom(m)[ub][w]
  OBVIOUS
<1> HIDE DEF ub, ue, s, t, c, hb, he
<1>7. ub.min <= 1 /\ Within(1, ue.max)
  BY <1>1, ParticleShape DEF Within, Unbounded
<1>8. (ub.min = 0 /\ w = << >> /\ r = << >>) \/ r \in hb[w]
  BY <1>1, <1>4, <1>6, OneOccurrence
<1>9. CASE ub.min = 0 /\ w = << >> /\ r = << >>
  <2>1. Empties(TimesRuns(ue, he))
    BY <1>1, <1>5, <1>9, OccurrencesEmpties
  <2> QED  BY <1>5, <1>9, <2>1 DEF Empties, ue
<1>10. CASE r \in hb[w]
  <2>1. AllRun(m, s, [i \in DOMAIN s |-> 0], w, r)
    BY <1>4, <1>10
  <2>2. AllRun(m, s \o t, [i \in DOMAIN (s \o t) |-> 0], w, r)
    BY <1>2, <1>6, <2>1, AllRunWiden
  <2>3. r \in he[w]
    BY <1>3, <1>5, <2>2
  <2>4. r \in TimesRuns(ue, he)[w]
    BY <1>1, <1>5, <1>7, <2>3, OnceIsEnough
  <2> QED  BY <1>5, <2>4 DEF ue
<1> QED  BY <1>8, <1>9, <1>10

-----------------------------------------------------------------------------
(* The open content an extension inherits admits what its base's does.     *)
LEMMA UnionAdmits ==
    ASSUME NEW w1 \in Wildcard, NEW w2 \in Wildcard, NEW q \in Name, AllowsName(w1, q)
    PROVE  AllowsName(WildcardUnion(w1, w2), q) /\ WildcardUnion(w1, w2).keywords = w1.keywords \cap w2.keywords
<1> DEFINE w == WildcardUnion(w1, w2)
<1>1. /\ w.mode = NamespaceUnion(w1, w2).mode
      /\ w.namespaces = NamespaceUnion(w1, w2).namespaces
      /\ w.notQName = NotQNameUnionDisallowed(w1, w2)
      /\ w.keywords = w1.keywords \cap w2.keywords
  BY NoWildcardAssumption DEF WildcardUnion
<1> HIDE DEF w
<1>2. AllowsNamespace(w1, NamespaceOf[q]) => AllowsNamespace(w, NamespaceOf[q])
  BY <1>1 DEF NamespaceUnion, SetUnionNot, AllowsNamespace, Wildcard
<1>3. AllowsNamespace(w, NamespaceOf[q])
  BY <1>2 DEF AllowsName
<1>4. q \notin w.notQName
  BY <1>1 DEF NotQNameUnionDisallowed, AllowsName
<1> QED  BY <1>1, <1>3, <1>4 DEF AllowsName, w

LEMMA WidenedWildcard ==
    ASSUME NEW m1, NEW m2, NEW w1 \in Wildcard, NEW w2 \in Wildcard, "##definedSibling" \notin w1.keywords,
           NEW q \in Name, WildcardOK(m1, w1, q)
    PROVE  WildcardOK(m2, WildcardUnion(w1, w2), q)
<1> DEFINE u == WildcardUnion(w1, w2)
<1>1. AllowsName(u, q) /\ u.keywords = w1.keywords \cap w2.keywords
  BY UnionAdmits DEF WildcardOK, Allows
<1>2. WildcardOK(m2, w1, q)
  BY SameWildcard
<1> HIDE DEF u
<1>3. WildcardOK(m2, u, q)
  BY <1>1, <1>2 DEF WildcardOK, Allows
<1> QED  BY <1>3 DEF u

ConsumeStep(p, f) ==
    /\ p.max # 0
    /\ IsLeaf(p.term) \/ (IsGroup(p.term) /\ \E q \in ToSet(p.term.particles) : f[q])

IsConsuming(f) ==
    f = [p \in Particles |->
          /\ p.max # 0
          /\ IsLeaf(p.term) \/ (IsGroup(p.term) /\ \E q \in ToSet(p.term.particles) : f[q])]

LEMMA CanConsumeFacts ==
    \A p \in Particles : CanConsume[p] = ConsumeStep(p, CanConsume)
<1> DEFINE step == [p \in Particles |-> [f \in [Particles -> BOOLEAN] |-> ConsumeStep(p, f)]]
<1>1. \A p \in Particles : \A f : ConsumeStep(p, f) \in BOOLEAN
  BY DEF ConsumeStep
<1>2. step \in [Particles -> [[Particles -> BOOLEAN] -> BOOLEAN]]
  BY <1>1
<1>3. ASSUME NEW p \in Particles, NEW g, NEW h, p.term \in LeafTerm \/ SameMembers(p, g, h)
      PROVE  ConsumeStep(p, g) = ConsumeStep(p, h)
  <2>1. CASE ~IsGroup(p.term)
    BY <2>1 DEF ConsumeStep
  <2>2. CASE IsGroup(p.term)
    <3>1. p.term \notin LeafTerm /\ MembersOf(p) = p.term.particles
      BY <2>2, GroupShape
    <3>2. \A q \in ToSet(p.term.particles) : g[q] = h[q]
      BY <1>3, <3>1, SameMemberValues
    <3> QED  BY <3>2 DEF ConsumeStep
  <2> QED  BY <2>1, <2>2
<1>4. \A p \in Particles : \A g, h \in [Particles -> BOOLEAN] :
         (p.term \in LeafTerm \/ SameMembers(p, g, h)) => step[p][g] = step[p][h]
  BY <1>3
<1>5. \A p \in Particles : \A f \in [Particles -> BOOLEAN] : step[p][f] = ConsumeStep(p, f)
  OBVIOUS
<1> HIDE DEF step
<1>6. ByMembers(step, BOOLEAN)
  BY <1>2, <1>4 DEF ByMembers
<1>7. PICK f \in [Particles -> BOOLEAN] : f = [p \in Particles |-> step[p][f]]
  BY <1>6, ParticleFunction
<1>8. f = [p \in Particles |-> ConsumeStep(p, f)]
  BY <1>5, <1>7
<1>9. IsConsuming(f)
  BY <1>8 DEF IsConsuming, ConsumeStep
<1>10. CanConsume = CHOOSE g : IsConsuming(g)
  BY DEF CanConsume, IsConsuming
<1>11. IsConsuming(CanConsume)
  BY <1>9, <1>10
<1>12. CanConsume = [p \in Particles |-> ConsumeStep(p, CanConsume)]
  BY <1>11 DEF IsConsuming, ConsumeStep
<1> QED  BY <1>12

(* A group that can consume a child where one of its members can.          *)
LEMMA GroupConsumes ==
    ASSUME NEW e \in Particles, e.max = 1, IsGroup(e.term), NEW q \in ToSet(e.term.particles), CanConsume[q]
    PROVE  MatchesNonEmpty(e)
<1>1. CanConsume[e]
  <2>1. CanConsume[e] = ConsumeStep(e, CanConsume)
    BY CanConsumeFacts
  <2>2. ConsumeStep(e, CanConsume)
    BY DEF ConsumeStep
  <2> QED  BY <2>1, <2>2
<1>2. e # NoParticle
  BY DEF NoParticle, Particle
<1> QED  BY <1>1, <1>2 DEF MatchesNonEmpty

(* The two particles an extension is made of, where it has both.           *)
BothAll == AllGroup(base.particle) # {} /\ AllGroup(own.particle) # {}

LEMMA MergedShape ==
    ASSUME IsDeclaration(declared), base.particle # NoParticle, own.particle # NoParticle, BothAll
    PROVE  /\ base.particle \in Particles /\ own.particle \in Particles
           /\ ExtendedParticle # NoParticle
           /\ ExtendedParticle.min = own.particle.min /\ ExtendedParticle.max = 1
           /\ Referred(base.particle.term).kind = "all" /\ Referred(own.particle.term).kind = "all"
           /\ ExtendedParticle.term.kind = "all" /\ Referred(ExtendedParticle.term).kind = "all"
           /\ ExtendedParticle.term.particles = MembersOf(ExtendedParticle)
           /\ MembersOf(base.particle) \in Seq(Particles) /\ MembersOf(own.particle) \in Seq(Particles)
           /\ MembersOf(ExtendedParticle) = MembersOf(base.particle) \o MembersOf(own.particle)
           /\ (CHOOSE g \in AllGroup(own.particle) : TRUE) = Referred(own.particle.term)
<1> DEFINE A == ParticlesTo[Depth - 1]
           b == base.particle
           p == own.particle
           g == CHOOSE x \in AllGroup(b) : TRUE
           h == CHOOSE x \in AllGroup(p) : TRUE
<1>1. b \in A /\ p \in A
  BY DeclaredFacts
<1>2. g \in AllGroup(b) /\ h \in AllGroup(p)
  BY DEF BothAll
<1>3. ExtendedParticle = Particle(p.min, 1, Group("all", g.particles \o h.particles))
  BY DEF ExtendedParticle, MergedAll, BothAll
<1>4. b \in Particles /\ p \in Particles
  BY <1>1, ShallowFacts
<1> HIDE DEF g, h
<1>5. g.kind = "all" /\ Referred(b.term) = g /\ h.kind = "all" /\ Referred(p.term) = h
  BY <1>1, <1>2, ShallowFacts
<1>6. MembersOf(b) = g.particles /\ MembersOf(p) = h.particles
  BY <1>5 DEF MembersOf
<1>7. b.term \notin LeafTerm /\ p.term \notin LeafTerm
  BY <1>5, LeafFacts DEF IsLeaf
<1>8. MembersOf(b) \in Seq(Particles) /\ MembersOf(p) \in Seq(Particles)
  BY <1>4, <1>7, ParticleShape
<1> DEFINE ps == g.particles \o h.particles
           e == ExtendedParticle
<1> HIDE DEF ps, e
<1>9. e.min = p.min /\ e.max = 1 /\ e.term = Group("all", ps)
  BY <1>3 DEF Particle, ps, e
<1>10. e # NoParticle
  BY <1>9 DEF NoParticle, Particle
<1>11. e.term.kind = "all" /\ Referred(e.term) = e.term /\ e.term.particles = ps
  BY <1>9 DEF Group, Referred
<1> QED  BY <1>4, <1>5, <1>6, <1>8, <1>9, <1>10, <1>11 DEF MembersOf, ps, e, h

LEMMA SequenceShape ==
    ASSUME IsDeclaration(declared), base.particle # NoParticle, own.particle # NoParticle, ~BothAll
    PROVE  /\ base.particle \in Particles /\ own.particle \in Particles /\ ExtendedParticle \in Particles
           /\ ExtendedParticle # NoParticle
           /\ ExtendedParticle = Particle(1, 1, Group("sequence", <<base.particle, own.particle>>))
<1> DEFINE b == base.particle
           p == own.particle
           e == Particle(1, 1, Group("sequence", <<b, p>>))
<1>1. b \in Particles /\ p \in Particles
  BY DeclaredFacts, ShallowFacts
<1>2. ExtendedParticle = e
  BY DEF ExtendedParticle, BothAll
<1>3. Within(1, 1) /\ e.min = 1 /\ e.max = 1
  BY DEF Within, Particle
<1>4. e # NoParticle
  BY <1>3 DEF NoParticle, Particle
<1>5. e \in Particles \cup {NoParticle}
  BY <1>2, <1>3, ExtendedFacts
<1> QED  BY <1>1, <1>2, <1>4, <1>5

(* What adds to a type's own particle leaves it able to consume a child.   *)
LEMMA StillConsumes ==
    ASSUME IsDeclaration(declared), MatchesNonEmpty(own.particle), Within(ExtendedParticle.min, ExtendedParticle.max)
    PROVE  MatchesNonEmpty(ExtendedParticle)
<1> DEFINE e == ExtendedParticle
<1>1. own.particle # NoParticle /\ CanConsume[own.particle]
  BY DEF MatchesNonEmpty
<1>2. CASE base.particle = NoParticle
  BY <1>1, <1>2 DEF ExtendedParticle
<1>3. CASE base.particle # NoParticle /\ BothAll
  <2>1. /\ own.particle \in Particles /\ e # NoParticle /\ e.max = 1 /\ e.term.kind = "all"
        /\ e.term.particles = MembersOf(base.particle) \o MembersOf(own.particle)
        /\ MembersOf(base.particle) \in Seq(Particles) /\ MembersOf(own.particle) \in Seq(Particles)
        /\ Referred(own.particle.term).kind = "all"
    BY <1>1, <1>3, MergedShape
  <2>2. e \in Particles
    BY <2>1, ExtendedFacts
  <2>3. ~IsLeaf(own.particle.term)
    BY <2>1 DEF Referred, IsLeaf
  <2>4. IsGroup(own.particle.term) /\ \E q \in ToSet(own.particle.term.particles) : CanConsume[q]
    BY <1>1, <2>1, <2>3, CanConsumeFacts DEF ConsumeStep
  <2>5. own.particle.term.particles = MembersOf(own.particle)
    BY <2>1, <2>4, GroupShape
  <2>6. PICK q \in ToSet(MembersOf(own.particle)) : CanConsume[q]
    BY <2>4, <2>5
  <2>7. q \in ToSet(e.term.particles)
    BY <2>1, <2>6, ToSetConcat
  <2> HIDE DEF e
  <2>8. MatchesNonEmpty(e)
    BY <2>1, <2>2, <2>6, <2>7, GroupConsumes DEF IsGroup
  <2> QED  BY <2>8 DEF e
<1>4. CASE base.particle # NoParticle /\ ~BothAll
  <2>1. /\ own.particle \in Particles /\ e \in Particles
        /\ e = Particle(1, 1, Group("sequence", <<base.particle, own.particle>>))
    BY <1>1, <1>4, SequenceShape
  <2> DEFINE s == <<base.particle, own.particle>>
  <2>2. own.particle \in ToSet(s)
    <3>1. s[2] = own.particle /\ 2 \in DOMAIN s
      OBVIOUS
    <3> QED  BY <3>1 DEF ToSet
  <2> HIDE DEF e, s
  <2>3. e.max = 1 /\ e.term.particles = s /\ IsGroup(e.term)
    BY <2>1 DEF Particle, Group, IsGroup, s
  <2>4. MatchesNonEmpty(e)
    BY <1>1, <2>1, <2>2, <2>3, GroupConsumes
  <2> QED  BY <2>4 DEF e
<1> QED  BY <1>2, <1>3, <1>4

(* What finishComplexTypes builds for an extension.                        *)
Extends(c) ==
    /\ c.particle = ExtendedParticle /\ c.open = InheritedOpen(DeclaredOpen)
    /\ c.mixed = IF AddsContent THEN own.mixed ELSE base.mixed

(* Where the open content declared decides, it decides the mode the check  *)
(* looks at.                                                               *)
LEMMA DeclaredMode ==
    ASSUME IsDeclaration(declared), NEW c, Extends(c), IsOpen(DeclaredOpen), Within(c.particle.min, c.particle.max)
    PROVE  ExtensionMode(c) = DeclaredOpen.mode
<1>1. CASE own.open # NoOpen
  BY <1>1 DEF DeclaredOpen, ExtensionMode
<1>2. CASE own.open = NoOpen
  <2>1. ~IsOpen(NoOpen)
    <3>1. NoOpen \in OpenContents /\ NoOpen.mode = "absent"
      BY DEF OpenContents, NoOpen
    <3> QED  BY <3>1, OpenContentFacts
  <2>2. /\ own.mixed \/ MatchesNonEmpty(own.particle) \/ declared.default.appliesToEmpty
        /\ DeclaredOpen = declared.default.open
    BY <1>2, <2>1 DEF DeclaredOpen
  <2>3. own.mixed => ~ContentEmpty(c)
    BY DEF Extends, AddsContent, ContentEmpty
  <2>4. MatchesNonEmpty(own.particle) => ~ContentEmpty(c)
    BY StillConsumes DEF Extends, ContentEmpty
  <2> QED  BY <1>2, <2>2, <2>3, <2>4 DEF ExtensionMode
<1> QED  BY <1>1, <1>2

(* Whatever children the base leaves to its open content can be left to    *)
(* that of the extension.                                                  *)
LEMMA OpenKept ==
    ASSUME IsDeclaration(declared), NEW c, Extends(c), Within(c.particle.min, c.particle.max), ~NarrowsOpen(c),
           ~ExcludesSiblings(base), NEW w \in Seq(Name), NEW S \in OpenSets(MatcherOf(base, w))
    PROVE  S \in OpenSets(MatcherOf(c, w))
<1> DEFINE mb == MatcherOf(base, w)
           mc == MatcherOf(c, w)
           D == DeclaredOpen
<1>1. /\ mb.children = w /\ mb.open = Effective(base.open) /\ mc.children = w /\ mc.open = Effective(c.open)
      /\ c.open = InheritedOpen(D)
  BY DEF MatcherOf, Matcher, Extends
<1>2. base.open \in OpenContents /\ D \in OpenContents /\ c.open \in OpenContents
  BY <1>1, DeclaredFacts
<1>3. IsOpen(D) => ExtensionMode(c) = D.mode
  BY DeclaredMode
<1>4. S \in OpenSets(mb)
  OBVIOUS
<1> HIDE DEF mb, mc, D
<1>5. /\ S \subseteq DOMAIN w
      /\ \A i \in S : mb.open.mode # "none" /\ WildcardOK(mb, mb.open.wildcard, w[i])
      /\ mb.open.mode = "suffix" => \A i \in S : (i + 1)..Len(w) \subseteq S
  BY <1>1, <1>4 DEF OpenSets
<1>6. SUFFICES /\ \A i \in S : mc.open.mode # "none" /\ WildcardOK(mc, mc.open.wildcard, w[i])
               /\ mc.open.mode = "suffix" => \A i \in S : (i + 1)..Len(w) \subseteq S
  BY <1>1, <1>5 DEF OpenSets, mc
<1>7. \A i \in S : w[i] \in Name
  BY <1>5
<1>8. CASE ~IsOpen(base.open)
  <2>1. mb.open.mode = "none"
    BY <1>1, <1>2, <1>8, OpenContentFacts DEF Closed
  <2> QED  BY <1>5, <2>1
<1>9. CASE IsOpen(base.open) /\ ~IsOpen(D)
  <2>1. mb.open = base.open /\ mc.open = base.open /\ base.open.wildcard \in Wildcard
    BY <1>1, <1>2, <1>9, OpenContentFacts DEF InheritedOpen
  <2>2. "##definedSibling" \notin base.open.wildcard.keywords
    BY <1>9 DEF ExcludesSiblings
  <2>3. \A q : WildcardOK(mb, base.open.wildcard, q) <=> WildcardOK(mc, base.open.wildcard, q)
    BY <2>1, <2>2, SameWildcard
  <2> QED  BY <1>5, <2>1, <2>3
<1>10. CASE IsOpen(base.open) /\ IsOpen(D)
  <2> DEFINE u == WildcardUnion(base.open.wildcard, D.wildcard)
  <2>1. /\ mb.open = base.open /\ base.open.wildcard \in Wildcard /\ D.wildcard \in Wildcard
        /\ base.open.mode \in {"suffix", "interleave"} /\ D.mode \in {"suffix", "interleave"}
    BY <1>1, <1>2, <1>10, OpenContentFacts
  <2>2. c.open = [mode |-> D.mode, wildcard |-> u]
    BY <1>1, <1>10 DEF InheritedOpen
  <2> HIDE DEF u
  <2>3. mc.open = c.open /\ mc.open.mode = D.mode /\ mc.open.wildcard = u
    BY <1>1, <1>2, <2>1, <2>2, OpenContentFacts
  <2>4. "##definedSibling" \notin base.open.wildcard.keywords
    BY <1>10 DEF ExcludesSiblings
  <2>5. ASSUME NEW i \in S PROVE WildcardOK(mc, u, w[i])
    BY <1>5, <1>7, <2>1, <2>4, WidenedWildcard DEF u
  <2>6. D.mode = "suffix" => mb.open.mode = "suffix"
    BY <1>3, <1>10, <2>1 DEF NarrowsOpen
  <2> QED  BY <1>5, <2>1, <2>3, <2>5, <2>6
<1> QED  BY <1>8, <1>9, <1>10

LEMMA NoParticleEmpties ==
    ASSUME NEW m
    PROVE  Empties(RunsFrom(m)[Expanded(NoParticle)])
<1> DEFINE p == Particle(1, 1, Group("sequence", << >>))
<1>1. p \in Particles /\ Expanded(NoParticle) = p
  BY EmptyModel DEF Expanded
<1>2. IsGroup(p.term) /\ p.term.kind = "sequence" /\ p.term.particles = << >>
  BY DEF Particle, Group, IsGroup
<1> HIDE DEF p
<1>3. GroupedStep(p, WellGrouped)
  BY <1>2 DEF GroupedStep, ToSet
<1>4. WellGrouped[Expanded(NoParticle)]
  BY <1>1, <1>3, WellGroupedFacts
<1> QED  BY <1>4, ExpandedEmpties DEF Emptiable

(* Nothing is lost when the particle of a base is extended by one that can *)
(* be left out: the merged all groups, the sequence, or the one of the two *)
(* there is.                                                               *)
LEMMA ParticleKept ==
    ASSUME NEW m, IsDeclaration(declared), ExtensionReports = {}, AddsOptional, BothAll => base.particle.max \in {0, 1},
           NEW w \in Seq(Name), NEW r \in RunsFrom(m)[Expanded(base.particle)][w]
    PROVE  /\ Within(ExtendedParticle.min, ExtendedParticle.max) /\ ExtendedParticle \in Particles \cup {NoParticle}
           /\ r \in RunsFrom(m)[Expanded(ExtendedParticle)][w]
<1> DEFINE b == base.particle
           o == own.particle
           e == ExtendedParticle
<1>1. b \in Particles \cup {NoParticle} /\ o \in Particles \cup {NoParticle}
  BY DeclaredFacts, ShallowFacts
<1>2. WellGrouped[Expanded(o)]
  BY DEF AddsOptional
<1>3. BothAll \/ Emptiable(o)
  BY DEF AddsOptional, BothAll
<1>4. \A p \in Particles \cup {NoParticle} : Within(p.min, p.max)
  <2>1. Within(NoParticle.min, NoParticle.max)
    BY DEF NoParticle, Particle, Within
  <2> QED  BY <2>1, ParticleShape
<1>5. CASE o = NoParticle
  BY <1>1, <1>4, <1>5 DEF ExtendedParticle
<1>6. CASE o # NoParticle /\ b = NoParticle
  <2>1. e = o /\ e \in Particles /\ Within(e.min, e.max)
    BY <1>1, <1>4, <1>6 DEF ExtendedParticle
  <2>2. AllGroup(NoParticle) = {}
    BY DEF AllGroup, NoParticle, Particle
  <2>3. Emptiable(o)
    BY <1>3, <1>6, <2>2 DEF BothAll
  <2>4. Empties(RunsFrom(m)[Expanded(o)])
    BY <1>1, <1>2, <2>3, ExpandedEmpties
  <2>5. w = << >>
    BY <1>6, NoParticleRuns
  <2>6. r = << >>
    <3> DEFINE h == RunsFrom(m)[Expanded(b)]
    <3>1. h \in Language /\ r \in h[w]
      BY <1>1, ExpandedFacts, RunsFromFacts
    <3> HIDE DEF h
    <3>2. r \in Seq(Taken) /\ Len(r) = Len(w)
      BY <3>1, LanguageFacts
    <3>3. Len(r) = 0
      BY <2>5, <3>2
    <3> QED  BY <3>2, <3>3, EmptyIsZero
  <2> QED  BY <2>1, <2>4, <2>5, <2>6 DEF Empties
<1>7. CASE o # NoParticle /\ b # NoParticle /\ BothAll
  <2>1. /\ b \in Particles /\ o \in Particles /\ e # NoParticle /\ e.min = o.min /\ e.max = 1
        /\ Referred(b.term).kind = "all" /\ Referred(o.term).kind = "all" /\ Referred(e.term).kind = "all"
        /\ MembersOf(o) \in Seq(Particles) /\ MembersOf(e) = MembersOf(b) \o MembersOf(o)
        /\ (CHOOSE g \in AllGroup(o) : TRUE) = Referred(o.term)
    BY <1>7, MergedShape
  <2>2. o.min = b.min
    <3>1. "all occurrence" \notin ExtensionReports
      OBVIOUS
    <3>2. AddsContent
      BY <1>7 DEF AddsContent
    <3> QED  BY <1>7, <3>1, <3>2 DEF ExtensionReports, BothAll
  <2>3. b.max \in {0, 1} /\ b.min \in Nat /\ Within(b.min, b.max)
    BY <1>7, <2>1, ParticleShape
  <2>4. Within(e.min, e.max)
    BY <2>1, <2>2, <2>3 DEF Within, Unbounded
  <2>5. e \in Particles
    BY <2>1, <2>4, ExtendedFacts
  <2>6. TermEmptiable(Referred(o.term))
    BY <1>7, <2>1 DEF AddsOptional, BothAll
  <2>7. \A i \in DOMAIN MembersOf(o) : CanBeEmpty[MembersOf(o)[i]]
    <3>1. GroupEmptiable("all", {CanBeEmpty[q] : q \in ToSet(MembersOf(o))})
      BY <2>1, <2>6 DEF TermEmptiable, MembersOf
    <3> QED  BY <2>1, <3>1, GroupEmptiableFacts
  <2>8. /\ Expanded(b) = Unfolded[b] /\ Expanded(o) = Unfolded[o] /\ Expanded(e) = Unfolded[e]
    BY <1>7, <2>1 DEF Expanded
  <2>9. ASSUME NEW p \in Particles, Referred(p.term).kind = "all" PROVE Unfolded[p].term.kind = "all"
    <3>1. p.term \notin LeafTerm
      BY <2>9, LeafFacts DEF IsLeaf
    <3> QED  BY <2>9, <3>1, UnfoldedShape
  <2>10. Unfolded[b].term.kind = "all" /\ Unfolded[o].term.kind = "all" /\ Unfolded[e].term.kind = "all"
    BY <2>1, <2>5, <2>9
  <2>11. NoneNeeded(FlattenAll[Unfolded[o]])
    <3>1. DOMAIN MembersOf(o) = 1..Len(MembersOf(o))
      BY <2>1
    <3> QED  BY <1>2, <2>1, <2>7, <2>8, <2>10, <3>1, AllNoneNeeded
  <2>12. r \in RunsFrom(m)[Unfolded[b]][w]
    BY <2>8
  <2> HIDE DEF b, o, e
  <2>13. r \in RunsFrom(m)[Unfolded[e]][w]
    BY <2>1, <2>2, <2>3, <2>5, <2>10, <2>11, <2>12, AllKeeps
  <2> QED  BY <2>4, <2>5, <2>8, <2>13 DEF e
<1>8. CASE o # NoParticle /\ b # NoParticle /\ ~BothAll
  <2>1. /\ b \in Particles /\ o \in Particles /\ e \in Particles /\ e # NoParticle
        /\ e = Particle(1, 1, Group("sequence", <<b, o>>))
    BY <1>8, SequenceShape
  <2>2. Empties(RunsFrom(m)[Expanded(o)])
    BY <1>1, <1>2, <1>3, <1>8, ExpandedEmpties
  <2>3. /\ Expanded(b) = Unfolded[b] /\ Expanded(o) = Unfolded[o] /\ Expanded(e) = Unfolded[e]
    BY <1>8, <2>1 DEF Expanded
  <2>4. r \in RunsFrom(m)[Unfolded[b]][w]
    BY <2>3
  <2>5. Within(e.min, e.max)
    BY <1>4, <2>1
  <2> HIDE DEF b, o, e
  <2>6. r \in RunsFrom(m)[Unfolded[e]][w]
    BY <2>1, <2>2, <2>3, <2>4, SequenceKeeps
  <2> QED  BY <2>1, <2>3, <2>5, <2>6 DEF e
<1> QED  BY <1>5, <1>6, <1>7, <1>8

LEMMA LeavesAreTerms ==
    \A p \in Particles : Leaves[p] \subseteq LeafTerm
<1> DEFINE S == {p \in Particles : Leaves[p] \subseteq LeafTerm}
<1>1. ASSUME NEW p \in Particles, p.term \in LeafTerm \/ (\A i \in DOMAIN MembersOf(p) : MembersOf(p)[i] \in S)
      PROVE  p \in S
  <2>1. Leaves[p] = LeavesStep(p, Leaves)
    BY LeavesUnfold
  <2>2. CASE p.term \in LeafTerm
    BY <2>1, <2>2, LeafFacts DEF LeavesStep
  <2>3. CASE p.term \notin LeafTerm
    <3>1. ~IsLeaf(Referred(p.term)) /\ MembersOf(p) \in Seq(Particles)
      BY <2>3, ParticleShape
    <3>2. \A q \in ToSet(MembersOf(p)) : Leaves[q] \subseteq LeafTerm
      BY <1>1, <2>3, <3>1, MemberOfSeq
    <3> QED  BY <2>1, <3>1, <3>2 DEF LeavesStep
  <2> QED  BY <2>2, <2>3
<1> HIDE DEF S
<1>2. Particles \subseteq S
  BY <1>1, ParticleInduction
<1> QED  BY <1>2 DEF S

LEMMA SameRunsOf ==
    ASSUME NEW m1, NEW m2, NEW p \in Particles, \A t \in Leaves[Unfolded[p]] : SameTaking(m1, m2, t)
    PROVE  RunsFrom(m1)[Unfolded[p]] = RunsFrom(m2)[Unfolded[p]]
  BY SameRuns

(* The matcher of an extension follows the particle of its base as that of *)
(* the base does.                                                          *)
LEMMA BaseFollowed ==
    ASSUME NEW m1, NEW m2, base.particle \in Particles \cup {NoParticle}, ~ExcludesSiblings(base),
           NEW w \in Seq(Name), NEW r \in RunsFrom(m1)[Expanded(base.particle)][w]
    PROVE  r \in RunsFrom(m2)[Expanded(base.particle)][w]
<1> DEFINE b == base.particle
<1>1. CASE b = NoParticle
  <2>1. w = << >>
    BY <1>1, NoParticleRuns
  <2>2. RunsFrom(m1)[Expanded(b)] \in Language
    BY ExpandedFacts, RunsFromFacts
  <2>3. r \in Seq(Taken) /\ Len(r) = 0
    <3> DEFINE h == RunsFrom(m1)[Expanded(b)]
    <3>1. h \in Language /\ r \in h[w]
      BY <2>2
    <3> HIDE DEF h
    <3>2. r \in Seq(Taken) /\ Len(r) = Len(w)
      BY <3>1, LanguageFacts
    <3> QED  BY <2>1, <3>2
  <2>4. r = << >>
    BY <2>3, EmptyIsZero
  <2>5. Empties(RunsFrom(m2)[Expanded(b)])
    BY <1>1, NoParticleEmpties
  <2> QED  BY <2>1, <2>4, <2>5 DEF Empties
<1>2. CASE b # NoParticle
  <2>1. b \in Particles /\ Expanded(b) = Unfolded[b] /\ Unfolded[b] \in Particles
    BY <1>2, UnfoldedFacts DEF Expanded
  <2>2. ASSUME NEW t \in Leaves[Unfolded[b]] PROVE SameTaking(m1, m2, t)
    <3>1. t \in LeafTerm
      BY <2>1, LeavesAreTerms
    <3>2. t.kind = "wildcard" => t.wildcard \in WildcardsOf(Expanded(b))
      BY <2>1 DEF WildcardsOf
    <3>3. t.kind = "wildcard" => "##definedSibling" \notin t.wildcard.keywords
      BY <3>2 DEF ExcludesSiblings
    <3> QED  BY <3>1, <3>3, SameLeaf
  <2>3. RunsFrom(m1)[Unfolded[b]] = RunsFrom(m2)[Unfolded[b]]
    <3> HIDE DEF b
    <3> QED  BY <2>1, <2>2, SameRunsOf
  <2> QED  BY <2>1, <2>3
<1> QED  BY <1>1, <1>2

(* What a base accepts the type that extends it accepts too, when what it  *)
(* adds can be left out.                                                   *)
THEOREM ExtensionIsWider ==
    ASSUME IsDeclaration(declared), NEW c, Extends(c), ExtensionReports = {}, ~NarrowsOpen(c), AddsOptional,
           ~ExcludesSiblings(base), BothAll => base.particle.max \in {0, 1}, NEW w \in Seq(Name), Accepts(base, w)
    PROVE  Accepts(c, w)
<1> DEFINE mb == MatcherOf(base, w)
           mc == MatcherOf(c, w)
           b == base.particle
           e == ExtendedParticle
<1>1. /\ mb.children = w /\ mb.open = Effective(base.open) /\ mb.particle = Expanded(b)
      /\ mc.children = w /\ mc.open = Effective(c.open) /\ mc.particle = Expanded(c.particle)
      /\ c.particle = e /\ c.open = InheritedOpen(DeclaredOpen)
  BY DEF MatcherOf, Matcher, Extends
<1>2. b \in Particles \cup {NoParticle} /\ base.open \in OpenContents /\ c.open \in OpenContents
  BY <1>1, DeclaredFacts, ShallowFacts
<1>3. Expanded(b) \in Particles
  BY <1>2, ExpandedFacts
<1>4. IsMatcher(mb) /\ mb.open.mode \in OpenModes /\ mc.open.mode \in OpenModes /\ mc.children \in Seq(Name)
  BY <1>1, <1>2, <1>3, OpenContentFacts DEF IsMatcher
<1>5. Match(mb).ok /\ (Accepts(c, w) <=> Match(mc).ok)
  BY DEF Accepts, Matching
<1>6. ASSUME NEW v \in Seq(Name), NEW r \in RunsFrom(mb)[Expanded(b)][v]
      PROVE  /\ Within(e.min, e.max) /\ e \in Particles \cup {NoParticle}
             /\ r \in RunsFrom(mc)[Expanded(e)][v]
  <2>1. r \in RunsFrom(mc)[Expanded(b)][v]
    BY <1>2, <1>6, BaseFollowed
  <2> HIDE DEF mc
  <2> QED  BY <2>1, ParticleKept
<1>7. Within(e.min, e.max) => \A S \in OpenSets(mb) : S \in OpenSets(mc)
  BY <1>1, OpenKept
<1> HIDE DEF mb, mc, b, e
<1>8. PICK S \in OpenSets(mb) : \E r : r \in Runs(mb)[LeftBy(mb, S)]
  <2>1. ModelRuns(mb) # {}
    BY <1>4, <1>5, AcceptsIfRuns
  <2> QED  BY <2>1, ModelRunsUnfold
<1>9. PICK r : r \in Runs(mb)[LeftBy(mb, S)]
  BY <1>8
<1>10. LeftBy(mb, S) \in Seq(Name) /\ LeftBy(mc, S) = LeftBy(mb, S)
  <2>1. LeftBy(mb, S) \in Seq(Name)
    BY <1>4, NumberingFacts
  <2> QED  BY <1>1, <2>1 DEF LeftBy
<1>11. r \in RunsFrom(mb)[Expanded(b)][LeftBy(mb, S)]
  BY <1>1, <1>9, RunsUnfold
<1>12. /\ Within(e.min, e.max) /\ e \in Particles \cup {NoParticle}
       /\ r \in RunsFrom(mc)[Expanded(e)][LeftBy(mb, S)]
  BY <1>6, <1>10, <1>11
<1>13. S \in OpenSets(mc) /\ r \in Runs(mc)[LeftBy(mc, S)]
  BY <1>1, <1>7, <1>10, <1>12, RunsUnfold
<1>14. IsMatcher(mc)
  BY <1>1, <1>4, <1>12, ExpandedFacts DEF IsMatcher
<1>15. ModelRuns(mc) # {}
  <2>1. Filled(mc, S, r) \in ModelRuns(mc)
    BY <1>13, ModelRunsUnfold
  <2> QED  BY <2>1
<1> QED  BY <1>4, <1>5, <1>14, <1>15, AcceptsIfRuns

(* What is built for an extension nothing is reported for.                 *)
ExtensionBuilt ==
    stage # "declared" /\ declared.method = "extension" /\ reported = {} =>
      IF base.simple THEN content.simple
      ELSE Extends(content) /\ ExtensionReports = {} /\ ~NarrowsOpen(content)

ElementContent == stage = "matched" => ~content.simple

LEMMA InitExtension == Init => ExtensionBuilt /\ ElementContent
  BY DEF Init, ExtensionBuilt, ElementContent

LEMMA NextExtension == ExtensionBuilt /\ ElementContent /\ [Next]_vars => ExtensionBuilt' /\ ElementContent'
<1> SUFFICES ASSUME ExtensionBuilt, ElementContent, [Next]_vars PROVE ExtensionBuilt' /\ ElementContent'
  OBVIOUS
<1> DEFINE Kept == IF base.simple THEN content.simple
                   ELSE Extends(content) /\ ExtensionReports = {} /\ ~NarrowsOpen(content)
<1>1. ASSUME NEW c, NEW reports, Built(c, reports), declared.method # "extension"
      PROVE  ExtensionBuilt' /\ ElementContent'
  BY <1>1 DEF Built, ExtensionBuilt, ElementContent
<1>2. CASE BuildAlone
  BY <1>1, <1>2 DEF BuildAlone
<1>3. CASE BuildFromSimple
  <2>1. declared' = declared /\ stage' = "built" /\ base.simple
    BY <1>3 DEF BuildFromSimple, Built
  <2>2. reported' = {} => content' = SimpleContent
    BY <1>3 DEF BuildFromSimple, Built
  <2>3. SimpleContent.simple = TRUE
    BY DEF SimpleContent, Content
  <2> QED  BY <2>1, <2>2, <2>3 DEF ExtensionBuilt, ElementContent, base
<1>4. CASE RestrictToSimple
  BY <1>1, <1>4 DEF RestrictToSimple
<1>5. CASE BuildExtension
  <2> DEFINE c == Content(ExtendedParticle, IF AddsContent THEN own.mixed ELSE base.mixed, InheritedOpen(DeclaredOpen))
  <2>1. Extends(c)
    BY DEF Extends, Content
  <2>2. /\ declared' = declared /\ stage' = "built" /\ content' = c
        /\ reported' = ExtensionReports \cup IF NarrowsOpen(c) THEN {"narrows open"} ELSE {}
    BY <1>5 DEF BuildExtension, Built
  <2> HIDE DEF c
  <2>3. reported' = {} => ExtensionReports = {} /\ ~NarrowsOpen(c)
    BY <2>2
  <2>4. ~base.simple
    BY <1>5 DEF BuildExtension
  <2>5. base' = base /\ own' = own
    BY <2>2 DEF base, own
  <2>6. Extends(content)' /\ (reported' = {} => (ExtensionReports = {})' /\ ~NarrowsOpen(content)')
    BY <2>1, <2>2, <2>3, <2>5
       DEF Extends, ExtensionReports, NarrowsOpen, ExtensionMode, ExtendedParticle, AddsContent, InheritedOpen, DeclaredOpen, MergedAll
  <2> QED  BY <2>2, <2>4, <2>5, <2>6 DEF ExtensionBuilt, ElementContent
<1>6. CASE BuildRedefined
  BY <1>1, <1>6 DEF BuildRedefined
<1>7. ASSUME declared' = declared, content' = content, stage # "declared", reported' = {} => reported = {}
      PROVE  ExtensionBuilt'
  <2>1. base' = base /\ own' = own
    BY <1>7 DEF base, own
  <2>2. stage # "declared" /\ declared.method = "extension" /\ reported = {} => Kept
    BY DEF ExtensionBuilt
  <2>3. Extends(content) => Extends(content)'
    BY <1>7, <2>1 DEF Extends, ExtendedParticle, AddsContent, InheritedOpen, DeclaredOpen, MergedAll
  <2>4. ExtensionReports' = ExtensionReports
    BY <2>1 DEF ExtensionReports, AddsContent
  <2>5. NarrowsOpen(content)' <=> NarrowsOpen(content)
    BY <1>7, <2>1 DEF NarrowsOpen, ExtensionMode
  <2>6. Kept => Kept'
    <3>1. base.simple' = base.simple /\ content.simple' = content.simple
      BY <1>7, <2>1
    <3> QED  BY <3>1, <2>3, <2>4, <2>5
  <2> QED  BY <1>7, <2>2, <2>6 DEF ExtensionBuilt
<1>8. CASE Check
  BY <1>7, <1>8 DEF Check, ElementContent
<1>9. ASSUME NEW w \in WordsFor(declared), MatchChildren(w) PROVE ExtensionBuilt' /\ ElementContent'
  BY <1>7, <1>9 DEF MatchChildren, ElementContent
<1>10. CASE UNCHANGED vars
  <2>1. UNCHANGED <<declared, content, reported, stage>>
    BY <1>10 DEF vars
  <2>2. ElementContent'
    BY <2>1 DEF ElementContent
  <2>3. CASE stage # "declared"
    BY <1>7, <2>1, <2>2, <2>3
  <2>4. CASE stage = "declared"
    BY <2>1, <2>2, <2>4 DEF ExtensionBuilt
  <2> QED  BY <2>3, <2>4
<1> QED  BY <1>2, <1>3, <1>4, <1>5, <1>6, <1>8, <1>9, <1>10 DEF Next

LEMMA ExtensionIsKept == Typed /\ Matches /\ ExtensionBuilt /\ ElementContent => ExtensionKeepsContent
<1> SUFFICES ASSUME Typed, Matches, ExtensionBuilt, ElementContent,
                    stage = "matched", declared.method = "extension", reported = {}, AddsOptional,
                    ~ExcludesSiblings(base), BothAll => base.particle.max \in {0, 1}, Accepts(base, children)
             PROVE  matched = "yes"
  BY DEF ExtensionKeepsContent, BothAll
<1>1. Extends(content) /\ ExtensionReports = {} /\ ~NarrowsOpen(content)
  BY DEF ExtensionBuilt, ElementContent
<1>2. children \in Seq(Name) /\ (Accepts(content, children) => matched = "yes")
  BY DEF Matches, Accepts
<1>3. IsDeclaration(declared)
  BY DEF Typed
<1>4. Accepts(content, children)
  BY <1>1, <1>2, <1>3, ExtensionIsWider
<1> QED  BY <1>2, <1>4

(* An extension nothing is reported for accepts the instances of its base  *)
(* that add nothing (finishExtensionParticle, inheritExtensionOpenContent).*)
THEOREM ExtensionKeeps == Spec => []ExtensionKeepsContent
<1> DEFINE Inv == Typed /\ Matches /\ ExtensionBuilt /\ ElementContent
<1>1. Init => Inv
  BY InitTyped, InitExtension
<1>2. Inv /\ [Next]_vars => Inv'
  BY NextTyped, NextExtension
<1>3. Inv => ExtensionKeepsContent
  BY ExtensionIsKept
<1> QED  BY <1>1, <1>2, <1>3, PTL DEF Spec

=============================================================================
