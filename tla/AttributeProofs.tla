---------------------------- MODULE AttributeProofs ----------------------------
(***************************************************************************)
(* Attribute wildcards and attribute uses, for every set of schemas.       *)
(* First what the relations of Wildcards say about the names admitted, for *)
(* any names and namespaces, finite or not.  Then the builder: every type  *)
(* ends with the attributes the mapping rules give it, and these stand to  *)
(* its base's as its derivation promises, whatever the order in which      *)
(* types, bases and groups are visited.                                    *)
(***************************************************************************)
EXTENDS TypeAttributes, Induction, SequenceTheorems

(* wildcardIntersect yields a wildcard.                                    *)
LEMMA IntersectType ==
    ASSUME NEW w1 \in Wildcard, NEW w2 \in Wildcard
    PROVE  WildcardIntersect(w1, w2) \in Wildcard
<1>1. NamespaceIntersection(w1, w2) \in [mode : {"any", "enumeration", "not"},
                                         namespaces : SUBSET Namespace]
  BY DEF NamespaceIntersection, Wildcard
<1> QED BY <1>1, NoWildcardAssumption DEF WildcardIntersect, Wildcard, Strict, Lax, Skip

(* wildcardUnion yields a wildcard.                                        *)
LEMMA UnionType ==
    ASSUME NEW w1 \in Wildcard, NEW w2 \in Wildcard
    PROVE  WildcardUnion(w1, w2) \in Wildcard
<1>1. NamespaceUnion(w1, w2) \in [mode : {"any", "enumeration", "not"},
                                  namespaces : SUBSET Namespace]
  BY DEF NamespaceUnion, SetUnionNot, Wildcard
<1>2. NotQNameUnionDisallowed(w1, w2) \in SUBSET Name
  BY DEF NotQNameUnionDisallowed, Wildcard
<1> QED BY <1>1, <1>2, NoWildcardAssumption DEF WildcardUnion, Wildcard, Strict, Lax, Skip

(* cos-ns-subset: whatever a wildcard admits, in any context, its super    *)
(* admits too.                                                             *)
THEOREM SubsetSound ==
    ASSUME NEW sub \in Wildcard, NEW super \in Wildcard, NEW q \in Name, NEW ctx \in Context,
           NamespaceConstraintSubset(sub, super), Allows(sub, q, ctx)
    PROVE  Allows(super, q, ctx)
<1>1. AllowsNamespace(super, NamespaceOf[q])
  BY DEF NamespaceConstraintSubset, NamespaceVarietySubset, Allows, AllowsName, AllowsNamespace,
         Wildcard
<1>2. q \notin super.notQName
  BY DEF NamespaceConstraintSubset, Allows
<1>3. \A k \in super.keywords : q \notin ctx[k]
  BY DEF NamespaceConstraintSubset, Allows
<1> QED BY <1>1, <1>2, <1>3 DEF Allows, AllowsName

(* cos-aw-intersect: the intersection admits exactly what both admit.      *)
THEOREM IntersectExact ==
    ASSUME NEW w1 \in Wildcard, NEW w2 \in Wildcard, NEW q \in Name, NEW ctx \in Context
    PROVE  Allows(WildcardIntersect(w1, w2), q, ctx) <=> Allows(w1, q, ctx) /\ Allows(w2, q, ctx)
<1> DEFINE w == WildcardIntersect(w1, w2)
<1>1. /\ w.mode = NamespaceIntersection(w1, w2).mode
      /\ w.namespaces = NamespaceIntersection(w1, w2).namespaces
      /\ w.notQName = w1.notQName \cup w2.notQName
      /\ w.keywords = w1.keywords \cup w2.keywords
  BY NoWildcardAssumption DEF WildcardIntersect
<1> HIDE DEF w
<1>2. AllowsNamespace(w, NamespaceOf[q]) <=>
        AllowsNamespace(w1, NamespaceOf[q]) /\ AllowsNamespace(w2, NamespaceOf[q])
  BY <1>1 DEF NamespaceIntersection, AllowsNamespace, Wildcard
<1>3. Allows(w, q, ctx) <=> Allows(w1, q, ctx) /\ Allows(w2, q, ctx)
  BY <1>1, <1>2 DEF Allows, AllowsName
<1> QED BY <1>3 DEF w

(* cos-aw-union: as long as no context is consulted, the union admits      *)
(* exactly what one of the two admits.                                     *)
THEOREM UnionExact ==
    ASSUME NEW w1 \in Wildcard, NEW w2 \in Wildcard, NEW q \in Name
    PROVE  AllowsName(WildcardUnion(w1, w2), q) <=> AllowsName(w1, q) \/ AllowsName(w2, q)
<1> DEFINE w == WildcardUnion(w1, w2)
<1>1. /\ w.mode = NamespaceUnion(w1, w2).mode
      /\ w.namespaces = NamespaceUnion(w1, w2).namespaces
      /\ w.notQName = NotQNameUnionDisallowed(w1, w2)
  BY NoWildcardAssumption DEF WildcardUnion
<1> HIDE DEF w
<1>2. AllowsNamespace(w, NamespaceOf[q]) <=>
        AllowsNamespace(w1, NamespaceOf[q]) \/ AllowsNamespace(w2, NamespaceOf[q])
  BY <1>1 DEF NamespaceUnion, SetUnionNot, AllowsNamespace, Wildcard
<1>3. q \in w.notQName <=> \/ q \in w1.notQName /\ ~AllowsName(w2, q)
                           \/ q \in w2.notQName /\ ~AllowsName(w1, q)
  BY <1>1 DEF NotQNameUnionDisallowed, Wildcard
<1>4. AllowsName(w, q) <=> AllowsName(w1, q) \/ AllowsName(w2, q)
  BY <1>2, <1>3 DEF AllowsName
<1> QED BY <1>4 DEF w

(* In a context, the union may admit more than the two together (a keyword *)
(* only one of them carries is dropped) but never less.                    *)
THEOREM UnionKeepsBoth ==
    ASSUME NEW w1 \in Wildcard, NEW w2 \in Wildcard, NEW q \in Name, NEW ctx \in Context,
           Allows(w1, q, ctx) \/ Allows(w2, q, ctx)
    PROVE  Allows(WildcardUnion(w1, w2), q, ctx)
<1>1. AllowsName(WildcardUnion(w1, w2), q)
  BY UnionExact DEF Allows
<1>2. WildcardUnion(w1, w2).keywords = w1.keywords \cap w2.keywords
  BY NoWildcardAssumption DEF WildcardUnion
<1> QED BY <1>1, <1>2 DEF Allows

-----------------------------------------------------------------------------
(* What is merged.                                                         *)

LEMMA SeqFacts ==
    ASSUME NEW D, NEW a \in Seq(D), NEW b \in Seq(D)
    PROVE  /\ a \o b \in Seq(D)
           /\ ToSet(a \o b) = ToSet(a) \cup ToSet(b)
           /\ ToSet(a) \subseteq D
<1>1. ToSet(a \o b) \subseteq ToSet(a) \cup ToSet(b)
  BY DEF ToSet
<1>2. ToSet(a) \subseteq ToSet(a \o b)
  BY DEF ToSet
<1>3. ASSUME NEW j \in DOMAIN b PROVE b[j] \in ToSet(a \o b)
  <2>1. Len(a) + j \in DOMAIN (a \o b) /\ (a \o b)[Len(a) + j] = b[j]
    OBVIOUS
  <2> QED  BY <2>1 DEF ToSet
<1>4. ToSet(b) \subseteq ToSet(a \o b)
  BY <1>3 DEF ToSet
<1>5. ToSet(a) \subseteq D
  BY DEF ToSet
<1>6. a \o b \in Seq(D)
  OBVIOUS
<1> QED  BY <1>1, <1>2, <1>4, <1>5, <1>6

LEMMA AppendFacts ==
    ASSUME NEW D, NEW a \in Seq(D), NEW e \in D
    PROVE  Append(a, e) \in Seq(D) /\ ToSet(Append(a, e)) = ToSet(a) \cup {e}
<1>1. /\ Append(a, e) \in Seq(D) /\ DOMAIN Append(a, e) = 1..(Len(a) + 1)
      /\ Append(a, e)[Len(a) + 1] = e /\ \A i \in 1..Len(a) : Append(a, e)[i] = a[i]
  OBVIOUS
<1>2. DOMAIN a = 1..Len(a) /\ Len(a) \in Nat
  OBVIOUS
<1>3. \A i \in 1..(Len(a) + 1) : i \in 1..Len(a) \/ i = Len(a) + 1
  BY <1>2
<1> QED  BY <1>1, <1>2, <1>3 DEF ToSet

LEMMA CountTo ==
    ASSUME NEW n \in Nat
    PROVE  IsFiniteSet(1..n) /\ Cardinality(1..n) = n
<1>1. Cardinality(1..n) = IF 1 > n THEN 0 ELSE n - 1 + 1
  BY FS_Interval
<1> QED  BY <1>1, FS_Interval

(* The inherited uses follow: all of them, and only they.                  *)
LEMMA FollowedIs ==
    ASSUME NEW D, NEW own \in Seq(D), NEW base \in Seq(D), NEW I \in SUBSET DOMAIN base
    PROVE  /\ Followed(own, base, I) \in Seq(D)
           /\ ToSet(Followed(own, base, I)) = ToSet(own) \cup {base[i] : i \in I}
<1> DEFINE n == Len(base)
           N == Cardinality(I)
           Upto(i) == {j \in I : j <= i}
           r == [i \in I |-> Cardinality(Upto(i))]
           place(k) == CHOOSE i \in I : Cardinality(Upto(i)) = k
           rest == [k \in 1..N |-> base[place(k)]]
<1>1. n \in Nat /\ I \subseteq 1..n
  OBVIOUS
<1>2. IsFiniteSet(1..n)
  BY <1>1, FS_Interval
<1>3. IsFiniteSet(I) /\ N \in Nat
  BY <1>1, <1>2, FS_Subset, FS_CardinalityType
<1>4. IsFiniteSet(1..N) /\ Cardinality(1..N) = N
  BY <1>3, CountTo
<1>5. ASSUME NEW i \in I PROVE /\ IsFiniteSet(Upto(i)) /\ Cardinality(Upto(i)) \in 1..N
  <2>1. Upto(i) \in SUBSET I
    OBVIOUS
  <2>2. IsFiniteSet(Upto(i)) /\ Cardinality(Upto(i)) <= N
    BY <2>1, <1>3, FS_Subset
  <2>3. i \in Upto(i)
    BY <1>1
  <2>4. Cardinality(Upto(i)) \in Nat /\ Cardinality(Upto(i)) # 0
    BY <2>2, <2>3, FS_CardinalityType, FS_EmptySet
  <2> QED  BY <2>2, <2>4, <1>3
<1>6. ASSUME NEW i \in I, NEW j \in I, i < j, Cardinality(Upto(i)) = Cardinality(Upto(j)) PROVE FALSE
  <2>1. i \in Nat /\ j \in Nat
    BY <1>1
  <2>2. Upto(i) \in SUBSET Upto(j)
    BY <2>1, <1>1, <1>6
  <2>3. Upto(i) = Upto(j)
    BY <2>2, <1>5, <1>6, FS_Subset
  <2>4. j \in Upto(j) /\ j \notin Upto(i)
    BY <2>1, <1>6
  <2> QED  BY <2>3, <2>4
<1>7. r \in Injection(I, 1..N)
  <2>1. r \in [I -> 1..N]
    BY <1>5
  <2>2. ASSUME NEW i \in I, NEW j \in I, r[i] = r[j] PROVE i = j
    <3>1. i \in Nat /\ j \in Nat
      BY <1>1
    <3>2. Cardinality(Upto(i)) = Cardinality(Upto(j))
      BY <2>2
    <3> QED  BY <3>1, <3>2, <1>6
  <2> QED  BY <2>1, <2>2 DEF Injection, IsInjective
<1>8. r \in Surjection(I, 1..N)
  BY <1>3, <1>4, <1>7, FS_Injection
<1>9. \A k \in 1..N : \E i \in I : Cardinality(Upto(i)) = k
  <2>1. \A k \in 1..N : \E i \in I : r[i] = k
    BY <1>8 DEF Surjection
  <2> QED  BY <2>1
<1>10. \A k \in 1..N : place(k) \in I
  BY <1>9
<1>11. \A i \in I : place(Cardinality(Upto(i))) = i
  <2> SUFFICES ASSUME NEW i \in I PROVE place(Cardinality(Upto(i))) = i
    OBVIOUS
  <2>1. PICK j \in I : j = place(Cardinality(Upto(i))) /\ Cardinality(Upto(j)) = Cardinality(Upto(i))
    OBVIOUS
  <2>2. i \in Nat /\ j \in Nat
    BY <1>1
  <2> QED  BY <2>1, <2>2, <1>6
<1> HIDE DEF place, Upto, N, n
<1>12. rest \in Seq(D) /\ DOMAIN rest = 1..N
  <2>1. \A i \in I : base[i] \in D
    OBVIOUS
  <2>2. \A k \in 1..N : rest[k] \in D
    BY <1>10, <2>1
  <2> QED  BY <1>3, <2>2
<1>13. ToSet(rest) = {base[i] : i \in I}
  <2>1. \A k \in 1..N : rest[k] \in {base[i] : i \in I}
    BY <1>10
  <2>2. ASSUME NEW i \in I PROVE base[i] \in ToSet(rest)
    <3>1. Cardinality(Upto(i)) \in 1..N /\ rest[Cardinality(Upto(i))] = base[i]
      BY <1>5, <1>11
    <3> QED  BY <3>1, <1>12 DEF ToSet
  <2> QED  BY <2>1, <2>2, <1>12 DEF ToSet
<1>14. Followed(own, base, I) = own \o rest
  BY DEF Followed, place, Upto, N
<1> HIDE DEF rest
<1> QED  BY <1>12, <1>13, <1>14, SeqFacts

(* Without repetition a name stands at one place.                          *)
LEMMA NamedOnce ==
    ASSUME NEW uses \in Seq(AttributeUse), ~RepeatsName(uses)
    PROVE  \A i, j \in 1..Len(uses) : uses[i].name = uses[j].name => i = j
<1> DEFINE n == Len(uses)
           f == [i \in 1..n |-> uses[i].name]
<1>1. n \in Nat /\ DOMAIN uses = 1..n
  OBVIOUS
<1>2. IsFiniteSet(1..n) /\ Cardinality(1..n) = n
  BY <1>1, CountTo
<1>3. f \in Surjection(1..n, NamesOf(uses))
  BY <1>1 DEF NamesOf, Surjection
<1>4. Cardinality(NamesOf(uses)) = Cardinality(1..n)
  BY <1>2 DEF RepeatsName
<1>5. f \in Injection(1..n, NamesOf(uses))
  BY <1>2, <1>3, <1>4, FS_Surjection
<1>6. \A i, j \in 1..n : f[i] = f[j] => i = j
  BY <1>5 DEF Injection, IsInjective
<1> QED  BY <1>6

-----------------------------------------------------------------------------
(* Along the bases.                                                        *)

(* A function that determines its value at a type from its value at the    *)
(* type's base exists: approximations of it agree, and can be extended.    *)
Step(s, F, a, f, t) == f[t] = F[t][IF s.base[t] = AnyType THEN a ELSE f[s.base[t]]]

Approximates(s, F, a, D, f, K) ==
    /\ K \in SUBSET Type /\ f \in [K -> D]
    /\ \A t \in K : s.base[t] \in K \cup {AnyType} /\ Step(s, F, a, f, t)

LEMMA Agree ==
    ASSUME NEW s \in Schemas, NEW D, NEW a \in D, NEW F \in [Type -> [D -> D]],
           NEW f, NEW K, Approximates(s, F, a, D, f, K), NEW g, NEW L, Approximates(s, F, a, D, g, L)
    PROVE  \A t \in K \cap L : f[t] = g[t]
<1> DEFINE S == {t \in K \cap L : f[t] # g[t]}
<1>1. IsSchema(s) /\ AnyType \notin Type
  BY SchemasAssumption
<1> SUFFICES ASSUME S # {} PROVE FALSE
  OBVIOUS
<1>2. S \in SUBSET Type
  BY DEF Approximates
<1>3. PICK t \in S : s.base[t] \notin S
  BY <1>1, <1>2 DEF IsSchema
<1>4. s.base[t] = AnyType \/ (s.base[t] \in K \cap L /\ f[s.base[t]] = g[s.base[t]])
  BY <1>1, <1>3 DEF Approximates
<1>5. f[t] = g[t]
  BY <1>1, <1>3, <1>4 DEF Approximates, Step
<1> QED  BY <1>3, <1>5

LEMMA AlongBases ==
    ASSUME NEW s \in Schemas, NEW D, NEW a \in D, NEW F \in [Type -> [D -> D]]
    PROVE  \E f \in [Type -> D] : \A t \in Type : Step(s, F, a, f, t)
<1> DEFINE A(f, K) == Approximates(s, F, a, D, f, K)
           S == {t \in Type : ~\E f, K : A(f, K) /\ t \in K}
           value(t) == CHOOSE d : \E f, K : A(f, K) /\ t \in K /\ f[t] = d
           h == [t \in Type |-> value(t)]
<1>1. IsSchema(s) /\ AnyType \notin Type
  BY SchemasAssumption
<1>2. ASSUME S # {} PROVE FALSE
  <2>1. PICK t \in S : s.base[t] \notin S
    BY <1>1, <1>2 DEF IsSchema
  <2>2. s.base[t] \in Type \cup {AnyType}
    BY <1>1, <2>1 DEF IsSchema
  <2>3. \E f, K : A(f, K) /\ s.base[t] \in K \cup {AnyType}
    <3>1. CASE s.base[t] = AnyType
      <4>1. A([x \in {} |-> a], {})
        BY DEF Approximates
      <4> QED  BY <3>1, <4>1
    <3>2. CASE s.base[t] \in Type
      BY <3>2, <2>1
    <3> QED  BY <2>2, <3>1, <3>2
  <2>4. PICK f, K : A(f, K) /\ s.base[t] \in K \cup {AnyType}
    BY <2>3
  <2>5. t \notin K
    BY <2>1, <2>4
  <2>6. s.base[t] # t
    BY <1>1, <2>4, <2>5, <2>1
  <2> DEFINE v == F[t][IF s.base[t] = AnyType THEN a ELSE f[s.base[t]]]
             g == [x \in K \cup {t} |-> IF x = t THEN v ELSE f[x]]
  <2>7. f \in [K -> D] /\ K \in SUBSET Type /\ t \in Type
    BY <2>1, <2>4 DEF Approximates
  <2>8. v \in D
    <3>1. (IF s.base[t] = AnyType THEN a ELSE f[s.base[t]]) \in D
      BY <2>4, <2>7
    <3> QED  BY <2>7, <3>1
  <2> HIDE DEF v
  <2>9. g \in [K \cup {t} -> D] /\ g[t] = v /\ \A x \in K : g[x] = f[x]
    BY <2>5, <2>7, <2>8
  <2> HIDE DEF g
  <2>10. Step(s, F, a, g, t)
    BY <2>4, <2>6, <2>9 DEF Step, v
  <2>11. ASSUME NEW x \in K PROVE s.base[x] \in K \cup {AnyType} /\ Step(s, F, a, g, x)
    <3>1. s.base[x] \in K \cup {AnyType} /\ Step(s, F, a, f, x)
      BY <2>4 DEF Approximates
    <3> QED  BY <3>1, <2>9 DEF Step
  <2>12. A(g, K \cup {t})
    BY <2>4, <2>7, <2>9, <2>10, <2>11 DEF Approximates
  <2> QED  BY <2>1, <2>12
<1>3. \A t \in Type : \E f, K : A(f, K) /\ t \in K
  BY <1>2
<1>4. ASSUME NEW f, NEW K, A(f, K), NEW t \in K PROVE value(t) = f[t]
  <2>1. \E d : \E g, L : A(g, L) /\ t \in L /\ g[t] = d
    BY <1>4
  <2>2. PICK g, L : A(g, L) /\ t \in L /\ g[t] = value(t)
    BY <2>1
  <2> QED  BY <1>4, <2>2, Agree
<1>5. ASSUME NEW t \in Type PROVE h[t] \in D /\ Step(s, F, a, h, t)
  <2>1. PICK f, K : A(f, K) /\ t \in K
    BY <1>3
  <2>2. f \in [K -> D] /\ K \subseteq Type /\ s.base[t] \in K \cup {AnyType} /\ Step(s, F, a, f, t)
    BY <2>1 DEF Approximates
  <2>3. \A x \in K : value(x) = f[x]
    BY <2>1, <1>4
  <2> HIDE DEF value, A
  <2>4. \A x \in K : h[x] = f[x]
    BY <2>2, <2>3
  <2> HIDE DEF h
  <2>5. h[t] = f[t]
    BY <2>1, <2>4
  <2>6. Step(s, F, a, h, t)
    BY <2>2, <2>4, <2>5 DEF Step
  <2> QED  BY <2>1, <2>2, <2>5, <2>6
<1> HIDE DEF value
<1>6. h \in [Type -> D]
  BY <1>5
<1> HIDE DEF h
<1> QED  BY <1>5, <1>6

(* What the mapping rules say, type by type.                               *)
Inherited(s, t) == IF s.base[t] = AnyType THEN {} ELSE MappedUses(s)[s.base[t]]

LEMMA LocalType ==
    ASSUME NEW s \in Schemas, NEW t \in Type
    PROVE  Local(s, t) \in SUBSET AttributeUse
<1>1. s.children \in [Owner -> Seq(AttributeChild)] /\ s.defaults \in Group \cup {NoGroup}
  BY SchemasAssumption DEF IsSchema
<1>2. Declarers(s, t) \subseteq Owner
  BY <1>1 DEF Declarers, GroupsOf, Owner, TakesDefaults
<1>3. ASSUME NEW o \in Owner, NEW c \in Members(s, o, "attribute") PROVE c.use \in AttributeUse
  BY <1>1, <1>3 DEF Members, ToSet, AttributeChild
<1> QED  BY <1>2, <1>3 DEF Local

LEMMA MappedUsesIs ==
    ASSUME NEW s \in Schemas
    PROVE  /\ MappedUses(s) \in [Type -> SUBSET AttributeUse]
           /\ \A t \in Type :
                MappedUses(s)[t] =
                  Local(s, t) \cup (IF Extends(s, t) THEN Inherited(s, t)
                                    ELSE {u \in Inherited(s, t) :
                                            u.name \notin Prohibited(s, t) \cup {x.name : x \in Local(s, t)}})
<1> DEFINE D == SUBSET AttributeUse
           G(t, inh) == Local(s, t) \cup (IF Extends(s, t) THEN inh
                                          ELSE {u \in inh : u.name \notin Prohibited(s, t) \cup {x.name : x \in Local(s, t)}})
           F == [t \in Type |-> [inh \in D |-> G(t, inh)]]
           Body(f) == [t \in Type |-> G(t, IF s.base[t] = AnyType THEN {} ELSE f[s.base[t]])]
<1>1. F \in [Type -> [D -> D]] /\ {} \in D
  BY LocalType
<1>2. PICK f \in [Type -> D] : \A t \in Type : Step(s, F, {}, f, t)
  BY <1>1, AlongBases
<1>3. s.base \in [Type -> Type \cup {AnyType}]
  BY SchemasAssumption DEF IsSchema
<1> HIDE DEF G, D
<1>4. ASSUME NEW t \in Type PROVE f[t] = G(t, IF s.base[t] = AnyType THEN {} ELSE f[s.base[t]])
  <2>1. (IF s.base[t] = AnyType THEN {} ELSE f[s.base[t]]) \in D
    BY <1>1, <1>2, <1>3
  <2> QED  BY <1>2, <2>1 DEF Step
<1>5. f = Body(f)
  BY <1>4, <1>2
<1> HIDE DEF Body
<1>6. MappedUses(s) = CHOOSE uses : uses = Body(uses)
  BY DEF MappedUses, Body, G
<1>7. MappedUses(s) = Body(MappedUses(s))
  BY <1>5, <1>6
<1>8. \A t \in Type : MappedUses(s)[t] = G(t, Inherited(s, t))
  BY <1>7 DEF Body, Inherited
<1>9. MappedUses(s) \in [Type -> D]
  <2> SUFFICES \A t \in Type : MappedUses(s)[t] \in D
    BY <1>7 DEF Body
  <2> DEFINE S == {t \in Type : MappedUses(s)[t] \notin D}
  <2> SUFFICES ASSUME S # {} PROVE FALSE
    OBVIOUS
  <2>1. PICK t \in S : s.base[t] \notin S
    BY SchemasAssumption DEF IsSchema
  <2>2. Inherited(s, t) \in D
    BY <2>1, <1>1, <1>3 DEF Inherited
  <2>3. F[t][Inherited(s, t)] = G(t, Inherited(s, t)) /\ F[t][Inherited(s, t)] \in D
    BY <2>1, <2>2, <1>1
  <2> QED  BY <2>1, <2>3, <1>8
<1> QED  BY <1>8, <1>9 DEF G, D

InheritedNames(s, t) == IF s.base[t] = AnyType THEN Name ELSE MappedNames(s)[s.base[t]]

Complete(W) == IF W = {} THEN {} ELSE {q \in Name : \A w \in W : AllowsName(w, q)}

LEMMA MappedNamesIs ==
    ASSUME NEW s \in Schemas
    PROVE  \A t \in Type :
              MappedNames(s)[t] = Complete(Wildcards(s, t))
                                  \cup (IF ~Extends(s, t) THEN {} ELSE InheritedNames(s, t))
<1> DEFINE D == SUBSET Name
           G(t, inh) == Complete(Wildcards(s, t)) \cup (IF ~Extends(s, t) THEN {} ELSE inh)
           F == [t \in Type |-> [inh \in D |-> G(t, inh)]]
           Body(f) == [t \in Type |-> G(t, IF s.base[t] = AnyType THEN Name ELSE f[s.base[t]])]
<1>1. F \in [Type -> [D -> D]] /\ Name \in D
  BY DEF Complete
<1>2. PICK f \in [Type -> D] : \A t \in Type : Step(s, F, Name, f, t)
  BY <1>1, AlongBases
<1>3. s.base \in [Type -> Type \cup {AnyType}]
  BY SchemasAssumption DEF IsSchema
<1> HIDE DEF G, D
<1>4. ASSUME NEW t \in Type PROVE f[t] = G(t, IF s.base[t] = AnyType THEN Name ELSE f[s.base[t]])
  <2>1. (IF s.base[t] = AnyType THEN Name ELSE f[s.base[t]]) \in D
    BY <1>1, <1>2, <1>3
  <2> QED  BY <1>2, <2>1 DEF Step
<1>5. f = Body(f)
  BY <1>4, <1>2
<1> HIDE DEF Body
<1>6. MappedNames(s) = CHOOSE names : names = Body(names)
  <2>1. \A names : Body(names) =
          [t \in Type |->
            (IF Wildcards(s, t) = {} THEN {} ELSE {q \in Name : \A w \in Wildcards(s, t) : AllowsName(w, q)})
            \cup (IF ~Extends(s, t) THEN {} ELSE IF s.base[t] = AnyType THEN Name ELSE names[s.base[t]])]
    BY DEF Body, G, Complete
  <2> QED  BY <2>1 DEF MappedNames
<1>7. MappedNames(s) = Body(MappedNames(s))
  BY <1>5, <1>6
<1>8. \A t \in Type : MappedNames(s)[t] = G(t, InheritedNames(s, t))
  BY <1>7 DEF Body, InheritedNames
<1> QED  BY <1>8 DEF G

(* A type's ancestors are itself and its base's.                           *)
LEMMA AncestorsAre ==
    ASSUME NEW s \in Schemas, NEW t \in Type
    PROVE  /\ t \in Ancestors(s, t)
           /\ s.base[t] \in Type => Ancestors(s, s.base[t]) \subseteq Ancestors(s, t)
<1>1. AnyType \notin Type
  BY SchemasAssumption
<1> QED  BY <1>1 DEF Ancestors

-----------------------------------------------------------------------------
(* Along the references to groups.                                         *)
Whole(s, o) == {o} \cup GroupsOf(s, o)

LEMMA RefersToGroups ==
    ASSUME NEW s \in Schemas, NEW o \in Owner
    PROVE  Refers(s, o) \subseteq Group
<1>1. s.children \in [Owner -> Seq(AttributeChild)]
  BY SchemasAssumption DEF IsSchema
<1>2. ASSUME NEW c \in Members(s, o, "group") PROVE c.ref \in Group
  BY <1>1 DEF Members, ToSet, AttributeChild
<1> QED  BY <1>2 DEF Refers

LEMMA GroupsUnfold ==
    ASSUME NEW s \in Schemas, NEW o \in Owner
    PROVE  GroupsOf(s, o) = UNION {Whole(s, r) : r \in Refers(s, o)}
<1>1. Refers(s, o) \subseteq Group /\ \A g \in Group : Refers(s, g) \subseteq Group
  BY RefersToGroups DEF Owner
<1> DEFINE K == UNION {Whole(s, r) : r \in Refers(s, o)}
<1>2. \A r \in Refers(s, o) : GroupsOf(s, r) \subseteq GroupsOf(s, o)
  BY <1>1 DEF GroupsOf
<1>3. Refers(s, o) \subseteq GroupsOf(s, o)
  BY <1>1 DEF GroupsOf
<1>4. K \subseteq GroupsOf(s, o)
  BY <1>2, <1>3 DEF Whole
<1>5. K \in SUBSET Group
  BY <1>1 DEF Whole, GroupsOf
<1>6. Refers(s, o) \subseteq K
  BY DEF Whole
<1>7. ASSUME NEW h \in K PROVE Refers(s, h) \subseteq K
  <2>1. PICK r \in Refers(s, o) : h \in Whole(s, r)
    OBVIOUS
  <2>2. Refers(s, h) \subseteq GroupsOf(s, r)
    <3>1. CASE h = r
      BY <3>1, <1>1, <2>1 DEF GroupsOf
    <3>2. CASE h \in GroupsOf(s, r)
      BY <3>2, <1>1, <2>1 DEF GroupsOf
    <3> QED  BY <2>1, <3>1, <3>2 DEF Whole
  <2> QED  BY <2>1, <2>2 DEF Whole
<1> HIDE DEF K
<1>8. GroupsOf(s, o) \subseteq K
  BY <1>5, <1>6, <1>7 DEF GroupsOf
<1> QED  BY <1>4, <1>8 DEF K

(* What one child contributes, and what all owners in a set declare.       *)
DeclaredBy(s, O) == {c.use : c \in UNION {Members(s, o, "attribute") : o \in O}}
AnyBy(s, O) == {c.wildcard : c \in UNION {Members(s, o, "any") : o \in O}}

GivesUses(s, c) == IF c.kind = "attribute" THEN {c.use}
                   ELSE IF c.kind = "group" THEN DeclaredBy(s, Whole(s, c.ref)) ELSE {}
GivesAny(s, c)  == IF c.kind = "any" THEN {c.wildcard}
                   ELSE IF c.kind = "group" THEN AnyBy(s, Whole(s, c.ref)) ELSE {}

UsesOf(s, C) == UNION {GivesUses(s, c) : c \in C}
AnyOf(s, C)  == UNION {GivesAny(s, c) : c \in C}

LEMMA WholeByChildren ==
    ASSUME NEW s \in Schemas, NEW o \in Owner
    PROVE  /\ DeclaredBy(s, Whole(s, o)) = UsesOf(s, ToSet(s.children[o]))
           /\ AnyBy(s, Whole(s, o)) = AnyOf(s, ToSet(s.children[o]))
<1> DEFINE C == ToSet(s.children[o])
<1>1. Whole(s, o) = {o} \cup UNION {Whole(s, r) : r \in Refers(s, o)}
  BY GroupsUnfold DEF Whole
<1>2. Refers(s, o) = {c.ref : c \in {d \in C : d.kind = "group"}}
  BY DEF Refers, Members
<1>3. DeclaredBy(s, Whole(s, o)) = DeclaredBy(s, {o}) \cup UNION {DeclaredBy(s, Whole(s, r)) : r \in Refers(s, o)}
  BY <1>1 DEF DeclaredBy
<1>4. DeclaredBy(s, {o}) = {c.use : c \in {d \in C : d.kind = "attribute"}}
  BY DEF DeclaredBy, Members
<1>5. AnyBy(s, Whole(s, o)) = AnyBy(s, {o}) \cup UNION {AnyBy(s, Whole(s, r)) : r \in Refers(s, o)}
  BY <1>1 DEF AnyBy
<1>6. AnyBy(s, {o}) = {c.wildcard : c \in {d \in C : d.kind = "any"}}
  BY DEF AnyBy, Members
<1> HIDE DEF C
<1>7. DeclaredBy(s, Whole(s, o)) = UsesOf(s, C)
  BY <1>2, <1>3, <1>4, ZenonT(20) DEF UsesOf, GivesUses
<1>8. AnyBy(s, Whole(s, o)) = AnyOf(s, C)
  BY <1>2, <1>5, <1>6, ZenonT(20) DEF AnyOf, GivesAny
<1> QED  BY <1>7, <1>8 DEF C

(* ... and with the default group.                                         *)
LEMMA DeclarersAre ==
    ASSUME NEW s \in Schemas, NEW t \in Type
    PROVE  /\ Local(s, t) = DeclaredBy(s, Whole(s, t))
                            \cup (IF TakesDefaults(s, t) THEN DeclaredBy(s, Whole(s, s.defaults)) ELSE {})
           /\ ~TakesDefaults(s, t) => Wildcards(s, t) = AnyBy(s, Whole(s, t))
  BY DEF Local, Wildcards, Declarers, DeclaredBy, AnyBy, Whole

(* A wildcard that stands for a set of them: what all admit, or none.      *)
Meets(wc, W) ==
    /\ wc = NoWildcard <=> W = {}
    /\ wc # NoWildcard => \A q \in Name : AllowsName(wc, q) <=> \A w \in W : AllowsName(w, q)

LEMMA IntersectNames ==
    ASSUME NEW w1 \in Wildcard, NEW w2 \in Wildcard, NEW q \in Name
    PROVE  AllowsName(WildcardIntersect(w1, w2), q) <=> AllowsName(w1, q) /\ AllowsName(w2, q)
<1> DEFINE ctx == [k \in Keyword |-> {}]
<1>1. ctx \in Context
  BY DEF Context
<1>2. ASSUME NEW w \in Wildcard PROVE Allows(w, q, ctx) <=> AllowsName(w, q)
  BY DEF Allows, Wildcard
<1> HIDE DEF ctx
<1> QED  BY <1>1, <1>2, IntersectExact, IntersectType

LEMMA MeetsBoth ==
    ASSUME NEW w1 \in Wildcard \cup {NoWildcard}, NEW w2 \in Wildcard \cup {NoWildcard},
           NEW W1, NEW W2, Meets(w1, W1), Meets(w2, W2)
    PROVE  /\ WildcardIntersect(w1, w2) \in Wildcard \cup {NoWildcard}
           /\ Meets(WildcardIntersect(w1, w2), W1 \cup W2)
<1>1. CASE w1 = NoWildcard
  BY <1>1 DEF WildcardIntersect, Meets
<1>2. CASE w2 = NoWildcard
  BY <1>2 DEF WildcardIntersect, Meets
<1>3. CASE w1 # NoWildcard /\ w2 # NoWildcard
  <2>1. WildcardIntersect(w1, w2) \in Wildcard /\ WildcardIntersect(w1, w2) # NoWildcard
    BY <1>3, IntersectType, NoWildcardAssumption
  <2>2. \A q \in Name : AllowsName(WildcardIntersect(w1, w2), q) <=> AllowsName(w1, q) /\ AllowsName(w2, q)
    BY <1>3, IntersectNames
  <2> QED  BY <1>3, <2>1, <2>2 DEF Meets
<1> QED  BY <1>1, <1>2, <1>3

LEMMA MeetsNothing == Meets(NoWildcard, {})
  BY DEF Meets

LEMMA MeetsOne ==
    ASSUME NEW w \in Wildcard
    PROVE  Meets(w, {w})
  BY NoWildcardAssumption DEF Meets

-----------------------------------------------------------------------------
(* The shape of the traversal.                                             *)
Attributes == [uses : Seq(AttributeUse), wc : Wildcard \cup {NoWildcard}]

Activation == [owner : Owner, stage : {"base", "children", "defaults"}, pos : Nat \ {0},
               uses : Seq(AttributeUse), wc : Wildcard \cup {NoWildcard}, prohibited : SUBSET Name]

TypeOK ==
    /\ schema \in Schemas
    /\ ctOrder \in Seq(Type) /\ drained \in Nat
    /\ ctDone \in SUBSET Type
    /\ stack \in Seq(Activation)
    /\ attrGroups \in [DOMAIN attrGroups -> Attributes] /\ DOMAIN attrGroups \subseteq Group
    /\ result \in [DOMAIN result -> Attributes] /\ AnyType \in DOMAIN result

(* The types finished: marked, and no longer on the stack.                 *)
Done == {t \in ctDone : \A i \in 1..Len(stack) : stack[i].owner # t}

(* Below an activation of a type are types that wait for it as their base. *)
Chain ==
    \A j \in 1..Len(stack) : stack[j].owner \in Type =>
        /\ \A i \in 1..(j - 1) : stack[i].owner \in Type /\ stack[i].stage = "base"
        /\ j > 1 => schema.base[stack[j - 1].owner] = stack[j].owner

BaseDone(t) == schema.base[t] \in Done \cup {AnyType}

(* What an activation has got to.                                          *)
Placed(f) ==
    /\ f.pos \in 1..(Len(schema.children[f.owner]) + 1)
    /\ f.owner \in Type  => f.owner \in ctDone
    /\ f.owner \in Group => f.stage = "children"
    /\ f.stage # "base" /\ f.owner \in Type => BaseDone(f.owner)
    /\ f.stage = "defaults" => f.owner \in DOMAIN result /\ f.pos = Len(schema.children[f.owner]) + 1

Shape ==
    /\ TypeOK
    /\ Chain
    /\ \A i \in 1..Len(stack) : Placed(stack[i])
    /\ \A t \in Done : t \in DOMAIN result /\ BaseDone(t)

(* What the operations on the stack do.                                    *)
Pushed(f) ==
    /\ Len(stack') = Len(stack) + 1 /\ stack'[Len(stack) + 1] = f
    /\ \A i \in 1..Len(stack) : stack'[i] = stack[i]
Continued(f) ==
    /\ Len(stack') = Len(stack) /\ stack'[Len(stack)] = f
    /\ \A i \in 1..(Len(stack) - 1) : stack'[i] = stack[i]
Popped ==
    /\ Len(stack') = Len(stack) - 1
    /\ \A i \in 1..(Len(stack) - 1) : stack'[i] = stack[i]

LEMMA StackOps ==
    ASSUME TypeOK
    PROVE  /\ \A f \in Activation : Push(f) => stack' \in Seq(Activation) /\ Pushed(f)
           /\ stack # << >> => /\ Len(stack) \in Nat \ {0} /\ Top \in Activation
                               /\ Top = stack[Len(stack)]
                               /\ \A f \in Activation : Continue(f) => stack' \in Seq(Activation) /\ Continued(f)
                               /\ Pop => stack' \in Seq(Activation) /\ Popped
<1>1. stack \in Seq(Activation)
  BY DEF TypeOK
<1>2. \A f \in Activation : Push(f) => stack' \in Seq(Activation) /\ Pushed(f)
  BY <1>1 DEF Push, Pushed
<1>3. ASSUME stack # << >>
      PROVE  /\ Len(stack) \in Nat \ {0} /\ Top \in Activation /\ Top = stack[Len(stack)]
             /\ Front(stack) \in Seq(Activation) /\ Len(Front(stack)) = Len(stack) - 1
             /\ \A i \in 1..(Len(stack) - 1) : Front(stack)[i] = stack[i]
  <2>1. Len(stack) \in Nat \ {0} /\ stack[Len(stack)] \in Activation
    BY <1>1, <1>3
  <2>2. /\ Front(stack) \in Seq(Activation) /\ Len(Front(stack)) = Len(stack) - 1
        /\ \A i \in 1..(Len(stack) - 1) : Front(stack)[i] = stack[i]
    <3> DEFINE m == Len(stack) - 1
               rest == SubSeq(stack, 1, m)
    <3>1. m \in Nat /\ \A i \in 1..m : i \in 1..Len(stack) /\ stack[i] \in Activation
      BY <1>1, <2>1
    <3>2. Front(stack) = rest
      BY DEF Front
    <3> HIDE DEF m
    <3>3. /\ rest \in Seq(Activation) /\ Len(rest) = (IF 1 <= m THEN m - 1 + 1 ELSE 0)
          /\ \A i \in 1..(m - 1 + 1) : rest[i] = stack[1 + i - 1]
      BY <3>1, SubSeqProperties
    <3> HIDE DEF rest
    <3>4. Len(rest) = m /\ m - 1 + 1 = m /\ \A i \in 1..m : 1 + i - 1 = i
      BY <3>1, <3>3
    <3>5. \A i \in 1..m : rest[i] = stack[i]
      BY <3>3, <3>4
    <3> QED  BY <3>2, <3>3, <3>4, <3>5 DEF m
  <2> QED  BY <2>1, <2>2 DEF Top
<1>4. ASSUME stack # << >>, NEW f \in Activation, Continue(f) PROVE stack' \in Seq(Activation) /\ Continued(f)
  BY <1>3, <1>4 DEF Continue, Continued
<1>5. ASSUME stack # << >>, Pop PROVE stack' \in Seq(Activation) /\ Popped
  BY <1>3, <1>5 DEF Pop, Popped
<1> QED  BY <1>2, <1>3, <1>4, <1>5

LEMMA FrameTypes ==
    ASSUME NEW o \in Owner, NEW stage \in {"base", "children", "defaults"}
    PROVE  /\ Frame(o, stage) \in Activation
           /\ Frame(o, stage).owner = o /\ Frame(o, stage).stage = stage /\ Frame(o, stage).pos = 1
           /\ Frame(o, stage).uses = << >> /\ Frame(o, stage).wc = NoWildcard
           /\ Frame(o, stage).prohibited = {}
  BY DEF Frame, Activation

LEMMA InitShape == Init => Shape
<1> SUFFICES ASSUME Init PROVE Shape
  OBVIOUS
<1>1. AnyWildcard \in Wildcard
  BY DEF AnyWildcard, Wildcard, Lax, Strict, Skip, Keyword
<1>2. TypeOK
  BY <1>1, SchemasAssumption DEF Init, TypeOK, IsSchema, Attributes
<1>3. Len(stack) = 0 /\ ctDone = {}
  BY DEF Init
<1> QED  BY <1>2, <1>3 DEF Shape, Chain, Done

(* Nothing that is finished is undone by a step that keeps the results and *)
(* puts on the stack only types not marked before.                         *)
LEMMA DoneKept ==
    ASSUME Shape, TypeOK', ctDone \subseteq ctDone', schema' = schema,
           \A i \in 1..Len(stack') :
              stack'[i].owner \in ctDone => \E j \in 1..Len(stack) : stack'[i].owner = stack[j].owner
    PROVE  /\ Done \subseteq Done'
           /\ \A t \in Type : BaseDone(t) => BaseDone(t)'
  BY DEF Done, BaseDone, Shape

LEMMA PlacedKept ==
    ASSUME NEW j, NEW i, Placed(stack[j]), stack'[i] = stack[j],
           schema' = schema, ctDone \subseteq ctDone', DOMAIN result \subseteq DOMAIN result',
           \A t \in Type : BaseDone(t) => BaseDone(t)'
    PROVE  Placed(stack[i])'
  BY DEF Placed

(* A type that is pushed as a base.                                        *)
LEMMA ShapePushType ==
    ASSUME Shape, NEW t \in Type, t \notin ctDone, Push(Frame(t, "base")), ctDone' = Mark(t),
           stack = << >> \/ (At("base") /\ Top.owner \in Type /\ schema.base[Top.owner] = t),
           ctOrder' \in Seq(Type), drained' \in Nat,
           UNCHANGED <<schema, attrGroups, result>>
    PROVE  Shape'
<1>1. Pushed(Frame(t, "base")) /\ stack' \in Seq(Activation)
  BY StackOps, FrameTypes DEF Shape, Owner
<1>2. ctDone' = ctDone \cup {t}
  BY DEF Mark
<1>3. TypeOK'
  BY <1>1, <1>2 DEF Shape, TypeOK
<1>4. Len(stack) \in Nat /\ stack \in Seq(Activation)
  BY DEF Shape, TypeOK
<1> DEFINE n == Len(stack)
<1>5. n \in Nat /\ Len(stack') = n + 1 /\ stack'[n + 1] = Frame(t, "base") /\ \A i \in 1..n : stack'[i] = stack[i]
  BY <1>1, <1>4 DEF Pushed
<1>6. stack'[n + 1].owner = t
  BY <1>5, FrameTypes DEF Owner
<1>7. \A i \in 1..Len(stack') : i \in 1..n \/ i = n + 1
  BY <1>5
<1>8. Done \subseteq Done' /\ \A x \in Type : BaseDone(x) => BaseDone(x)'
  <2>1. \A i \in 1..Len(stack') : stack'[i].owner \in ctDone => \E j \in 1..Len(stack) : stack'[i].owner = stack[j].owner
    BY <1>5, <1>6, <1>7
  <2> QED  BY <2>1, <1>2, <1>3, DoneKept
<1>9. Done' \subseteq Done
  <2> SUFFICES ASSUME NEW x \in Done' PROVE x \in Done
    OBVIOUS
  <2>1. x \in ctDone' /\ \A i \in 1..Len(stack') : stack'[i].owner # x
    BY DEF Done
  <2>2. x # t /\ \A i \in 1..n : stack[i].owner # x
    BY <2>1, <1>5, <1>6
  <2> QED  BY <2>1, <2>2, <1>2 DEF Done
<1>10. Chain'
  <2> SUFFICES ASSUME NEW j \in 1..Len(stack'), stack'[j].owner \in Type
               PROVE  /\ \A i \in 1..(j - 1) : stack'[i].owner \in Type /\ stack'[i].stage = "base"
                      /\ j > 1 => schema.base[stack'[j - 1].owner] = stack'[j].owner
    BY DEF Chain
  <2>1. CASE j \in 1..n
    <3>1. \A i \in 1..j : i \in 1..n
      BY <2>1, <1>5
    <3> QED  BY <3>1, <2>1, <1>5, SMTT(20) DEF Shape, Chain
  <2>2. CASE j = n + 1
    <3>1. CASE n = 0
      BY <3>1, <2>2
    <3>2. CASE n > 0
      <4>1. At("base") /\ Top.owner \in Type /\ schema.base[Top.owner] = t /\ Top = stack[n]
        BY <3>2 DEF Top
      <4>2. n \in 1..n /\ stack[n].stage = "base" /\ stack[n].owner \in Type
        BY <4>1, <3>2, <1>5 DEF At
      <4>3. \A i \in 1..(n - 1) : stack[i].owner \in Type /\ stack[i].stage = "base"
        BY <4>2 DEF Shape, Chain
      <4>4. \A i \in 1..n : i \in 1..(n - 1) \/ i = n
        BY <1>5
      <4> QED  BY <4>1, <4>2, <4>3, <4>4, <2>2, <1>5, <1>6
    <3> QED  BY <3>1, <3>2, <1>5
  <2> QED  BY <2>1, <2>2, <1>7
<1>11. (\A i \in 1..Len(stack) : Placed(stack[i]))'
  <2>1. ASSUME NEW i \in 1..n PROVE Placed(stack[i])'
    BY <1>2, <1>8, <1>5, PlacedKept DEF Shape
  <2>2. ASSUME NEW m, m = n + 1 PROVE Placed(stack[m])'
    <3>1. schema.children[t] \in Seq(AttributeChild)
      BY SchemasAssumption DEF Shape, TypeOK, IsSchema, Owner
    <3>2. stack'[n + 1].pos = 1 /\ stack'[n + 1].stage = "base" /\ t \notin Group
      BY <1>5, FrameTypes, SchemasAssumption DEF Owner
    <3> QED  BY <3>1, <3>2, <2>2, <1>2, <1>6 DEF Placed
  <2>3. ASSUME NEW i \in 1..Len(stack') PROVE Placed(stack[i])'
    BY <2>1, <2>2, <1>7
  <2> QED  BY <2>3
<1>12. \A x \in Done' : x \in DOMAIN result' /\ BaseDone(x)'
  BY <1>8, <1>9 DEF Shape, Done, TypeOK
<1> QED  BY <1>3, <1>10, <1>11, <1>12 DEF Shape

(* A group that is entered.                                                *)
LEMMA ShapePushGroup ==
    ASSUME Shape, NEW g \in Group, Push(Frame(g, "children")),
           UNCHANGED <<schema, ctOrder, drained, ctDone, attrGroups, result>>
    PROVE  Shape' /\ Done' = Done
<1>1. Pushed(Frame(g, "children")) /\ stack' \in Seq(Activation)
  BY StackOps, FrameTypes DEF Shape, Owner
<1>3. TypeOK'
  BY <1>1 DEF Shape, TypeOK
<1> DEFINE n == Len(stack)
<1>5. n \in Nat /\ Len(stack') = n + 1 /\ stack'[n + 1] = Frame(g, "children") /\ \A i \in 1..n : stack'[i] = stack[i]
  BY <1>1 DEF Pushed, Shape, TypeOK
<1>6. stack'[n + 1].owner = g /\ g \notin Type
  BY <1>5, FrameTypes, SchemasAssumption DEF Owner
<1>7. \A i \in 1..Len(stack') : i \in 1..n \/ i = n + 1
  BY <1>5
<1>8. Done' = Done
  BY <1>5, <1>6, <1>7, <1>3 DEF Done, TypeOK
<1>9. \A x \in Type : BaseDone(x) => BaseDone(x)'
  BY <1>8 DEF BaseDone
<1>10. Chain'
  <2> SUFFICES ASSUME NEW j \in 1..Len(stack'), stack'[j].owner \in Type
               PROVE  /\ \A i \in 1..(j - 1) : stack'[i].owner \in Type /\ stack'[i].stage = "base"
                      /\ j > 1 => schema.base[stack'[j - 1].owner] = stack'[j].owner
    BY DEF Chain
  <2>1. j \in 1..n /\ \A i \in 1..j : i \in 1..n
    BY <1>5, <1>6, <1>7
  <2> QED  BY <2>1, <1>5 DEF Shape, Chain
<1>11. (\A i \in 1..Len(stack) : Placed(stack[i]))'
  <2>1. ASSUME NEW i \in 1..n PROVE Placed(stack[i])'
    BY <1>9, <1>5, PlacedKept DEF Shape
  <2>2. ASSUME NEW m, m = n + 1 PROVE Placed(stack[m])'
    <3>1. schema.children[g] \in Seq(AttributeChild)
      BY SchemasAssumption DEF Shape, TypeOK, IsSchema, Owner
    <3>2. stack'[n + 1].pos = 1 /\ stack'[n + 1].stage = "children"
      BY <1>5, FrameTypes DEF Owner
    <3> QED  BY <3>1, <3>2, <2>2, <1>6 DEF Placed
  <2>3. ASSUME NEW i \in 1..Len(stack') PROVE Placed(stack[i])'
    BY <2>1, <2>2, <1>7
  <2> QED  BY <2>3
<1>12. \A x \in Done' : x \in DOMAIN result' /\ BaseDone(x)'
  BY <1>8, <1>9 DEF Shape, Done, TypeOK
<1> QED  BY <1>3, <1>8, <1>10, <1>11, <1>12 DEF Shape

(* The top activation moves on, its owner staying the same.                *)
LEMMA ShapeContinue ==
    ASSUME Shape, stack # << >>, NEW f \in Activation, Continue(f), f.owner = Top.owner,
           f.pos \in 1..(Len(schema.children[f.owner]) + 1),
           f.owner \in Group => f.stage = "children",
           f.stage # "base" /\ f.owner \in Type => BaseDone(f.owner),
           f.stage = "defaults" => f.owner \in DOMAIN result' /\ f.pos = Len(schema.children[f.owner]) + 1,
           TypeOK', DOMAIN result \subseteq DOMAIN result', UNCHANGED <<schema, ctDone>>
    PROVE  Shape' /\ Done' = Done
<1>1. Continued(f) /\ Top = stack[Len(stack)]
  BY StackOps DEF Shape
<1> DEFINE n == Len(stack)
<1>5. /\ n \in Nat \ {0} /\ Len(stack') = n /\ stack'[n] = f /\ \A i \in 1..(n - 1) : stack'[i] = stack[i]
      /\ stack'[n].owner = stack[n].owner
  BY <1>1 DEF Continued, Shape, TypeOK
<1>6. \A i \in 1..n : i \in 1..(n - 1) \/ i = n
  BY <1>5
<1>7. \A i \in 1..n : stack'[i].owner = stack[i].owner
  BY <1>5, <1>6
<1>8. Done' = Done
  BY <1>5, <1>7 DEF Done
<1>9. \A x \in Type : BaseDone(x) => BaseDone(x)'
  BY <1>8 DEF BaseDone
<1>10. Chain'
  <2> SUFFICES ASSUME NEW j \in 1..Len(stack'), stack'[j].owner \in Type
               PROVE  /\ \A i \in 1..(j - 1) : stack'[i].owner \in Type /\ stack'[i].stage = "base"
                      /\ j > 1 => schema.base[stack'[j - 1].owner] = stack'[j].owner
    BY DEF Chain
  <2>1. j \in 1..n /\ stack[j].owner \in Type
    BY <1>5, <1>7
  <2>2. \A i \in 1..(j - 1) : i \in 1..(n - 1)
    BY <2>1, <1>5
  <2>3. /\ \A i \in 1..(j - 1) : stack[i].owner \in Type /\ stack[i].stage = "base"
        /\ j > 1 => schema.base[stack[j - 1].owner] = stack[j].owner
    BY <2>1 DEF Shape, Chain
  <2>4. j > 1 => j - 1 \in 1..n
    BY <2>1, <1>5
  <2> QED  BY <2>1, <2>2, <2>3, <2>4, <1>5, <1>7
<1>11. (\A i \in 1..Len(stack) : Placed(stack[i]))'
  <2>1. ASSUME NEW i \in 1..(n - 1) PROVE Placed(stack[i])'
    <3>1. i \in 1..Len(stack)
      BY <1>5
    <3> QED  BY <3>1, <1>9, <1>5, PlacedKept DEF Shape
  <2>2. Placed(stack[n])'
    <3>1. f.owner \in Type => f.owner \in ctDone
      BY <1>1, <1>5 DEF Shape, Placed
    <3> QED  BY <3>1, <1>5, <1>9 DEF Placed
  <2> QED  BY <2>1, <2>2, <1>5, <1>6
<1>12. \A x \in Done' : x \in DOMAIN result' /\ BaseDone(x)'
  BY <1>8, <1>9 DEF Shape, Done, TypeOK
<1> QED  BY <1>8, <1>10, <1>11, <1>12 DEF Shape

(* The top activation returns.                                             *)
LEMMA ShapePop ==
    ASSUME Shape, stack # << >>, Pop, TypeOK', DOMAIN result \subseteq DOMAIN result', UNCHANGED <<schema, ctDone>>,
           Top.owner \in Type => BaseDone(Top.owner) /\ Top.owner \in DOMAIN result
    PROVE  Shape' /\ Done \subseteq Done' /\ Done' \subseteq Done \cup {Top.owner}
<1>1. Popped /\ Top = stack[Len(stack)]
  BY StackOps DEF Shape
<1> DEFINE n == Len(stack)
<1>5. n \in Nat \ {0} /\ Len(stack') = n - 1 /\ \A i \in 1..(n - 1) : stack'[i] = stack[i]
  BY <1>1 DEF Popped, Shape, TypeOK
<1>6. \A i \in 1..n : i \in 1..(n - 1) \/ i = n
  BY <1>5
<1>6a. \A i \in 1..(n - 1) : i \in 1..n
  BY <1>5
<1>7. Done \subseteq Done' /\ Done' \subseteq Done \cup {Top.owner}
  BY <1>1, <1>5, <1>6, <1>6a DEF Done
<1>9. \A x \in Type : BaseDone(x) => BaseDone(x)'
  BY <1>7 DEF BaseDone
<1>10. Chain'
  <2> SUFFICES ASSUME NEW j \in 1..Len(stack'), stack'[j].owner \in Type
               PROVE  /\ \A i \in 1..(j - 1) : stack'[i].owner \in Type /\ stack'[i].stage = "base"
                      /\ j > 1 => schema.base[stack'[j - 1].owner] = stack'[j].owner
    BY DEF Chain
  <2>1. j \in 1..n /\ \A i \in 1..j : i \in 1..(n - 1)
    BY <1>5
  <2> QED  BY <2>1, <1>5 DEF Shape, Chain
<1>11. (\A i \in 1..Len(stack) : Placed(stack[i]))'
  <2>1. ASSUME NEW i \in 1..(n - 1) PROVE Placed(stack[i])'
    BY <1>6a, <1>9, <1>5, PlacedKept DEF Shape
  <2> QED  BY <2>1, <1>5
<1>12. \A x \in Done' : x \in DOMAIN result' /\ BaseDone(x)'
  BY <1>7, <1>9 DEF Shape, Done, TypeOK
<1> QED  BY <1>7, <1>10, <1>11, <1>12 DEF Shape

(* The base of the type whose content is filled is not waiting for it.     *)
LEMMA BaseFinished ==
    ASSUME Shape, At("base"), Top.owner \in Type, schema.base[Top.owner] \in ctDone \cup {AnyType}
    PROVE  BaseDone(Top.owner)
<1> DEFINE n == Len(stack)
           b == schema.base[Top.owner]
<1>1. n \in Nat \ {0} /\ Top = stack[n]
  BY StackOps DEF Shape, At
<1>2. IsSchema(schema)
  BY SchemasAssumption DEF Shape, TypeOK
<1> SUFFICES ASSUME b # AnyType, NEW m \in 1..n, stack[m].owner = b PROVE FALSE
  BY <1>1 DEF BaseDone, Done
<1> DEFINE S == {stack[j].owner : j \in m..n}
<1>3. \A j \in m..n : j \in 1..n /\ stack[j].owner \in Type
  <2> SUFFICES ASSUME NEW j \in m..n PROVE j \in 1..n /\ stack[j].owner \in Type
    OBVIOUS
  <2>1. j \in 1..n /\ (j = n \/ j \in 1..(n - 1)) /\ n \in 1..Len(stack)
    BY <1>1
  <2> QED  BY <2>1, <1>1 DEF Shape, Chain
<1>4. S \in SUBSET Type /\ S # {}
  <2>1. m \in m..n
    BY <1>1
  <2> QED  BY <2>1, <1>3
<1>5. PICK t \in S : schema.base[t] \notin S
  BY <1>2, <1>4 DEF IsSchema
<1>6. PICK j \in m..n : t = stack[j].owner
  BY <1>5
<1>7. CASE j = n
  <2>1. m \in m..n /\ schema.base[t] = stack[m].owner
    BY <1>1, <1>6, <1>7
  <2> QED  BY <2>1, <1>5
<1>8. CASE j # n
  <2>1. j + 1 \in m..n /\ j + 1 > 1 /\ j + 1 - 1 = j
    BY <1>1, <1>6, <1>8
  <2>2. schema.base[stack[j + 1 - 1].owner] = stack[j + 1].owner
    BY <2>1, <1>3 DEF Shape, Chain
  <2>3. schema.base[t] = stack[j + 1].owner
    BY <2>1, <2>2, <1>6
  <2> QED  BY <2>1, <2>3, <1>5
<1> QED  BY <1>7, <1>8

(* What the running activation is about.                                   *)
LEMMA TopFacts ==
    ASSUME Shape, stack # << >>
    PROVE  /\ Top \in Activation /\ Top.owner \in Owner /\ Len(stack) \in Nat \ {0}
           /\ Top = stack[Len(stack)] /\ Placed(Top)
           /\ schema.children[Top.owner] \in Seq(AttributeChild)
           /\ Top.stage = "base" => Top.owner \in Type
<1>1. Top \in Activation /\ Len(stack) \in Nat \ {0} /\ Top = stack[Len(stack)]
  BY StackOps DEF Shape
<1>2. Top.owner \in Owner
  BY <1>1 DEF Activation
<1>3. Placed(Top)
  BY <1>1 DEF Shape
<1>4. schema.children[Top.owner] \in Seq(AttributeChild)
  BY <1>2, SchemasAssumption DEF Shape, TypeOK, IsSchema
<1>5. Top.stage = "base" => Top.owner \in Type
  BY <1>2, <1>3 DEF Placed, Owner
<1> QED  BY <1>1, <1>2, <1>3, <1>4, <1>5

LEMMA ChildFacts ==
    ASSUME Shape, MoreChildren
    PROVE  /\ Top.pos \in 1..Len(schema.children[Top.owner])
           /\ Child = schema.children[Top.owner][Top.pos] /\ Child \in AttributeChild
           /\ Top.stage = "children" /\ stack # << >>
<1>1. stack # << >> /\ Top.stage = "children" /\ Top.pos <= Len(schema.children[Top.owner])
  BY DEF MoreChildren, At
<1>2. Top.pos \in Nat \ {0} /\ schema.children[Top.owner] \in Seq(AttributeChild)
  BY <1>1, TopFacts DEF Activation
<1>3. Top.pos \in 1..Len(schema.children[Top.owner])
  BY <1>1, <1>2
<1> QED  BY <1>1, <1>2, <1>3 DEF Child

LEMMA ChildKinds ==
    ASSUME NEW c \in AttributeChild
    PROVE  /\ c.kind \in {"attribute", "prohibited", "group", "any"}
           /\ c.kind = "attribute"  => c.use \in AttributeUse
           /\ c.kind = "prohibited" => c.name \in Name
           /\ c.kind = "group"      => c.ref \in Group
           /\ c.kind = "any"        => c.wildcard \in Wildcard
  BY DEF AttributeChild

(* An activation that has read one more child.                             *)
LEMMA ReadOne ==
    ASSUME Shape, MoreChildren, NEW f \in Activation, Continue(Advance(f)), f.owner = Top.owner,
           f.pos = Top.pos, f.stage = Top.stage,
           UNCHANGED <<schema, ctOrder, drained, ctDone, attrGroups, result>>
    PROVE  /\ Shape' /\ Done' = Done /\ Continued(Advance(f))
           /\ Advance(f).pos = Top.pos + 1 /\ Advance(f).owner = f.owner /\ Advance(f).stage = f.stage
           /\ Advance(f).uses = f.uses /\ Advance(f).wc = f.wc /\ Advance(f).prohibited = f.prohibited
<1> DEFINE g == Advance(f)
<1>1. /\ g \in Activation /\ g.pos = Top.pos + 1 /\ g.owner = f.owner /\ g.stage = f.stage
      /\ g.uses = f.uses /\ g.wc = f.wc /\ g.prohibited = f.prohibited
  BY DEF Advance, Activation
<1>2. stack # << >> /\ Top.pos \in 1..Len(schema.children[Top.owner]) /\ Top.stage = "children"
  BY ChildFacts
<1>3. Placed(Top) /\ schema.children[Top.owner] \in Seq(AttributeChild)
  BY <1>2, TopFacts
<1> HIDE DEF g
<1>4. stack' \in Seq(Activation) /\ Continued(g)
  BY <1>1, <1>2, StackOps DEF Shape, g
<1>5. TypeOK'
  BY <1>4 DEF Shape, TypeOK
<1>6. g.pos \in 1..(Len(schema.children[g.owner]) + 1)
  BY <1>1, <1>2, <1>3
<1>7. g.owner \in Type => BaseDone(g.owner)
  BY <1>1, <1>2, <1>3 DEF Placed
<1>8. Continue(g)
  BY DEF g
<1>9. Shape' /\ Done' = Done
  BY <1>1, <1>2, <1>5, <1>6, <1>7, <1>8, ShapeContinue
<1> QED  BY <1>1, <1>4, <1>9 DEF g

Given(f) ==
    CASE Child.kind = "attribute"  -> [f EXCEPT !.uses = Append(@, Child.use)]
      [] Child.kind = "prohibited" -> [f EXCEPT !.prohibited = @ \cup {Child.name}]
      [] Child.kind = "any"        -> [f EXCEPT !.wc = WildcardIntersect(@, Child.wildcard)]

LEMMA IntersectWithNone ==
    ASSUME NEW w1 \in Wildcard \cup {NoWildcard}, NEW w2 \in Wildcard \cup {NoWildcard}
    PROVE  WildcardIntersect(w1, w2) \in Wildcard \cup {NoWildcard}
<1>1. CASE w1 = NoWildcard
  BY <1>1 DEF WildcardIntersect
<1>2. CASE w2 = NoWildcard
  BY <1>2 DEF WildcardIntersect
<1>3. CASE w1 # NoWildcard /\ w2 # NoWildcard
  BY <1>3, IntersectType
<1> QED  BY <1>1, <1>2, <1>3

LEMMA GivenType ==
    ASSUME Shape, MoreChildren, Child.kind # "group", NEW f \in Activation
    PROVE  /\ Given(f) \in Activation /\ Given(f).owner = f.owner /\ Given(f).pos = f.pos /\ Given(f).stage = f.stage
           /\ Given(f).uses = IF Child.kind = "attribute" THEN Append(f.uses, Child.use) ELSE f.uses
           /\ Given(f).prohibited = IF Child.kind = "prohibited" THEN f.prohibited \cup {Child.name} ELSE f.prohibited
           /\ Given(f).wc = IF Child.kind = "any" THEN WildcardIntersect(f.wc, Child.wildcard) ELSE f.wc
<1> DEFINE c == Child
<1>1. c \in AttributeChild
  BY ChildFacts
<1>2. /\ c.kind \in {"attribute", "prohibited", "any"}
      /\ c.kind = "attribute"  => c.use \in AttributeUse
      /\ c.kind = "prohibited" => c.name \in Name
      /\ c.kind = "any"        => c.wildcard \in Wildcard
  BY <1>1, ChildKinds
<1>3. f.uses \in Seq(AttributeUse) /\ f.wc \in Wildcard \cup {NoWildcard} /\ f.prohibited \in SUBSET Name
  BY DEF Activation
<1> HIDE DEF c
<1>4. CASE c.kind = "attribute"
  <2>1. Given(f) = [f EXCEPT !.uses = Append(@, c.use)]
    BY <1>4 DEF Given, c
  <2>2. Append(f.uses, c.use) \in Seq(AttributeUse)
    BY <1>2, <1>3, <1>4, AppendFacts
  <2> HIDE DEF Given
  <2> QED  BY <1>4, <2>1, <2>2 DEF Activation, c
<1>5. CASE c.kind = "prohibited"
  <2>1. Given(f) = [f EXCEPT !.prohibited = @ \cup {c.name}]
    BY <1>5 DEF Given, c
  <2> QED  BY <1>2, <1>3, <1>5, <2>1 DEF Activation, c
<1>6. CASE c.kind = "any"
  <2>1. Given(f) = [f EXCEPT !.wc = WildcardIntersect(@, c.wildcard)]
    BY <1>6 DEF Given, c
  <2>2. WildcardIntersect(f.wc, c.wildcard) \in Wildcard \cup {NoWildcard}
    BY <1>2, <1>3, <1>6, IntersectWithNone
  <2> QED  BY <1>6, <2>1, <2>2 DEF Activation, c
<1> QED  BY <1>2, <1>4, <1>5, <1>6

LEMMA WithGroupType ==
    ASSUME NEW f \in Activation, NEW g \in Attributes
    PROVE  /\ WithGroup(f, g) \in Activation /\ WithGroup(f, g).owner = f.owner
           /\ WithGroup(f, g).pos = f.pos /\ WithGroup(f, g).stage = f.stage
           /\ WithGroup(f, g).uses = f.uses \o g.uses
           /\ WithGroup(f, g).wc = WildcardIntersect(f.wc, g.wc)
           /\ WithGroup(f, g).prohibited = f.prohibited
<1>1. f.uses \o g.uses \in Seq(AttributeUse)
  BY SeqFacts DEF Activation, Attributes
<1>2. WildcardIntersect(f.wc, g.wc) \in Wildcard \cup {NoWildcard}
  BY IntersectWithNone DEF Activation, Attributes
<1> QED  BY <1>1, <1>2 DEF WithGroup, Activation

(* The three steps that read a child in place.                             *)
LEMMA OwnChildReads ==
    ASSUME Shape, OwnChild
    PROVE  /\ Shape' /\ Done' = Done
           /\ \E g \in Activation : /\ Continued(g) /\ g.pos = Top.pos + 1 /\ g.owner = Top.owner /\ g.stage = "children"
                                    /\ g.uses = Given(Top).uses /\ g.wc = Given(Top).wc
                                    /\ g.prohibited = Given(Top).prohibited
<1>1. MoreChildren /\ Child.kind # "group" /\ Continue(Advance(Given(Top)))
      /\ UNCHANGED <<schema, ctOrder, drained, ctDone, attrGroups, result>>
  BY DEF OwnChild, Given
<1>2. Top \in Activation /\ Top.stage = "children"
  BY <1>1, ChildFacts, TopFacts
<1>3. Given(Top) \in Activation /\ Given(Top).owner = Top.owner /\ Given(Top).pos = Top.pos /\ Given(Top).stage = Top.stage
  BY <1>1, <1>2, GivenType
<1>4. Advance(Given(Top)) \in Activation
  BY <1>3 DEF Advance, Activation
<1> QED  BY <1>1, <1>2, <1>3, <1>4, ReadOne

LEMMA KnownGroupReads ==
    ASSUME Shape, KnownGroup
    PROVE  /\ Shape' /\ Done' = Done
           /\ \E g \in Activation : /\ Continued(g) /\ g.pos = Top.pos + 1 /\ g.owner = Top.owner /\ g.stage = "children"
                                    /\ g.uses = Top.uses \o attrGroups[Child.ref].uses
                                    /\ g.wc = WildcardIntersect(Top.wc, attrGroups[Child.ref].wc)
                                    /\ g.prohibited = Top.prohibited
<1> DEFINE f == WithGroup(Top, attrGroups[Child.ref])
<1>1. MoreChildren /\ Child.ref \in DOMAIN attrGroups /\ Continue(Advance(f))
      /\ UNCHANGED <<schema, ctOrder, drained, ctDone, attrGroups, result>>
  BY DEF KnownGroup
<1>2. Top \in Activation /\ Top.stage = "children" /\ attrGroups[Child.ref] \in Attributes
  BY <1>1, ChildFacts, TopFacts DEF Shape, TypeOK
<1>3. /\ f \in Activation /\ f.owner = Top.owner /\ f.pos = Top.pos /\ f.stage = Top.stage
      /\ f.uses = Top.uses \o attrGroups[Child.ref].uses
      /\ f.wc = WildcardIntersect(Top.wc, attrGroups[Child.ref].wc)
      /\ f.prohibited = Top.prohibited
  BY <1>2, WithGroupType
<1> HIDE DEF f
<1>4. Advance(f) \in Activation
  BY <1>3 DEF Advance, Activation
<1> QED  BY <1>1, <1>2, <1>3, <1>4, ReadOne

LEMMA CircularGroupReads ==
    ASSUME Shape, CircularGroup
    PROVE  Shape' /\ Done' = Done /\ Continued(WithNothing(Top))
<1>1. MoreChildren /\ Continue(Advance(Top)) /\ WithNothing(Top) = Advance(Top)
      /\ UNCHANGED <<schema, ctOrder, drained, ctDone, attrGroups, result>>
  BY DEF CircularGroup, WithNothing
<1>2. Top \in Activation
  BY <1>1, ChildFacts, TopFacts
<1> QED  BY <1>1, <1>2, ReadOne

(* mergeBaseAttrUses inherits what stands at these places of the base.     *)
InheritedAt(own, base, prohibited, override) ==
    {i \in DOMAIN base : /\ base[i].name \notin NamesOf(own)
                         /\ \A j \in 1..(i - 1) : base[j].name # base[i].name
                         /\ override => base[i].name \notin prohibited}

LEMMA MergedAre ==
    ASSUME NEW own \in Seq(AttributeUse), NEW base \in Seq(AttributeUse), NEW prohibited, NEW override
    PROVE  /\ MergeBaseAttrUses(own, base, prohibited, override) \in Seq(AttributeUse)
           /\ ToSet(MergeBaseAttrUses(own, base, prohibited, override))
                = ToSet(own) \cup {base[i] : i \in InheritedAt(own, base, prohibited, override)}
<1> DEFINE I == InheritedAt(own, base, prohibited, override)
<1>1. I \in SUBSET DOMAIN base
  BY DEF InheritedAt
<1>2. MergeBaseAttrUses(own, base, prohibited, override) = Followed(own, base, I)
  BY DEF MergeBaseAttrUses, InheritedAt
<1> HIDE DEF I
<1>3. Followed(own, base, I) \in Seq(AttributeUse) /\ ToSet(Followed(own, base, I)) = ToSet(own) \cup {base[i] : i \in I}
  BY <1>1, FollowedIs
<1> QED  BY <1>2, <1>3 DEF I

LEMMA MergeWildcardType ==
    ASSUME NEW s, NEW t, NEW own \in Wildcard \cup {NoWildcard}, NEW base \in Wildcard \cup {NoWildcard}
    PROVE  MergeWildcard(s, t, own, base) \in Wildcard \cup {NoWildcard}
<1>1. own # NoWildcard /\ base # NoWildcard => WildcardUnion(base, own) \in Wildcard
  BY UnionType
<1> QED  BY <1>1 DEF MergeWildcard

MergedUses(t) == MergeBaseAttrUses(Top.uses, result[schema.base[t]].uses, Top.prohibited, ~Extends(schema, t))
MergedWildcard(t) == MergeWildcard(schema, t, Top.wc, result[schema.base[t]].wc)

(* What merging gives the type on top.                                     *)
LEMMA MergeResult ==
    ASSUME Shape, Merge
    PROVE  /\ Shape' /\ Done' = Done /\ Top.owner \in Type /\ BaseDone(Top.owner) /\ Top.stage = "children"
           /\ Top.pos = Len(schema.children[Top.owner]) + 1 /\ stack # << >>
           /\ schema.base[Top.owner] \in DOMAIN result
           /\ result'[Top.owner].uses = MergedUses(Top.owner)
           /\ result'[Top.owner].wc = MergedWildcard(Top.owner)
           /\ DOMAIN result' = DOMAIN result \cup {Top.owner}
           /\ \A x \in DOMAIN result \ {Top.owner} : result'[x] = result[x]
           /\ \E f \in Activation : Continued(f) /\ f.owner = Top.owner /\ f.stage = "defaults" /\ f.pos = Top.pos
                                    /\ f.uses = Top.uses /\ f.wc = Top.wc /\ f.prohibited = Top.prohibited
<1> DEFINE t == Top.owner
           f == [Top EXCEPT !.stage = "defaults"]
<1>1. /\ stack # << >> /\ Top.stage = "children" /\ t \in Type /\ ~MoreChildren
      /\ result' = [x \in DOMAIN result \cup {t} |->
                      IF x = t THEN [uses |-> MergedUses(t), wc |-> MergedWildcard(t)] ELSE result[x]]
      /\ Continue(f) /\ UNCHANGED <<schema, ctOrder, drained, ctDone, attrGroups>>
  BY DEF Merge, At, MergedUses, MergedWildcard
<1>2. Top \in Activation /\ Placed(Top) /\ schema.children[t] \in Seq(AttributeChild)
  BY <1>1, TopFacts
<1>3. BaseDone(t) /\ Top.pos = Len(schema.children[t]) + 1
  BY <1>1, <1>2 DEF Placed, MoreChildren, At
<1>4. schema.base[t] \in DOMAIN result /\ result[schema.base[t]] \in Attributes
  BY <1>3 DEF BaseDone, Shape, TypeOK
<1>5. MergedUses(t) \in Seq(AttributeUse) /\ MergedWildcard(t) \in Wildcard \cup {NoWildcard}
  <2>1. Top.uses \in Seq(AttributeUse) /\ Top.wc \in Wildcard \cup {NoWildcard}
    BY <1>2 DEF Activation
  <2>2. result[schema.base[t]].uses \in Seq(AttributeUse) /\ result[schema.base[t]].wc \in Wildcard \cup {NoWildcard}
    BY <1>4 DEF Attributes
  <2> QED  BY <2>1, <2>2, MergedAre, MergeWildcardType DEF MergedUses, MergedWildcard
<1>6. /\ f \in Activation /\ f.owner = t /\ f.stage = "defaults" /\ f.pos = Top.pos
      /\ f.uses = Top.uses /\ f.wc = Top.wc /\ f.prohibited = Top.prohibited
  BY <1>2 DEF Activation
<1>7. AnyType # t
  BY <1>1, SchemasAssumption
<1> HIDE DEF f
<1>8. Continued(f) /\ stack' \in Seq(Activation)
  BY <1>1, <1>6, StackOps DEF Shape
<1>9. /\ DOMAIN result' = DOMAIN result \cup {t} /\ \A x \in DOMAIN result \ {t} : result'[x] = result[x]
      /\ result'[t] = [uses |-> MergedUses(t), wc |-> MergedWildcard(t)]
  BY <1>1
<1>10. TypeOK'
  <2>1. result'[t] \in Attributes
    BY <1>5, <1>9 DEF Attributes
  <2>2. \A x \in DOMAIN result' : result'[x] \in Attributes
    BY <2>1, <1>9 DEF Shape, TypeOK
  <2>3. result' \in [DOMAIN result' -> Attributes]
    BY <1>1, <2>2
  <2> QED  BY <1>1, <1>8, <1>9, <2>3 DEF Shape, TypeOK
<1>11. f.pos \in 1..(Len(schema.children[f.owner]) + 1) /\ f.owner \notin Group
  BY <1>1, <1>2, <1>6, SchemasAssumption DEF Placed
<1>12. Shape' /\ Done' = Done
  BY <1>1, <1>3, <1>6, <1>9, <1>10, <1>11, ShapeContinue
<1>13. result'[t].uses = MergedUses(t) /\ result'[t].wc = MergedWildcard(t)
  BY <1>9
<1> QED  BY <1>1, <1>3, <1>4, <1>6, <1>8, <1>9, <1>12, <1>13

(* What finishing leaves of the type on top.                               *)
Final(t) == IF TakesDefaults(schema, t) THEN WithDefaults(result[t], attrGroups[schema.defaults]) ELSE result[t]

LEMMA FinishResult ==
    ASSUME Shape, FinishType
    PROVE  /\ Shape' /\ Done \subseteq Done' /\ Done' \subseteq Done \cup {Top.owner}
           /\ Top.owner \in Type /\ BaseDone(Top.owner) /\ Top.owner \in DOMAIN result /\ Popped /\ stack # << >>
           /\ TakesDefaults(schema, Top.owner) => schema.defaults \in DOMAIN attrGroups
           /\ result'[Top.owner] = Final(Top.owner)
           /\ DOMAIN result' = DOMAIN result
           /\ \A x \in DOMAIN result \ {Top.owner} : result'[x] = result[x]
           /\ Top.stage = "defaults" /\ Top = stack[Len(stack)]
<1> DEFINE t == Top.owner
<1>1. /\ stack # << >> /\ Top.stage = "defaults" /\ Pop
      /\ TakesDefaults(schema, t) => schema.defaults \in DOMAIN attrGroups
      /\ result' = [result EXCEPT ![t] = Final(t)]
      /\ UNCHANGED <<schema, ctOrder, drained, ctDone, attrGroups>>
  BY DEF FinishType, At, Final
<1>2. Top \in Activation /\ Placed(Top) /\ t \in Owner /\ Top = stack[Len(stack)]
  BY <1>1, TopFacts
<1>3. t \in Type /\ BaseDone(t) /\ t \in DOMAIN result
  BY <1>1, <1>2 DEF Placed, Owner
<1>4. Popped /\ stack' \in Seq(Activation)
  BY <1>1, StackOps DEF Shape
<1>5. Final(t) \in Attributes
  <2>1. result[t] \in Attributes
    BY <1>3 DEF Shape, TypeOK
  <2>2. ASSUME TakesDefaults(schema, t) PROVE WithDefaults(result[t], attrGroups[schema.defaults]) \in Attributes
    <3>1. attrGroups[schema.defaults] \in Attributes
      BY <1>1, <2>2 DEF Shape, TypeOK
    <3>2. result[t].uses \o attrGroups[schema.defaults].uses \in Seq(AttributeUse)
      BY <2>1, <3>1, SeqFacts DEF Attributes
    <3> QED  BY <2>1, <3>1, <3>2 DEF Attributes, WithDefaults
  <2> QED  BY <2>1, <2>2 DEF Final
<1>6. /\ DOMAIN result' = DOMAIN result /\ result'[t] = Final(t)
      /\ \A x \in DOMAIN result \ {t} : result'[x] = result[x]
  BY <1>1, <1>3
<1>7. TypeOK'
  <2>1. \A x \in DOMAIN result' : result'[x] \in Attributes
    BY <1>5, <1>6 DEF Shape, TypeOK
  <2>2. result' \in [DOMAIN result' -> Attributes]
    BY <1>1, <2>1
  <2> QED  BY <1>1, <1>4, <1>6, <2>2 DEF Shape, TypeOK
<1>8. Shape' /\ Done \subseteq Done' /\ Done' \subseteq Done \cup {t}
  BY <1>1, <1>3, <1>6, <1>7, ShapePop
<1> QED  BY <1>1, <1>2, <1>3, <1>4, <1>6, <1>8

(* A group that is complete.                                               *)
LEMMA GroupResult ==
    ASSUME Shape, CompleteGroup
    PROVE  /\ Shape' /\ Done' = Done /\ Top.owner \in Group /\ Popped /\ stack # << >> /\ Top = stack[Len(stack)]
           /\ Top.pos = Len(schema.children[Top.owner]) + 1
           /\ attrGroups'[Top.owner].uses = Top.uses /\ attrGroups'[Top.owner].wc = Top.wc
           /\ DOMAIN attrGroups' = DOMAIN attrGroups \cup {Top.owner}
           /\ \A g \in DOMAIN attrGroups \ {Top.owner} : attrGroups'[g] = attrGroups[g]
<1> DEFINE o == Top.owner
<1>1. /\ stack # << >> /\ Top.stage = "children" /\ o \in Group /\ ~MoreChildren /\ Pop
      /\ attrGroups' = [g \in DOMAIN attrGroups \cup {o} |->
                          IF g = o THEN [uses |-> Top.uses, wc |-> Top.wc] ELSE attrGroups[g]]
      /\ UNCHANGED <<schema, ctOrder, drained, ctDone, result>>
  BY DEF CompleteGroup, At
<1>2. Top \in Activation /\ Placed(Top) /\ schema.children[o] \in Seq(AttributeChild) /\ Top = stack[Len(stack)]
  BY <1>1, TopFacts
<1>3. Top.pos = Len(schema.children[o]) + 1
  BY <1>1, <1>2 DEF Placed, MoreChildren, At
<1>4. Popped /\ stack' \in Seq(Activation)
  BY <1>1, StackOps DEF Shape
<1>5. [uses |-> Top.uses, wc |-> Top.wc] \in Attributes
  BY <1>2 DEF Activation, Attributes
<1>6. /\ DOMAIN attrGroups' = DOMAIN attrGroups \cup {o} /\ attrGroups'[o] = [uses |-> Top.uses, wc |-> Top.wc]
      /\ \A g \in DOMAIN attrGroups \ {o} : attrGroups'[g] = attrGroups[g]
  BY <1>1
<1>7. TypeOK'
  <2>1. \A g \in DOMAIN attrGroups' : attrGroups'[g] \in Attributes
    BY <1>5, <1>6 DEF Shape, TypeOK
  <2>2. attrGroups' \in [DOMAIN attrGroups' -> Attributes]
    BY <1>1, <2>1
  <2> QED  BY <1>1, <1>4, <1>6, <2>2 DEF Shape, TypeOK
<1>8. o \notin Type
  BY <1>1, SchemasAssumption
<1>9. Shape' /\ Done \subseteq Done' /\ Done' \subseteq Done \cup {o}
  BY <1>1, <1>7, <1>8, ShapePop
<1>10. Done' = Done
  BY <1>8, <1>9 DEF Done, Shape, TypeOK
<1> QED  BY <1>1, <1>2, <1>3, <1>4, <1>6, <1>9, <1>10

(* The steps that begin something.                                         *)
LEMMA NextTypeBegins ==
    ASSUME Shape, NextType
    PROVE  /\ Shape' /\ Done \subseteq Done' /\ Done' \subseteq Done
           /\ \/ UNCHANGED stack
              \/ \E t \in Type : Pushed(Frame(t, "base"))
<1> DEFINE t == ctOrder[drained + 1]
<1>1. /\ stack = << >> /\ drained < Len(ctOrder) /\ drained' = drained + 1
      /\ UNCHANGED <<schema, ctOrder, attrGroups, result>>
      /\ IF t \in ctDone THEN UNCHANGED <<stack, ctDone>>
         ELSE Push(Frame(t, "base")) /\ ctDone' = Mark(t)
  BY DEF NextType
<1>2. t \in Type /\ drained' \in Nat
  BY <1>1 DEF Shape, TypeOK
<1> HIDE DEF t
<1>3. CASE t \in ctDone
  <2>1. UNCHANGED <<schema, ctOrder, attrGroups, result, stack, ctDone>>
    BY <1>1, <1>3
  <2>2. Done' = Done
    BY <2>1 DEF Done
  <2> QED  BY <2>1, <2>2, <1>2 DEF Shape, TypeOK, Chain, Placed, BaseDone
<1>4. CASE t \notin ctDone
  <2>1. Push(Frame(t, "base")) /\ ctDone' = Mark(t) /\ ctOrder' \in Seq(Type)
    BY <1>1, <1>4 DEF Shape, TypeOK
  <2>2. Shape'
    BY <1>1, <1>2, <1>4, <2>1, ShapePushType
  <2>3. Pushed(Frame(t, "base"))
    BY <1>2, <2>1, StackOps, FrameTypes DEF Shape, Owner
  <2>4. Done \subseteq Done' /\ Done' \subseteq Done
    BY <1>1, <1>2, <1>4, <2>1, <2>3, FrameTypes DEF Done, Pushed, Mark, Owner, Shape, TypeOK
  <2> QED  BY <1>2, <2>2, <2>3, <2>4
<1> QED  BY <1>3, <1>4

LEMMA FinishBaseBegins ==
    ASSUME Shape, FinishBase
    PROVE  Shape' /\ Done' = Done /\ \E t \in Type : Pushed(Frame(t, "base"))
<1> DEFINE t == schema.base[Top.owner]
<1>1. /\ stack # << >> /\ At("base") /\ Top.stage = "base" /\ t \notin ctDone \cup {AnyType}
      /\ Push(Frame(t, "base")) /\ ctDone' = Mark(t) /\ UNCHANGED <<schema, ctOrder, drained, attrGroups, result>>
  BY DEF FinishBase, At
<1>2. Top.owner \in Type /\ Top = stack[Len(stack)] /\ Len(stack) \in Nat \ {0}
  BY <1>1, TopFacts
<1>3. t \in Type
  BY <1>1, <1>2, SchemasAssumption DEF Shape, TypeOK, IsSchema
<1>4. ctOrder' \in Seq(Type) /\ drained' \in Nat
  BY <1>1 DEF Shape, TypeOK
<1>5. schema.base[Top.owner] = t /\ t \notin ctDone
  BY <1>1
<1> HIDE DEF t
<1>6. Shape'
  BY <1>1, <1>2, <1>3, <1>4, <1>5, ShapePushType
<1>7. Pushed(Frame(t, "base")) /\ Frame(t, "base").owner = t
  BY <1>1, <1>3, StackOps, FrameTypes DEF Shape, Owner
<1>8. Done' = Done
  <2> DEFINE n == Len(stack)
  <2>1. n \in Nat /\ Len(stack') = n + 1 /\ stack'[n + 1].owner = t /\ \A i \in 1..n : stack'[i] = stack[i]
    BY <1>2, <1>7 DEF Pushed
  <2>2. \A i \in 1..Len(stack') : i \in 1..n \/ i = n + 1
    BY <2>1
  <2>3. n + 1 \in 1..Len(stack') /\ \A i \in 1..n : i \in 1..Len(stack')
    BY <2>1
  <2> QED  BY <2>1, <2>2, <2>3, <1>1, <1>5 DEF Done, Mark
<1> QED  BY <1>3, <1>6, <1>7, <1>8

LEMMA FillContentGoesOn ==
    ASSUME Shape, FillContent
    PROVE  /\ Shape' /\ Done' = Done
           /\ \E f \in Activation : Continued(f) /\ f.owner = Top.owner /\ f.stage = "children" /\ f.pos = Top.pos
                                    /\ f.uses = Top.uses /\ f.wc = Top.wc /\ f.prohibited = Top.prohibited
<1> DEFINE t == Top.owner
           f == [Top EXCEPT !.stage = "children"]
<1>1. /\ stack # << >> /\ At("base") /\ Top.stage = "base" /\ schema.base[t] \in ctDone \cup {AnyType}
      /\ Continue(f) /\ ctOrder' = ctOrder \o schema.nested[t]
      /\ UNCHANGED <<schema, drained, ctDone, attrGroups, result>>
  BY DEF FillContent, At
<1>2. Top \in Activation /\ t \in Type /\ Placed(Top)
  BY <1>1, TopFacts
<1>3. BaseDone(t)
  BY <1>1, <1>2, BaseFinished
<1>4. /\ f \in Activation /\ f.owner = t /\ f.stage = "children" /\ f.pos = Top.pos
      /\ f.uses = Top.uses /\ f.wc = Top.wc /\ f.prohibited = Top.prohibited
  BY <1>2 DEF Activation
<1> HIDE DEF f
<1>5. Continued(f) /\ stack' \in Seq(Activation)
  BY <1>1, <1>4, StackOps DEF Shape
<1>6. ctOrder' \in Seq(Type)
  <2>1. schema.nested[t] \in Seq(Type) /\ ctOrder \in Seq(Type)
    BY <1>2, SchemasAssumption DEF Shape, TypeOK, IsSchema
  <2> QED  BY <1>1, <2>1
<1>7. TypeOK'
  BY <1>1, <1>5, <1>6 DEF Shape, TypeOK
<1>8. f.pos \in 1..(Len(schema.children[f.owner]) + 1)
  BY <1>2, <1>4 DEF Placed
<1>9. Shape' /\ Done' = Done
  BY <1>1, <1>3, <1>4, <1>7, <1>8, ShapeContinue
<1> QED  BY <1>4, <1>5, <1>9

LEMMA EnterGroupBegins ==
    ASSUME Shape, EnterGroup \/ BuildDefaults
    PROVE  Shape' /\ Done' = Done /\ \E g \in Group : Pushed(Frame(g, "children"))
<1>1. ASSUME EnterGroup PROVE \E g \in Group : Push(Frame(g, "children"))
  <2>1. MoreChildren /\ Child.kind = "group" /\ Push(Frame(Child.ref, "children"))
    BY <1>1 DEF EnterGroup
  <2> QED  BY <2>1, ChildFacts, ChildKinds
<1>2. ASSUME BuildDefaults PROVE \E g \in Group : Push(Frame(g, "children"))
  <2>1. TakesDefaults(schema, Top.owner) /\ Push(Frame(schema.defaults, "children"))
    BY <1>2 DEF BuildDefaults
  <2> QED  BY <2>1, SchemasAssumption DEF Shape, TypeOK, IsSchema, TakesDefaults
<1>3. UNCHANGED <<schema, ctOrder, drained, ctDone, attrGroups, result>>
  BY DEF EnterGroup, BuildDefaults
<1>4. PICK g \in Group : Push(Frame(g, "children"))
  BY <1>1, <1>2
<1>5. Pushed(Frame(g, "children"))
  BY <1>4, StackOps, FrameTypes DEF Shape, Owner
<1> QED  BY <1>3, <1>4, <1>5, ShapePushGroup

LEMMA NextShape == Shape /\ [Next]_vars => Shape' /\ Done \subseteq Done' /\ errs \subseteq errs'
<1> SUFFICES ASSUME Shape, [Next]_vars PROVE Shape' /\ Done \subseteq Done' /\ errs \subseteq errs'
  OBVIOUS
<1>1. CASE NextType
  BY <1>1, NextTypeBegins DEF NextType
<1>2. CASE FinishBase
  BY <1>2, FinishBaseBegins DEF FinishBase
<1>3. CASE FillContent
  BY <1>3, FillContentGoesOn DEF FillContent
<1>4. CASE OwnChild
  BY <1>4, OwnChildReads DEF OwnChild
<1>5. CASE KnownGroup
  BY <1>5, KnownGroupReads DEF KnownGroup
<1>6. CASE CircularGroup
  BY <1>6, CircularGroupReads DEF CircularGroup
<1>7. CASE EnterGroup \/ BuildDefaults
  BY <1>7, EnterGroupBegins DEF EnterGroup, BuildDefaults
<1>8. CASE CompleteGroup
  BY <1>8, GroupResult DEF CompleteGroup
<1>9. CASE Merge
  BY <1>9, MergeResult DEF Merge
<1>10. CASE FinishType
  BY <1>10, FinishResult DEF FinishType
<1>11. CASE UNCHANGED vars
  <2>1. Done' = Done
    BY <1>11 DEF vars, Done
  <2> QED  BY <1>11, <2>1 DEF vars, Shape, TypeOK, Chain, Placed, BaseDone
<1> QED  BY <1>1, <1>2, <1>3, <1>4, <1>5, <1>6, <1>7, <1>8, <1>9, <1>10, <1>11 DEF Next

-----------------------------------------------------------------------------
(* What an activation has collected: what the children it has passed give, *)
(* each group among them with everything it refers to.                     *)
PassedBy(o, pos) == {schema.children[o][i] : i \in 1..(pos - 1)}

Collects(o, pos, uses, wc, prohibited) ==
    /\ prohibited = {c.name : c \in {d \in PassedBy(o, pos) : d.kind = "prohibited"}}
    /\ NoCircularGroup => /\ ToSet(uses) = UsesOf(schema, PassedBy(o, pos))
                          /\ Meets(wc, AnyOf(schema, PassedBy(o, pos)))

CollectedBy(f) == Collects(f.owner, f.pos, f.uses, f.wc, f.prohibited)

GroupBuilt(g) ==
    NoCircularGroup => /\ ToSet(attrGroups[g].uses) = DeclaredBy(schema, Whole(schema, g))
                       /\ Meets(attrGroups[g].wc, AnyBy(schema, Whole(schema, g)))

CollectedOK ==
    /\ \A i \in 1..Len(stack) : CollectedBy(stack[i])
    /\ \A g \in DOMAIN attrGroups : GroupBuilt(g)

LEMMA CircleStays ==
    ASSUME errs \subseteq errs'
    PROVE  NoCircularGroup' => NoCircularGroup
  BY DEF NoCircularGroup, Reported

LEMMA CollectsKept ==
    ASSUME schema' = schema, errs \subseteq errs', NEW o, NEW pos, NEW uses, NEW wc, NEW prohibited,
           Collects(o, pos, uses, wc, prohibited), NEW i,
           stack'[i].owner = o, stack'[i].pos = pos, stack'[i].uses = uses, stack'[i].wc = wc,
           stack'[i].prohibited = prohibited
    PROVE  CollectedBy(stack[i])'
  BY CircleStays DEF CollectedBy, Collects, PassedBy

LEMMA BuiltKept ==
    ASSUME schema' = schema, errs \subseteq errs', NEW g, GroupBuilt(g), attrGroups'[g] = attrGroups[g]
    PROVE  GroupBuilt(g)'
  BY CircleStays DEF GroupBuilt

LEMMA BuiltAllKept ==
    ASSUME CollectedOK, UNCHANGED <<schema, attrGroups>>, errs \subseteq errs'
    PROVE  (\A g \in DOMAIN attrGroups : GroupBuilt(g))'
  BY BuiltKept DEF CollectedOK

(* A new activation has nothing yet.                                       *)
LEMMA CollectedPush ==
    ASSUME Shape, CollectedOK, NEW o \in Owner, NEW stage \in {"base", "children", "defaults"},
           Pushed(Frame(o, stage)), UNCHANGED <<schema, attrGroups>>, errs \subseteq errs'
    PROVE  CollectedOK'
<1>1. Len(stack) \in Nat /\ Len(stack') = Len(stack) + 1
  BY DEF Pushed, Shape, TypeOK
<1>2. ASSUME NEW i \in 1..Len(stack) PROVE CollectedBy(stack[i])'
  <2>1. stack'[i] = stack[i]
    BY DEF Pushed
  <2> QED  BY <2>1, CollectsKept DEF CollectedOK, CollectedBy
<1>3. ASSUME NEW i, i = Len(stack) + 1 PROVE CollectedBy(stack[i])'
  <2>1. /\ stack'[i].owner = o /\ stack'[i].pos = 1 /\ stack'[i].uses = << >> /\ stack'[i].wc = NoWildcard
        /\ stack'[i].prohibited = {}
    BY <1>3, FrameTypes DEF Pushed
  <2>2. PassedBy(o, 1) = {}
    BY DEF PassedBy
  <2>3. Collects(o, 1, << >>, NoWildcard, {})
    BY <2>2, MeetsNothing DEF Collects, UsesOf, AnyOf, ToSet
  <2> QED  BY <2>1, <2>3, CollectsKept
<1>4. ASSUME NEW i \in 1..Len(stack') PROVE CollectedBy(stack[i])'
  <2>1. i \in 1..Len(stack) \/ i = Len(stack) + 1
    BY <1>1
  <2> QED  BY <2>1, <1>2, <1>3
<1> QED  BY <1>4, BuiltAllKept DEF CollectedOK

(* The top activation moves on with what it has collected.                 *)
LEMMA CollectedContinue ==
    ASSUME Shape, CollectedOK, stack # << >>, NEW f, Continued(f), schema' = schema, errs \subseteq errs',
           Collects(f.owner, f.pos, f.uses, f.wc, f.prohibited) \/ CollectedBy(stack[Len(stack)])',
           UNCHANGED attrGroups
    PROVE  CollectedOK'
<1>1. Len(stack) \in Nat \ {0} /\ Len(stack') = Len(stack) /\ stack'[Len(stack)] = f
  BY StackOps DEF Continued, Shape
<1>2. ASSUME NEW i \in 1..(Len(stack) - 1) PROVE CollectedBy(stack[i])'
  <2>1. stack'[i] = stack[i] /\ i \in 1..Len(stack)
    BY <1>1 DEF Continued
  <2> QED  BY <2>1, CollectsKept DEF CollectedOK, CollectedBy
<1>3. CollectedBy(stack[Len(stack)])'
  <2>1. CASE Collects(f.owner, f.pos, f.uses, f.wc, f.prohibited)
    <3>1. ASSUME NEW i, i = Len(stack) PROVE CollectedBy(stack[i])'
      BY <1>1, <2>1, <3>1, CollectsKept
    <3> QED  BY <1>1, <3>1
  <2> QED  BY <2>1
<1>4. ASSUME NEW i \in 1..Len(stack') PROVE CollectedBy(stack[i])'
  <2>1. i \in 1..(Len(stack) - 1) \/ i = Len(stack)
    BY <1>1
  <2> QED  BY <2>1, <1>1, <1>2, <1>3
<1> QED  BY <1>4, BuiltAllKept DEF CollectedOK

(* Reading the child at pos.                                               *)
LEMMA PassedOneMore ==
    ASSUME NEW o, NEW pos \in Nat \ {0}
    PROVE  /\ PassedBy(o, pos + 1) = PassedBy(o, pos) \cup {schema.children[o][pos]}
           /\ UsesOf(schema, PassedBy(o, pos + 1)) = UsesOf(schema, PassedBy(o, pos)) \cup GivesUses(schema, schema.children[o][pos])
           /\ AnyOf(schema, PassedBy(o, pos + 1)) = AnyOf(schema, PassedBy(o, pos)) \cup GivesAny(schema, schema.children[o][pos])
<1>1. \A i \in 1..(pos + 1 - 1) : i \in 1..(pos - 1) \/ i = pos
  OBVIOUS
<1>2. pos \in 1..(pos + 1 - 1) /\ \A i \in 1..(pos - 1) : i \in 1..(pos + 1 - 1)
  OBVIOUS
<1>3. PassedBy(o, pos + 1) = PassedBy(o, pos) \cup {schema.children[o][pos]}
  BY <1>1, <1>2 DEF PassedBy
<1> QED  BY <1>3 DEF UsesOf, AnyOf

LEMMA CollectedOwnChild ==
    ASSUME Shape, CollectedOK, OwnChild
    PROVE  CollectedOK'
<1>1. MoreChildren /\ Child.kind # "group" /\ UNCHANGED <<schema, attrGroups, errs>>
  BY DEF OwnChild
<1>2. stack # << >> /\ Top.pos \in Nat \ {0} /\ Child = schema.children[Top.owner][Top.pos] /\ Child \in AttributeChild
  BY <1>1, ChildFacts, TopFacts DEF Activation
<1>3. Top \in Activation /\ Collects(Top.owner, Top.pos, Top.uses, Top.wc, Top.prohibited)
  BY <1>2, TopFacts DEF CollectedOK, CollectedBy
<1>4. PICK g : /\ Continued(g) /\ g.pos = Top.pos + 1 /\ g.owner = Top.owner
               /\ g.uses = Given(Top).uses /\ g.wc = Given(Top).wc /\ g.prohibited = Given(Top).prohibited
  BY OwnChildReads
<1>5. /\ g.uses = IF Child.kind = "attribute" THEN Append(Top.uses, Child.use) ELSE Top.uses
      /\ g.prohibited = IF Child.kind = "prohibited" THEN Top.prohibited \cup {Child.name} ELSE Top.prohibited
      /\ g.wc = IF Child.kind = "any" THEN WildcardIntersect(Top.wc, Child.wildcard) ELSE Top.wc
  BY <1>1, <1>3, <1>4, GivenType
<1> DEFINE o == Top.owner
           pos == Top.pos
           c == Child
           P == PassedBy(o, pos)
           Q == PassedBy(o, pos + 1)
<1>6. /\ Q = P \cup {c} /\ UsesOf(schema, Q) = UsesOf(schema, P) \cup GivesUses(schema, c)
      /\ AnyOf(schema, Q) = AnyOf(schema, P) \cup GivesAny(schema, c)
  BY <1>2, PassedOneMore
<1>7. /\ c.kind \in {"attribute", "prohibited", "any"}
      /\ c.kind = "attribute" => c.use \in AttributeUse
      /\ c.kind = "any"       => c.wildcard \in Wildcard
  BY <1>1, <1>2, ChildKinds
<1>8. /\ Top.prohibited = {x.name : x \in {d \in P : d.kind = "prohibited"}}
      /\ NoCircularGroup => ToSet(Top.uses) = UsesOf(schema, P) /\ Meets(Top.wc, AnyOf(schema, P))
  BY <1>3 DEF Collects
<1>9. Top.uses \in Seq(AttributeUse) /\ Top.wc \in Wildcard \cup {NoWildcard}
  BY <1>3 DEF Activation
<1> HIDE DEF c, P, Q
<1>10. g.prohibited = {x.name : x \in {d \in Q : d.kind = "prohibited"}}
  BY <1>5, <1>6, <1>8 DEF c
<1>11. NoCircularGroup => ToSet(g.uses) = UsesOf(schema, Q)
  <2>1. CASE c.kind = "attribute"
    <3>1. g.uses = Append(Top.uses, c.use) /\ GivesUses(schema, c) = {c.use}
      BY <1>5, <2>1 DEF GivesUses, c
    <3>2. ToSet(g.uses) = ToSet(Top.uses) \cup {c.use}
      BY <1>7, <1>9, <2>1, <3>1, AppendFacts
    <3> QED  BY <1>6, <1>8, <3>1, <3>2
  <2>2. CASE c.kind # "attribute"
    <3>1. g.uses = Top.uses /\ GivesUses(schema, c) = {}
      BY <1>5, <1>7, <2>2 DEF GivesUses, c
    <3> QED  BY <1>6, <1>8, <3>1
  <2> QED  BY <2>1, <2>2
<1>12. NoCircularGroup => Meets(g.wc, AnyOf(schema, Q))
  <2>1. CASE c.kind = "any"
    <3>1. g.wc = WildcardIntersect(Top.wc, c.wildcard) /\ GivesAny(schema, c) = {c.wildcard}
      BY <1>5, <2>1 DEF GivesAny, c
    <3>2. Meets(c.wildcard, {c.wildcard}) /\ c.wildcard \in Wildcard
      BY <1>7, <2>1, MeetsOne
    <3>3. ASSUME NoCircularGroup PROVE Meets(g.wc, AnyOf(schema, P) \cup {c.wildcard})
      BY <1>8, <1>9, <3>1, <3>2, <3>3, MeetsBoth, SMTT(20)
    <3> QED  BY <1>6, <3>1, <3>3
  <2>2. CASE c.kind # "any"
    <3>1. g.wc = Top.wc /\ GivesAny(schema, c) = {}
      BY <1>5, <1>7, <2>2 DEF GivesAny, c
    <3> QED  BY <1>6, <1>8, <3>1
  <2> QED  BY <2>1, <2>2
<1>13. Collects(g.owner, g.pos, g.uses, g.wc, g.prohibited)
  BY <1>4, <1>10, <1>11, <1>12 DEF Collects, Q
<1> QED  BY <1>1, <1>2, <1>4, <1>13, CollectedContinue

LEMMA CollectedKnownGroup ==
    ASSUME Shape, CollectedOK, KnownGroup
    PROVE  CollectedOK'
<1>1. MoreChildren /\ Child.kind = "group" /\ Child.ref \in DOMAIN attrGroups /\ UNCHANGED <<schema, attrGroups, errs>>
  BY DEF KnownGroup
<1>2. stack # << >> /\ Top.pos \in Nat \ {0} /\ Child = schema.children[Top.owner][Top.pos]
  BY <1>1, ChildFacts, TopFacts DEF Activation
<1>3. Top \in Activation /\ Collects(Top.owner, Top.pos, Top.uses, Top.wc, Top.prohibited)
  BY <1>2, TopFacts DEF CollectedOK, CollectedBy
<1> DEFINE a == attrGroups[Child.ref]
<1>4. PICK g : /\ Continued(g) /\ g.pos = Top.pos + 1 /\ g.owner = Top.owner
               /\ g.uses = Top.uses \o a.uses /\ g.wc = WildcardIntersect(Top.wc, a.wc) /\ g.prohibited = Top.prohibited
  BY KnownGroupReads
<1> DEFINE o == Top.owner
           pos == Top.pos
           c == Child
           P == PassedBy(o, pos)
           Q == PassedBy(o, pos + 1)
<1>6. /\ Q = P \cup {c} /\ UsesOf(schema, Q) = UsesOf(schema, P) \cup GivesUses(schema, c)
      /\ AnyOf(schema, Q) = AnyOf(schema, P) \cup GivesAny(schema, c)
  BY <1>2, PassedOneMore
<1>7. /\ GivesUses(schema, c) = DeclaredBy(schema, Whole(schema, c.ref))
      /\ GivesAny(schema, c) = AnyBy(schema, Whole(schema, c.ref))
  BY <1>1 DEF GivesUses, GivesAny
<1>8. /\ Top.prohibited = {x.name : x \in {d \in P : d.kind = "prohibited"}}
      /\ NoCircularGroup => ToSet(Top.uses) = UsesOf(schema, P) /\ Meets(Top.wc, AnyOf(schema, P))
  BY <1>3 DEF Collects
<1>9. Top.uses \in Seq(AttributeUse) /\ Top.wc \in Wildcard \cup {NoWildcard}
  BY <1>3 DEF Activation
<1>9a. a.uses \in Seq(AttributeUse) /\ a.wc \in Wildcard \cup {NoWildcard}
  BY <1>1 DEF Shape, TypeOK, Attributes
<1>9b. NoCircularGroup => /\ ToSet(a.uses) = DeclaredBy(schema, Whole(schema, c.ref))
                          /\ Meets(a.wc, AnyBy(schema, Whole(schema, c.ref)))
  BY <1>1 DEF CollectedOK, GroupBuilt
<1> HIDE DEF P, Q, a, c
<1>10. g.prohibited = {x.name : x \in {d \in Q : d.kind = "prohibited"}}
  BY <1>1, <1>4, <1>6, <1>8 DEF c
<1>11. g.uses = Top.uses \o a.uses /\ g.wc = WildcardIntersect(Top.wc, a.wc)
  BY <1>4 DEF a
<1>12. NoCircularGroup => ToSet(g.uses) = UsesOf(schema, Q) /\ Meets(g.wc, AnyOf(schema, Q))
  <2> SUFFICES ASSUME NoCircularGroup PROVE ToSet(g.uses) = UsesOf(schema, Q) /\ Meets(g.wc, AnyOf(schema, Q))
    OBVIOUS
  <2>1. ToSet(Top.uses) = UsesOf(schema, P) /\ Meets(Top.wc, AnyOf(schema, P))
    BY <1>8
  <2>2. ToSet(a.uses) = GivesUses(schema, c) /\ Meets(a.wc, GivesAny(schema, c))
    BY <1>7, <1>9b
  <2>3. ToSet(g.uses) = ToSet(Top.uses) \cup ToSet(a.uses)
    BY <1>9, <1>9a, <1>11, SeqFacts
  <2>4. Meets(g.wc, AnyOf(schema, P) \cup GivesAny(schema, c))
    BY <1>9, <1>9a, <1>11, <2>1, <2>2, MeetsBoth
  <2> QED  BY <1>6, <2>1, <2>2, <2>3, <2>4
<1>13. Collects(g.owner, g.pos, g.uses, g.wc, g.prohibited)
  BY <1>4, <1>10, <1>12 DEF Collects, Q
<1> QED  BY <1>1, <1>2, <1>4, <1>13, CollectedContinue

(* After a circular reference only the prohibited names are claimed.       *)
LEMMA CollectedCircularGroup ==
    ASSUME Shape, CollectedOK, CircularGroup
    PROVE  CollectedOK'
<1>1. /\ MoreChildren /\ Child.kind = "group" /\ UNCHANGED <<schema, attrGroups>>
      /\ errs' = errs \cup {Error("src-attribute_group", Child.ref)}
  BY DEF CircularGroup
<1>2. stack # << >> /\ Top.pos \in Nat \ {0} /\ Child = schema.children[Top.owner][Top.pos] /\ Child \in AttributeChild
  BY <1>1, ChildFacts, TopFacts DEF Activation
<1>3. Top \in Activation /\ Collects(Top.owner, Top.pos, Top.uses, Top.wc, Top.prohibited) /\ Top = stack[Len(stack)]
  BY <1>2, TopFacts DEF CollectedOK, CollectedBy
<1>4. PICK g : Continued(g) /\ g.pos = Top.pos + 1 /\ g.owner = Top.owner /\ g.prohibited = Top.prohibited
  BY <1>3, CircularGroupReads DEF WithNothing, Advance, Activation
<1>5. PassedBy(Top.owner, Top.pos + 1) = PassedBy(Top.owner, Top.pos) \cup {Child}
  BY <1>2, PassedOneMore
<1>6. g.prohibited = {x.name : x \in {d \in PassedBy(Top.owner, Top.pos + 1) : d.kind = "prohibited"}}
  BY <1>1, <1>3, <1>4, <1>5 DEF Collects
<1>7. ~NoCircularGroup'
  <2>1. Child.ref \in Group
    BY <1>1, <1>2, ChildKinds
  <2> QED  BY <1>1, <2>1 DEF NoCircularGroup, Reported
<1>8. Len(stack') = Len(stack) /\ stack'[Len(stack)] = g
  BY <1>4 DEF Continued
<1>9. ASSUME NEW i, i = Len(stack) PROVE CollectedBy(stack[i])'
  <2>1. stack'[i] = g
    BY <1>8, <1>9
  <2>2. Collects(g.owner, g.pos, g.uses, g.wc, g.prohibited)'
    <3>1. PassedBy(g.owner, g.pos)' = PassedBy(Top.owner, Top.pos + 1)
      BY <1>1, <1>4 DEF PassedBy
    <3> QED  BY <1>6, <1>7, <3>1 DEF Collects
  <2> QED  BY <2>1, <2>2 DEF CollectedBy, Collects, PassedBy
<1>10. CollectedBy(stack[Len(stack)])'
  BY <1>8, <1>9
<1>11. errs \subseteq errs'
  BY <1>1
<1> QED  BY <1>1, <1>2, <1>4, <1>10, <1>11, CollectedContinue

LEMMA CollectedCompleteGroup ==
    ASSUME Shape, CollectedOK, CompleteGroup
    PROVE  CollectedOK'
<1> DEFINE o == Top.owner
<1>1. /\ o \in Group /\ Popped /\ stack # << >> /\ Top = stack[Len(stack)]
      /\ Top.pos = Len(schema.children[o]) + 1
      /\ attrGroups'[o].uses = Top.uses /\ attrGroups'[o].wc = Top.wc
      /\ DOMAIN attrGroups' = DOMAIN attrGroups \cup {o}
      /\ \A g \in DOMAIN attrGroups \ {o} : attrGroups'[g] = attrGroups[g]
  BY GroupResult
<1>2. schema' = schema /\ errs \subseteq errs'
  BY DEF CompleteGroup
<1>3. /\ Len(stack) \in Nat \ {0} /\ Collects(o, Top.pos, Top.uses, Top.wc, Top.prohibited)
      /\ schema.children[o] \in Seq(AttributeChild)
  BY <1>1, TopFacts DEF CollectedOK, CollectedBy
<1>4. PassedBy(o, Top.pos) = ToSet(schema.children[o])
  <2>1. DOMAIN schema.children[o] = 1..(Top.pos - 1)
    BY <1>1, <1>3
  <2> QED  BY <2>1 DEF PassedBy, ToSet
<1>5. NoCircularGroup => /\ ToSet(Top.uses) = DeclaredBy(schema, Whole(schema, o))
                         /\ Meets(Top.wc, AnyBy(schema, Whole(schema, o)))
  <2>1. o \in Owner /\ schema \in Schemas
    BY <1>1 DEF Owner, Shape, TypeOK
  <2> QED  BY <1>3, <1>4, <2>1, WholeByChildren DEF Collects
<1>6. ASSUME NEW g \in DOMAIN attrGroups' PROVE GroupBuilt(g)'
  <2>1. CASE g = o
    BY <2>1, <1>1, <1>2, <1>5, CircleStays DEF GroupBuilt
  <2>2. CASE g # o
    BY <2>2, <1>1, <1>2, BuiltKept DEF CollectedOK
  <2> QED  BY <2>1, <2>2
<1>7. ASSUME NEW i \in 1..Len(stack') PROVE CollectedBy(stack[i])'
  <2>1. stack'[i] = stack[i] /\ i \in 1..Len(stack)
    BY <1>1, <1>3 DEF Popped
  <2> QED  BY <2>1, <1>2, CollectsKept DEF CollectedOK, CollectedBy
<1> QED  BY <1>6, <1>7 DEF CollectedOK

LEMMA InitCollected == Init => CollectedOK
  BY DEF Init, CollectedOK

LEMMA NextCollected == Shape /\ CollectedOK /\ [Next]_vars => CollectedOK'
<1> SUFFICES ASSUME Shape, CollectedOK, [Next]_vars PROVE CollectedOK'
  OBVIOUS
<1>1. CASE NextType
  <2>1. UNCHANGED <<schema, attrGroups, errs>>
    BY <1>1 DEF NextType
  <2>2. CASE UNCHANGED stack
    <3>1. ASSUME NEW i \in 1..Len(stack') PROVE CollectedBy(stack[i])'
      BY <2>1, <2>2, CollectsKept DEF CollectedOK, CollectedBy
    <3> QED  BY <2>1, <3>1, BuiltAllKept DEF CollectedOK
  <2>3. CASE \E t \in Type : Pushed(Frame(t, "base"))
    BY <2>1, <2>3, CollectedPush DEF Owner
  <2> QED  BY <1>1, <2>2, <2>3, NextTypeBegins
<1>2. CASE FinishBase
  BY <1>2, FinishBaseBegins, CollectedPush DEF FinishBase, Owner
<1>3. CASE FillContent
  <2>1. UNCHANGED <<schema, attrGroups, errs>> /\ stack # << >>
    BY <1>3 DEF FillContent, At
  <2>2. PICK f : /\ Continued(f) /\ f.owner = Top.owner /\ f.pos = Top.pos
                 /\ f.uses = Top.uses /\ f.wc = Top.wc /\ f.prohibited = Top.prohibited
    BY <1>3, FillContentGoesOn
  <2>3. Collects(f.owner, f.pos, f.uses, f.wc, f.prohibited)
    BY <2>1, <2>2, TopFacts DEF CollectedOK, CollectedBy
  <2> QED  BY <2>1, <2>2, <2>3, CollectedContinue
<1>4. CASE OwnChild
  BY <1>4, CollectedOwnChild
<1>5. CASE KnownGroup
  BY <1>5, CollectedKnownGroup
<1>6. CASE CircularGroup
  BY <1>6, CollectedCircularGroup
<1>7. CASE EnterGroup \/ BuildDefaults
  <2>1. UNCHANGED <<schema, attrGroups, errs>>
    BY <1>7 DEF EnterGroup, BuildDefaults
  <2> QED  BY <1>7, <2>1, EnterGroupBegins, CollectedPush DEF Owner
<1>8. CASE CompleteGroup
  BY <1>8, CollectedCompleteGroup
<1>9. CASE Merge
  <2>1. UNCHANGED <<schema, attrGroups>> /\ errs \subseteq errs' /\ stack # << >>
    BY <1>9, MergeResult DEF Merge
  <2>2. PICK f : /\ Continued(f) /\ f.owner = Top.owner /\ f.pos = Top.pos
                 /\ f.uses = Top.uses /\ f.wc = Top.wc /\ f.prohibited = Top.prohibited
    BY <1>9, MergeResult
  <2>3. Collects(f.owner, f.pos, f.uses, f.wc, f.prohibited)
    BY <2>1, <2>2, TopFacts DEF CollectedOK, CollectedBy
  <2> QED  BY <2>1, <2>2, <2>3, CollectedContinue
<1>10. CASE FinishType
  <2>1. UNCHANGED <<schema, attrGroups>> /\ errs \subseteq errs' /\ Popped /\ stack # << >>
    BY <1>10, FinishResult DEF FinishType
  <2>2. Len(stack) \in Nat \ {0}
    BY <2>1, TopFacts
  <2>3. ASSUME NEW i \in 1..Len(stack') PROVE CollectedBy(stack[i])'
    <3>1. stack'[i] = stack[i] /\ i \in 1..Len(stack)
      BY <2>1, <2>2 DEF Popped
    <3> QED  BY <3>1, <2>1, CollectsKept DEF CollectedOK, CollectedBy
  <2> QED  BY <2>1, <2>3, BuiltAllKept DEF CollectedOK
<1>11. CASE UNCHANGED vars
  <2>1. UNCHANGED <<schema, attrGroups, errs, stack>>
    BY <1>11 DEF vars
  <2>2. ASSUME NEW i \in 1..Len(stack') PROVE CollectedBy(stack[i])'
    BY <2>1, CollectsKept DEF CollectedOK, CollectedBy
  <2> QED  BY <2>1, <2>2, BuiltAllKept DEF CollectedOK
<1> QED  BY <1>1, <1>2, <1>3, <1>4, <1>5, <1>6, <1>7, <1>8, <1>9, <1>10, <1>11 DEF Next

-----------------------------------------------------------------------------
(* What a type's result r has to do with the schema and its base's, b.     *)
Keeps(t, r, b) ==
    Extends(schema, t) =>
        /\ SoundLine(t) => ToSet(b.uses) \subseteq ToSet(r.uses)
        /\ \A q \in Name, ctx \in Context : Admits(b.wc, q, ctx) => Admits(r.wc, q, ctx)

Narrows(t, r, b) ==
    ~Extends(schema, t) /\ ~Reported("derivation-ok-restriction", t) =>
        \A q \in Name, ctx \in Context : Admits(r.wc, q, ctx) => Admits(b.wc, q, ctx)

With(own, inherited, t) ==
    own \cup (IF Extends(schema, t) THEN inherited
              ELSE {u \in inherited : u.name \notin Prohibited(schema, t) \cup {x.name : x \in own}})

HasMerged(t, r, b) ==
    NoCircularGroup /\ SoundLine(t) =>
        ToSet(r.uses) = With(DeclaredBy(schema, Whole(schema, t)), ToSet(b.uses), t)

HasMapped(t, r) == NoCircularGroup /\ SoundLine(t) => ToSet(r.uses) = MappedUses(schema)[t]

NoRepeat(t, r) == ~Reported("ct-props-correct", t) => ~RepeatsName(r.uses)

Plain(t) == \A x \in Ancestors(schema, t) : ~TakesDefaults(schema, x) /\ x \notin schema.simple

AdmitsMapped(t, r) ==
    NoCircularGroup /\ Plain(t) => {q \in Name : AdmitsName(r.wc, q)} = MappedNames(schema)[t]

(* ... once merged, and once the default attributes are there.             *)
MergedOK(t, r, b) == Keeps(t, r, b) /\ Narrows(t, r, b) /\ HasMerged(t, r, b) /\ AdmitsMapped(t, r)

FinalOK(t, r, b) ==
    /\ Keeps(t, r, b) /\ (~TakesDefaults(schema, t) => Narrows(t, r, b))
    /\ HasMapped(t, r) /\ NoRepeat(t, r) /\ AdmitsMapped(t, r)

ResultsOK ==
    /\ result[AnyType] = [uses |-> << >>, wc |-> AnyWildcard]
    /\ \A t \in Done : FinalOK(t, result[t], result[schema.base[t]])
    /\ \A i \in 1..Len(stack) : stack[i].stage = "defaults" =>
          MergedOK(stack[i].owner, result[stack[i].owner], result[schema.base[stack[i].owner]])

LEMMA ErrorsStay ==
    ASSUME schema' = schema, errs \subseteq errs', NEW t
    PROVE  /\ SoundLine(t)' => SoundLine(t)
           /\ NoCircularGroup' => NoCircularGroup
           /\ Plain(t)' <=> Plain(t)
           /\ \A kind : Reported(kind, t) => Reported(kind, t)'
  BY DEF SoundLine, NoCircularGroup, Plain, Reported

LEMMA FinalKept ==
    ASSUME schema' = schema, errs \subseteq errs', NEW t, NEW r, NEW b, FinalOK(t, r, b),
           result'[t] = r, result'[schema.base[t]] = b
    PROVE  FinalOK(t, result[t], result[schema.base[t]])'
<1>1. /\ SoundLine(t)' => SoundLine(t)
      /\ NoCircularGroup' => NoCircularGroup
      /\ Plain(t)' <=> Plain(t)
      /\ \A kind : Reported(kind, t) => Reported(kind, t)'
  BY ErrorsStay
<1>2. Keeps(t, r, b)'
  BY <1>1 DEF FinalOK, Keeps
<1>3. ~TakesDefaults(schema, t)' => Narrows(t, r, b)'
  BY <1>1 DEF FinalOK, Narrows
<1>4. HasMapped(t, r)'
  BY <1>1 DEF FinalOK, HasMapped
<1>5. NoRepeat(t, r)'
  BY <1>1 DEF FinalOK, NoRepeat
<1>6. AdmitsMapped(t, r)'
  BY <1>1 DEF FinalOK, AdmitsMapped
<1>7. FinalOK(t, r, b)'
  BY <1>2, <1>3, <1>4, <1>5, <1>6 DEF FinalOK
<1> QED  BY <1>7 DEF FinalOK, Keeps, Narrows, HasMapped, NoRepeat, AdmitsMapped

LEMMA MergedKept ==
    ASSUME schema' = schema, errs \subseteq errs', NEW t, NEW r, NEW b, MergedOK(t, r, b), NEW i,
           stack'[i].owner = t, result'[t] = r, result'[schema.base[t]] = b
    PROVE  MergedOK(stack[i].owner, result[stack[i].owner], result[schema.base[stack[i].owner]])'
<1>1. /\ SoundLine(t)' => SoundLine(t)
      /\ NoCircularGroup' => NoCircularGroup
      /\ Plain(t)' <=> Plain(t)
      /\ \A kind : Reported(kind, t) => Reported(kind, t)'
  BY ErrorsStay
<1>2. Keeps(t, r, b)'
  BY <1>1 DEF MergedOK, Keeps
<1>3. Narrows(t, r, b)'
  BY <1>1 DEF MergedOK, Narrows
<1>4. HasMerged(t, r, b)'
  BY <1>1 DEF MergedOK, HasMerged, With
<1>5. AdmitsMapped(t, r)'
  BY <1>1 DEF MergedOK, AdmitsMapped
<1>6. MergedOK(t, r, b)'
  BY <1>2, <1>3, <1>4, <1>5 DEF MergedOK
<1> QED  BY <1>6

(* A step that gives no results.                                           *)
LEMMA ResultsSame ==
    ASSUME ResultsOK, UNCHANGED <<schema, result>>, errs \subseteq errs', Done' \subseteq Done,
           \A i \in 1..Len(stack') : stack'[i].stage = "defaults" =>
              \E j \in 1..Len(stack) : stack[j].stage = "defaults" /\ stack[j].owner = stack'[i].owner
    PROVE  ResultsOK'
<1>1. ASSUME NEW t \in Done' PROVE FinalOK(t, result[t], result[schema.base[t]])'
  <2>1. FinalOK(t, result[t], result[schema.base[t]])
    BY DEF ResultsOK
  <2> QED  BY <2>1, FinalKept
<1>2. ASSUME NEW i \in 1..Len(stack'), stack'[i].stage = "defaults"
      PROVE  MergedOK(stack[i].owner, result[stack[i].owner], result[schema.base[stack[i].owner]])'
  <2>1. PICK j \in 1..Len(stack) : stack[j].stage = "defaults" /\ stack[j].owner = stack'[i].owner
    BY <1>2
  <2>2. PICK t : t = stack[j].owner
    OBVIOUS
  <2>3. MergedOK(t, result[t], result[schema.base[t]])
    BY <2>1, <2>2 DEF ResultsOK
  <2> QED  BY <2>1, <2>2, <2>3, MergedKept
<1> QED  BY <1>1, <1>2 DEF ResultsOK

(* What a finished base brings.                                            *)
LEMMA BaseBrings ==
    ASSUME Shape, ResultsOK, NEW t \in Type, BaseDone(t), NEW b, b = result[schema.base[t]]
    PROVE  /\ b \in Attributes
           /\ SoundLine(t) => ~RepeatsName(b.uses)
           /\ NoCircularGroup /\ SoundLine(t) => ToSet(b.uses) = Inherited(schema, t)
           /\ NoCircularGroup /\ Plain(t) => {q \in Name : AdmitsName(b.wc, q)} = InheritedNames(schema, t)
<1>1. schema \in Schemas /\ schema.base[t] \in Type \cup {AnyType} /\ AnyType \notin Type
  BY SchemasAssumption DEF Shape, TypeOK, IsSchema
<1>2. b \in Attributes
  BY <1>1 DEF BaseDone, Shape, TypeOK
<1>3. CASE schema.base[t] = AnyType
  <2>1. b = [uses |-> << >>, wc |-> AnyWildcard]
    BY <1>3 DEF ResultsOK
  <2>2. ToSet(b.uses) = {} /\ NamesOf(b.uses) = {} /\ Len(b.uses) = 0
    BY <2>1 DEF ToSet, NamesOf
  <2>3. ~RepeatsName(b.uses)
    BY <2>2, FS_EmptySet DEF RepeatsName
  <2>4. \A q \in Name : AdmitsName(b.wc, q)
    <3>1. AnyWildcard \in Wildcard /\ AnyWildcard.mode = "any" /\ AnyWildcard.notQName = {} /\ b.wc = AnyWildcard
      BY <2>1 DEF AnyWildcard, Wildcard, Lax, Strict, Skip, Keyword
    <3>2. \A q \in Name : AllowsName(AnyWildcard, q)
      BY <3>1 DEF AllowsName, AllowsNamespace
    <3> QED  BY <3>1, <3>2, NoWildcardAssumption DEF AdmitsName
  <2> QED  BY <1>2, <1>3, <2>2, <2>3, <2>4 DEF Inherited, InheritedNames
<1>4. CASE schema.base[t] # AnyType
  <2> DEFINE x == schema.base[t]
  <2>1. x \in Type /\ x \in Done
    BY <1>1, <1>4 DEF BaseDone
  <2>2. FinalOK(x, b, result[schema.base[x]])
    BY <2>1 DEF ResultsOK
  <2>3. x \in Ancestors(schema, x) /\ Ancestors(schema, x) \subseteq Ancestors(schema, t)
    BY <1>1, <2>1, AncestorsAre
  <2>4. SoundLine(t) => SoundLine(x) /\ ~Reported("ct-props-correct", x)
    BY <2>3 DEF SoundLine
  <2>5. Plain(t) => Plain(x)
    BY <2>3 DEF Plain
  <2> QED  BY <1>2, <1>4, <2>2, <2>4, <2>5 DEF FinalOK, HasMapped, NoRepeat, AdmitsMapped, Inherited, InheritedNames
<1> QED  BY <1>3, <1>4

(* mergeBaseAttrUses takes over the base's uses that the derivation calls  *)
(* for, provided the base has no name twice.                               *)
LEMMA InheritsAll ==
    ASSUME NEW own \in Seq(AttributeUse), NEW base \in Seq(AttributeUse), ~RepeatsName(base),
           NEW prohibited, NEW override \in BOOLEAN
    PROVE  {base[i] : i \in InheritedAt(own, base, prohibited, override)}
             = {u \in ToSet(base) : u.name \notin NamesOf(own) /\ (override => u.name \notin prohibited)}
<1>1. DOMAIN base = 1..Len(base) /\ Len(base) \in Nat
  OBVIOUS
<1>2. \A i \in DOMAIN base : \A j \in 1..(i - 1) : base[j].name # base[i].name
  <2> SUFFICES ASSUME NEW i \in 1..Len(base), NEW j \in 1..(i - 1) PROVE base[j].name # base[i].name
    BY <1>1
  <2>1. j \in 1..Len(base) /\ j # i
    BY <1>1
  <2> QED  BY <2>1, NamedOnce
<1> QED  BY <1>2 DEF InheritedAt, ToSet

LEMMA NamesAre ==
    ASSUME NEW uses \in Seq(AttributeUse)
    PROVE  NamesOf(uses) = {u.name : u \in ToSet(uses)}
  BY DEF NamesOf, ToSet

(* The uses of a type just merged, with its own uses, a prohibited set and *)
(* the uses of its base.                                                   *)
LEMMA MergeUsesKept ==
    ASSUME NEW own \in Seq(AttributeUse), NEW base \in Seq(AttributeUse), NEW prohibited, ~RepeatsName(base),
           NEW override \in BOOLEAN, ~override => NamesOf(own) \cap NamesOf(base) = {}
    PROVE  /\ ~override => ToSet(MergeBaseAttrUses(own, base, prohibited, override)) = ToSet(own) \cup ToSet(base)
           /\ override =>
                ToSet(MergeBaseAttrUses(own, base, prohibited, override))
                  = ToSet(own) \cup {u \in ToSet(base) : u.name \notin prohibited \cup {x.name : x \in ToSet(own)}}
<1>1. ToSet(MergeBaseAttrUses(own, base, prohibited, override))
        = ToSet(own) \cup {base[i] : i \in InheritedAt(own, base, prohibited, override)}
  BY MergedAre
<1>2. {base[i] : i \in InheritedAt(own, base, prohibited, override)}
        = {u \in ToSet(base) : u.name \notin NamesOf(own) /\ (override => u.name \notin prohibited)}
  BY InheritsAll
<1>3. NamesOf(own) = {x.name : x \in ToSet(own)} /\ NamesOf(base) = {x.name : x \in ToSet(base)}
  BY NamesAre
<1>4. ASSUME ~override
      PROVE  {u \in ToSet(base) : u.name \notin NamesOf(own) /\ (override => u.name \notin prohibited)} = ToSet(base)
  BY <1>3, <1>4
<1>5. ASSUME override
      PROVE  {u \in ToSet(base) : u.name \notin NamesOf(own) /\ (override => u.name \notin prohibited)}
               = {u \in ToSet(base) : u.name \notin prohibited \cup {x.name : x \in ToSet(own)}}
  BY <1>3, <1>5
<1> QED  BY <1>1, <1>2, <1>4, <1>5

(* The wildcard of a type just merged.                                     *)
LEMMA MergeAdmits ==
    ASSUME NEW t, NEW own \in Wildcard \cup {NoWildcard}, NEW base \in Wildcard \cup {NoWildcard}, Extends(schema, t),
           NEW q \in Name, NEW ctx \in Context, Admits(base, q, ctx)
    PROVE  Admits(MergeWildcard(schema, t, own, base), q, ctx)
<1>1. CASE own = NoWildcard
  BY <1>1 DEF MergeWildcard
<1>2. CASE own # NoWildcard
  <2>1. base # NoWildcard /\ base \in Wildcard /\ own \in Wildcard /\ Allows(base, q, ctx)
    BY <1>2 DEF Admits
  <2>2. Allows(WildcardUnion(base, own), q, ctx) /\ WildcardUnion(base, own) # NoWildcard
    BY <2>1, UnionKeepsBoth, UnionType, NoWildcardAssumption
  <2> QED  BY <1>2, <2>1, <2>2 DEF MergeWildcard, Admits
<1> QED  BY <1>1, <1>2

LEMMA MergeNarrows ==
    ASSUME NEW t, NEW own \in Wildcard \cup {NoWildcard}, NEW base \in Wildcard \cup {NoWildcard}, ~Extends(schema, t),
           WildcardRestricts(own, base), NEW q \in Name, NEW ctx \in Context,
           Admits(MergeWildcard(schema, t, own, base), q, ctx)
    PROVE  Admits(base, q, ctx)
<1>1. CASE own = NoWildcard
  BY <1>1 DEF MergeWildcard, Admits
<1>2. CASE own # NoWildcard
  <2>1. Allows(own, q, ctx) /\ base # NoWildcard /\ NamespaceConstraintSubset(own, base)
    BY <1>2 DEF MergeWildcard, Admits, WildcardRestricts
  <2> QED  BY <1>2, <2>1, SubsetSound DEF Admits
<1> QED  BY <1>1, <1>2

LEMMA MergeNames ==
    ASSUME NEW t, NEW own \in Wildcard \cup {NoWildcard}, NEW base \in Wildcard \cup {NoWildcard},
           t \notin schema.simple, NEW W, Meets(own, W), NEW q \in Name
    PROVE  AdmitsName(MergeWildcard(schema, t, own, base), q)
             <=> q \in Complete(W) \/ (Extends(schema, t) /\ AdmitsName(base, q))
<1>1. q \in Complete(W) <=> AdmitsName(own, q)
  BY DEF Complete, Meets, AdmitsName
<1>2. CASE own = NoWildcard \/ base = NoWildcard \/ ~Extends(schema, t)
  BY <1>1, <1>2 DEF MergeWildcard, AdmitsName
<1>3. CASE own # NoWildcard /\ base # NoWildcard /\ Extends(schema, t)
  <2>1. WildcardUnion(base, own) \in Wildcard /\ WildcardUnion(base, own) # NoWildcard
    BY <1>3, UnionType, NoWildcardAssumption
  <2>2. AllowsName(WildcardUnion(base, own), q) <=> AllowsName(base, q) \/ AllowsName(own, q)
    BY <1>3, UnionExact
  <2> QED  BY <1>1, <1>3, <2>1, <2>2 DEF MergeWildcard, AdmitsName
<1> QED  BY <1>2, <1>3

(* What the activation of a type that has read all its children collected. *)
LEMMA AllCollected ==
    ASSUME Shape, CollectedOK, stack # << >>, Top.owner \in Type, Top.pos = Len(schema.children[Top.owner]) + 1
    PROVE  /\ Top.prohibited = Prohibited(schema, Top.owner)
           /\ NoCircularGroup => /\ ToSet(Top.uses) = DeclaredBy(schema, Whole(schema, Top.owner))
                                 /\ Meets(Top.wc, AnyBy(schema, Whole(schema, Top.owner)))
<1> DEFINE o == Top.owner
<1>1. /\ Len(stack) \in Nat \ {0} /\ Collects(o, Top.pos, Top.uses, Top.wc, Top.prohibited)
      /\ schema.children[o] \in Seq(AttributeChild) /\ o \in Owner /\ schema \in Schemas
  BY TopFacts DEF CollectedOK, CollectedBy, Shape, TypeOK
<1>2. PassedBy(o, Top.pos) = ToSet(schema.children[o])
  <2>1. DOMAIN schema.children[o] = 1..(Top.pos - 1)
    BY <1>1
  <2> QED  BY <2>1 DEF PassedBy, ToSet
<1>3. Top.prohibited = Prohibited(schema, o)
  BY <1>1, <1>2 DEF Collects, Prohibited, Members
<1>4. NoCircularGroup => /\ ToSet(Top.uses) = DeclaredBy(schema, Whole(schema, o))
                         /\ Meets(Top.wc, AnyBy(schema, Whole(schema, o)))
  BY <1>1, <1>2, WholeByChildren DEF Collects
<1> QED  BY <1>3, <1>4

LEMMA Merging ==
    ASSUME Shape, CollectedOK, ResultsOK, Merge, NEW t, t = Top.owner,
           NEW r, r = result'[t], NEW b, b = result[schema.base[t]]
    PROVE  MergedOK(t, r, b)'
<1>1. /\ t \in Type /\ BaseDone(t) /\ Top.pos = Len(schema.children[t]) + 1 /\ stack # << >>
      /\ r.uses = MergedUses(t) /\ r.wc = MergedWildcard(t)
  BY MergeResult
<1>2. schema' = schema /\ errs' = errs \cup MergeErrs(t, Top.uses, Top.wc, b)
  BY DEF Merge
<1>3. /\ b \in Attributes
      /\ SoundLine(t) => ~RepeatsName(b.uses)
      /\ NoCircularGroup /\ SoundLine(t) => ToSet(b.uses) = Inherited(schema, t)
      /\ NoCircularGroup /\ Plain(t) => {q \in Name : AdmitsName(b.wc, q)} = InheritedNames(schema, t)
  BY <1>1, BaseBrings
<1>4. PICK own, wc, hid : own = Top.uses /\ wc = Top.wc /\ hid = Top.prohibited
  OBVIOUS
<1>5. own \in Seq(AttributeUse) /\ wc \in Wildcard \cup {NoWildcard} /\ schema \in Schemas
  BY <1>1, <1>4, TopFacts DEF Activation, Shape, TypeOK
<1>6. b.uses \in Seq(AttributeUse) /\ b.wc \in Wildcard \cup {NoWildcard}
  BY <1>3 DEF Attributes
<1>7. /\ hid = Prohibited(schema, t)
      /\ NoCircularGroup => ToSet(own) = DeclaredBy(schema, Whole(schema, t)) /\ Meets(wc, AnyBy(schema, Whole(schema, t)))
  BY <1>1, <1>4, AllCollected
<1>8. r.uses = MergeBaseAttrUses(own, b.uses, hid, ~Extends(schema, t)) /\ r.wc = MergeWildcard(schema, t, wc, b.wc)
  BY <1>1, <1>4 DEF MergedUses, MergedWildcard
<1>9. errs \subseteq errs' /\ errs' = errs \cup MergeErrs(t, own, wc, b)
  BY <1>2, <1>4
<1>10. /\ SoundLine(t)' => SoundLine(t)
       /\ NoCircularGroup' => NoCircularGroup
       /\ Plain(t)' => Plain(t)
  BY <1>2, <1>9, ErrorsStay
<1>11. ASSUME SoundLine(t)'
       PROVE  ~RepeatsName(b.uses) /\ (Extends(schema, t) => NamesOf(own) \cap NamesOf(b.uses) = {})
  <2>1. t \in Ancestors(schema, t)
    BY <1>1, <1>5, AncestorsAre
  <2>2. Error("ct-props-correct", t) \notin errs'
    BY <1>2, <1>11, <2>1 DEF SoundLine, Reported
  <2>3. Extends(schema, t) => NamesOf(own) \cap NamesOf(b.uses) = {}
    BY <1>9, <2>2 DEF MergeErrs
  <2> QED  BY <1>3, <1>10, <1>11, <2>3
<1>12. ASSUME SoundLine(t)'
       PROVE  ToSet(r.uses) = With(ToSet(own), ToSet(b.uses), t)
  <2>1. /\ Extends(schema, t) => ToSet(r.uses) = ToSet(own) \cup ToSet(b.uses)
        /\ ~Extends(schema, t) =>
              ToSet(r.uses) = ToSet(own) \cup {u \in ToSet(b.uses) : u.name \notin hid \cup {x.name : x \in ToSet(own)}}
    <3>1. PICK override \in BOOLEAN : override = (~Extends(schema, t))
      BY DEF Extends
    <3>2. PICK base : base = b.uses
      OBVIOUS
    <3>3. r.uses = MergeBaseAttrUses(own, base, hid, override)
      BY <1>8, <3>1, <3>2
    <3>4. base \in Seq(AttributeUse) /\ ~RepeatsName(base) /\ (~override => NamesOf(own) \cap NamesOf(base) = {})
      BY <1>6, <1>11, <1>12, <3>1, <3>2
    <3>5. /\ ~override => ToSet(r.uses) = ToSet(own) \cup ToSet(base)
          /\ override =>
                ToSet(r.uses) = ToSet(own) \cup {u \in ToSet(base) : u.name \notin hid \cup {x.name : x \in ToSet(own)}}
      BY <1>5, <3>3, <3>4, MergeUsesKept
    <3> QED  BY <3>1, <3>2, <3>5
  <2> QED  BY <2>1, <1>7 DEF With
<1>13. Keeps(t, r, b)'
  <2>1. ASSUME Extends(schema, t), SoundLine(t)' PROVE ToSet(b.uses) \subseteq ToSet(r.uses)
    BY <2>1, <1>12 DEF With
  <2>2. ASSUME Extends(schema, t), NEW q \in Name, NEW ctx \in Context, Admits(b.wc, q, ctx) PROVE Admits(r.wc, q, ctx)
    BY <2>2, <1>5, <1>6, <1>8, MergeAdmits
  <2> QED  BY <2>1, <2>2, <1>2 DEF Keeps
<1>14. Narrows(t, r, b)'
  <2>1. ASSUME ~Extends(schema, t), ~Reported("derivation-ok-restriction", t)' PROVE WildcardRestricts(wc, b.wc)
    BY <2>1, <1>9 DEF Reported, MergeErrs
  <2>2. ASSUME ~Extends(schema, t), ~Reported("derivation-ok-restriction", t)',
               NEW q \in Name, NEW ctx \in Context, Admits(r.wc, q, ctx)
        PROVE  Admits(b.wc, q, ctx)
    BY <2>1, <2>2, <1>5, <1>6, <1>8, MergeNarrows
  <2> QED  BY <2>2, <1>2 DEF Narrows
<1>15. HasMerged(t, r, b)'
  <2>1. ASSUME NoCircularGroup', SoundLine(t)' PROVE ToSet(r.uses) = With(DeclaredBy(schema, Whole(schema, t)), ToSet(b.uses), t)
    BY <2>1, <1>7, <1>10, <1>12
  <2> QED  BY <2>1, <1>2 DEF HasMerged, With
<1>16. AdmitsMapped(t, r)'
  <2>1. ASSUME NoCircularGroup', Plain(t)'
        PROVE  {q \in Name : AdmitsName(r.wc, q)} = MappedNames(schema)[t]
    <3>1. ~TakesDefaults(schema, t) /\ t \notin schema.simple
      BY <1>1, <1>5, <1>10, <2>1, AncestorsAre DEF Plain
    <3>2. Meets(wc, Wildcards(schema, t))
      BY <1>1, <1>5, <1>7, <1>10, <2>1, <3>1, DeclarersAre
    <3>3. ASSUME NEW q \in Name
          PROVE  AdmitsName(r.wc, q)
                   <=> q \in Complete(Wildcards(schema, t)) \/ (Extends(schema, t) /\ AdmitsName(b.wc, q))
      <4>1. PICK W, base : W = Wildcards(schema, t) /\ base = b.wc
        OBVIOUS
      <4>2. AdmitsName(MergeWildcard(schema, t, wc, base), q) <=> q \in Complete(W) \/ (Extends(schema, t) /\ AdmitsName(base, q))
        <5>1. base \in Wildcard \cup {NoWildcard} /\ Meets(wc, W) /\ t \notin schema.simple
          BY <1>6, <3>1, <3>2, <4>1
        <5> QED  BY <5>1, <1>5, MergeNames
      <4> QED  BY <1>8, <4>1, <4>2
    <3>4. {q \in Name : AdmitsName(b.wc, q)} = InheritedNames(schema, t)
      BY <1>3, <1>10, <2>1
    <3>5. MappedNames(schema)[t] = Complete(Wildcards(schema, t))
                                   \cup (IF ~Extends(schema, t) THEN {} ELSE InheritedNames(schema, t))
      BY <1>1, <1>5, MappedNamesIs
    <3>6. Complete(Wildcards(schema, t)) \subseteq Name
      BY DEF Complete
    <3> QED  BY <3>3, <3>4, <3>5, <3>6
  <2> QED  BY <2>1, <1>2 DEF AdmitsMapped
<1> QED  BY <1>13, <1>14, <1>15, <1>16 DEF MergedOK

(* Two uses of one name are one, where no name is repeated.                *)
LEMMA OneName ==
    ASSUME NEW uses \in Seq(AttributeUse), ~RepeatsName(uses), NEW u \in ToSet(uses), NEW v \in ToSet(uses), u.name = v.name
    PROVE  u = v
<1>1. DOMAIN uses = 1..Len(uses)
  OBVIOUS
<1>2. PICK i \in 1..Len(uses), j \in 1..Len(uses) : u = uses[i] /\ v = uses[j]
  BY <1>1 DEF ToSet
<1> QED  BY <1>2, NamedOnce

LEMMA DefaultsAre ==
    ASSUME NEW m, NEW g
    PROVE  /\ WithDefaults(m, g).uses = m.uses \o g.uses
           /\ WithDefaults(m, g).wc = IF m.wc = NoWildcard THEN g.wc ELSE m.wc
  BY DEF WithDefaults

LEMMA Finishing ==
    ASSUME Shape, CollectedOK, ResultsOK, FinishType, NEW t, t = Top.owner,
           NEW r, r = result'[t], NEW b, b = result[schema.base[t]]
    PROVE  FinalOK(t, r, b)'
<1>1. /\ t \in Type /\ BaseDone(t) /\ t \in DOMAIN result /\ stack # << >> /\ Top = stack[Len(stack)]
      /\ TakesDefaults(schema, t) => schema.defaults \in DOMAIN attrGroups
      /\ r = Final(t) /\ Top.stage = "defaults"
  BY FinishResult
<1>2. schema' = schema /\ errs' = errs \cup (IF RepeatsName(r.uses) THEN {Error("ct-props-correct", t)} ELSE {})
  BY <1>1 DEF FinishType, Final
<1>3. PICK m : m = result[t]
  OBVIOUS
<1>4. MergedOK(t, m, b)
  <2>1. Len(stack) \in 1..Len(stack)
    BY <1>1, TopFacts
  <2> QED  BY <2>1, <1>1, <1>3 DEF ResultsOK
<1>5. m \in Attributes /\ schema \in Schemas /\ r \in Attributes
  <2>1. Shape'
    BY FinishResult
  <2>2. t \in DOMAIN result'
    BY <1>1, FinishResult
  <2> QED  BY <2>1, <2>2, <1>1, <1>3 DEF Shape, TypeOK
<1>6. /\ SoundLine(t)' => SoundLine(t)
      /\ NoCircularGroup' => NoCircularGroup
      /\ Plain(t)' => Plain(t)
      /\ \A kind : Reported(kind, t) => Reported(kind, t)'
  BY <1>2, ErrorsStay
<1>7. /\ NoCircularGroup /\ SoundLine(t) => ToSet(b.uses) = Inherited(schema, t)
      /\ b \in Attributes
  BY <1>1, BaseBrings
<1>8. CASE ~TakesDefaults(schema, t)
  <2>1. r = m
    BY <1>1, <1>3, <1>8 DEF Final
  <2>2. Keeps(t, r, b)'
    BY <1>2, <1>4, <1>6, <2>1 DEF MergedOK, Keeps
  <2>3. Narrows(t, r, b)'
    BY <1>2, <1>4, <1>6, <2>1 DEF MergedOK, Narrows
  <2>4. AdmitsMapped(t, r)'
    BY <1>2, <1>4, <1>6, <2>1 DEF MergedOK, AdmitsMapped
  <2>5. NoRepeat(t, r)'
    BY <1>2 DEF NoRepeat, Reported
  <2>6. ASSUME NoCircularGroup', SoundLine(t)' PROVE ToSet(r.uses) = MappedUses(schema)[t]
    <3>1. ToSet(r.uses) = With(DeclaredBy(schema, Whole(schema, t)), Inherited(schema, t), t)
      BY <1>4, <1>6, <1>7, <2>1, <2>6 DEF MergedOK, HasMerged
    <3>2. Local(schema, t) = DeclaredBy(schema, Whole(schema, t))
      BY <1>1, <1>5, <1>8, DeclarersAre
    <3>3. MappedUses(schema)[t] = With(Local(schema, t), Inherited(schema, t), t)
      BY <1>1, <1>5, MappedUsesIs DEF With
    <3> QED  BY <3>1, <3>2, <3>3
  <2>7. HasMapped(t, r)'
    BY <1>2, <2>6 DEF HasMapped
  <2> QED  BY <2>2, <2>3, <2>4, <2>5, <2>7 DEF FinalOK
<1>9. CASE TakesDefaults(schema, t)
  <2>1. PICK g : g = attrGroups[schema.defaults]
    OBVIOUS
  <2>2. g \in Attributes /\ GroupBuilt(schema.defaults)
    BY <1>1, <1>9, <2>1 DEF Shape, TypeOK, CollectedOK
  <2>3. r.uses = m.uses \o g.uses /\ r.wc = IF m.wc = NoWildcard THEN g.wc ELSE m.wc
    <3>1. r = WithDefaults(m, g)
      BY <1>1, <1>3, <1>9, <2>1 DEF Final
    <3>2. PICK d : d = WithDefaults(m, g) /\ r = d
      BY <3>1
    <3>3. d.uses = m.uses \o g.uses
      BY <3>2, DefaultsAre
    <3>4. d.wc = IF m.wc = NoWildcard THEN g.wc ELSE m.wc
      BY <3>2, DefaultsAre
    <3> QED  BY <3>2, <3>3, <3>4
  <2>4. ToSet(r.uses) = ToSet(m.uses) \cup ToSet(g.uses) /\ r.uses \in Seq(AttributeUse)
    BY <1>5, <2>2, <2>3, SeqFacts DEF Attributes
  <2>5. Keeps(t, r, b)'
    <3>1. \A q \in Name, ctx \in Context : Admits(m.wc, q, ctx) => Admits(r.wc, q, ctx)
      BY <2>3 DEF Admits
    <3> QED  BY <1>2, <1>4, <1>6, <2>4, <3>1 DEF MergedOK, Keeps
  <2>6. NoRepeat(t, r)'
    BY <1>2 DEF NoRepeat, Reported
  <2>7. AdmitsMapped(t, r)'
    <3>1. ~Plain(t)
      BY <1>1, <1>5, <1>9, AncestorsAre DEF Plain
    <3> QED  BY <1>6, <3>1 DEF AdmitsMapped
  <2>8. ASSUME NoCircularGroup', SoundLine(t)' PROVE ToSet(r.uses) = MappedUses(schema)[t]
    <3> DEFINE own == DeclaredBy(schema, Whole(schema, t))
               D == DeclaredBy(schema, Whole(schema, schema.defaults))
               inh == Inherited(schema, t)
    <3>1. ToSet(m.uses) = With(own, inh, t)
      BY <1>4, <1>6, <1>7, <2>8 DEF MergedOK, HasMerged
    <3>2. ToSet(g.uses) = D
      BY <1>6, <2>1, <2>2, <2>8 DEF GroupBuilt
    <3>3. Local(schema, t) = own \cup D
      BY <1>1, <1>5, <1>9, DeclarersAre
    <3>4. ~RepeatsName(r.uses)
      <4>1. t \in Ancestors(schema, t)
        BY <1>1, <1>5, AncestorsAre
      <4> QED  BY <1>2, <2>8, <4>1 DEF SoundLine, Reported
    <3>5. MappedUses(schema)[t] = With(own \cup D, inh, t)
      BY <1>1, <1>5, <3>3, MappedUsesIs DEF With
    <3> HIDE DEF own, D, inh
    <3>6. ToSet(r.uses) = With(own, inh, t) \cup D
      BY <2>4, <3>1, <3>2
    <3>7. \A u \in With(own, inh, t), d \in D : u.name = d.name => u = d
      BY <2>4, <3>4, <3>6, OneName
    <3>8. With(own, inh, t) \cup D = With(own \cup D, inh, t)
      BY <3>7 DEF With
    <3> QED  BY <3>5, <3>6, <3>8
  <2>9. HasMapped(t, r)'
    BY <1>2, <2>8 DEF HasMapped
  <2>10. ~TakesDefaults(schema, t)' => Narrows(t, r, b)'
    BY <1>2, <1>9
  <2> QED  BY <2>5, <2>6, <2>7, <2>9, <2>10 DEF FinalOK
<1> QED  BY <1>8, <1>9

LEMMA InitResults == Init => ResultsOK
  BY DEF Init, ResultsOK, Done

(* Below the activation of a type, only activations that wait for a base.  *)
LEMMA NothingBelow ==
    ASSUME Shape, stack # << >>, Top.owner \in Type
    PROVE  \A i \in 1..(Len(stack) - 1) : stack[i].stage = "base"
<1>1. Len(stack) \in 1..Len(stack) /\ Top = stack[Len(stack)]
  BY TopFacts
<1> QED  BY <1>1 DEF Shape, Chain

LEMMA ResultsMerge ==
    ASSUME Shape, CollectedOK, ResultsOK, Merge
    PROVE  ResultsOK'
<1>1. PICK t : t = Top.owner
  OBVIOUS
<1>2. /\ t \in Type /\ BaseDone(t) /\ stack # << >> /\ Done' = Done /\ t \notin Done
      /\ \A x \in DOMAIN result \ {t} : result'[x] = result[x]
  <2>1. Len(stack) \in 1..Len(stack) /\ Top = stack[Len(stack)]
    BY MergeResult, TopFacts
  <2> QED  BY <1>1, <2>1, MergeResult DEF Done
<1>3. schema' = schema /\ errs \subseteq errs' /\ AnyType # t /\ AnyType \in DOMAIN result
  BY <1>2, SchemasAssumption DEF Merge, Shape, TypeOK
<1>4. \A x \in Done : x \in DOMAIN result \ {t} /\ schema.base[x] \in DOMAIN result \ {t}
  BY <1>2, <1>3 DEF Shape, BaseDone
<1>5. ASSUME NEW x \in Done' PROVE FinalOK(x, result[x], result[schema.base[x]])'
  <2>1. PICK r, b : r = result[x] /\ b = result[schema.base[x]]
    OBVIOUS
  <2>2. FinalOK(x, r, b) /\ result'[x] = r /\ result'[schema.base[x]] = b
    BY <1>2, <1>4, <2>1 DEF ResultsOK
  <2> QED  BY <1>3, <2>2, FinalKept
<1>6. ASSUME NEW i \in 1..Len(stack'), stack'[i].stage = "defaults"
      PROVE  MergedOK(stack[i].owner, result[stack[i].owner], result[schema.base[stack[i].owner]])'
  <2>1. /\ Len(stack') = Len(stack) /\ Len(stack) \in Nat /\ stack'[Len(stack)].owner = t
        /\ \A j \in 1..(Len(stack) - 1) : stack'[j] = stack[j] /\ stack[j].stage = "base"
    BY <1>1, <1>2, MergeResult, NothingBelow DEF Continued, Shape, TypeOK
  <2>2. stack'[i].owner = t
    BY <1>6, <2>1
  <2>3. PICK r, b : r = result'[t] /\ b = result[schema.base[t]]
    OBVIOUS
  <2>4. MergedOK(t, r, b)'
    BY <1>1, <2>3, Merging
  <2>5. result'[schema'.base[t]] = b
    <3>1. schema.base[t] \in DOMAIN result \ {t}
      BY <1>2, <1>3, <1>4 DEF BaseDone, Shape
    <3> QED  BY <1>2, <1>3, <2>3, <3>1
  <2> QED  BY <2>2, <2>3, <2>4, <2>5
<1>7. result'[AnyType] = [uses |-> << >>, wc |-> AnyWildcard]
  BY <1>2, <1>3 DEF ResultsOK
<1> QED  BY <1>5, <1>6, <1>7 DEF ResultsOK

LEMMA ResultsFinish ==
    ASSUME Shape, CollectedOK, ResultsOK, FinishType
    PROVE  ResultsOK'
<1>1. PICK t : t = Top.owner
  OBVIOUS
<1>2. /\ t \in Type /\ BaseDone(t) /\ stack # << >> /\ Done' \subseteq Done \cup {t} /\ t \notin Done /\ Popped
      /\ \A x \in DOMAIN result \ {t} : result'[x] = result[x]
  <2>1. Len(stack) \in 1..Len(stack) /\ Top = stack[Len(stack)]
    BY FinishResult, TopFacts
  <2> QED  BY <1>1, <2>1, FinishResult DEF Done
<1>3. schema' = schema /\ errs \subseteq errs' /\ AnyType # t /\ AnyType \in DOMAIN result
  BY <1>2, SchemasAssumption DEF FinishType, Shape, TypeOK
<1>4. \A x \in Done : x \in DOMAIN result \ {t} /\ schema.base[x] \in DOMAIN result \ {t}
  BY <1>2, <1>3 DEF Shape, BaseDone
<1>5. ASSUME NEW x \in Done PROVE FinalOK(x, result[x], result[schema.base[x]])'
  <2>1. PICK r, b : r = result[x] /\ b = result[schema.base[x]]
    OBVIOUS
  <2>2. FinalOK(x, r, b) /\ result'[x] = r /\ result'[schema.base[x]] = b
    BY <1>2, <1>4, <2>1 DEF ResultsOK
  <2> QED  BY <1>3, <2>2, FinalKept
<1>6. FinalOK(t, result[t], result[schema.base[t]])'
  <2>1. PICK r, b : r = result'[t] /\ b = result[schema.base[t]]
    OBVIOUS
  <2>2. FinalOK(t, r, b)'
    BY <1>1, <2>1, Finishing
  <2>3. result'[schema'.base[t]] = b
    <3>1. schema.base[t] \in DOMAIN result \ {t}
      BY <1>2, <1>3, <1>4 DEF BaseDone, Shape
    <3> QED  BY <1>2, <1>3, <2>1, <3>1
  <2> QED  BY <2>1, <2>2, <2>3
<1>7. ASSUME NEW i \in 1..Len(stack'), stack'[i].stage = "defaults" PROVE FALSE
  <2>1. Len(stack) \in Nat /\ Len(stack') = Len(stack) - 1 /\ \A j \in 1..(Len(stack) - 1) : stack'[j] = stack[j] /\ stack[j].stage = "base"
    BY <1>1, <1>2, NothingBelow DEF Popped, Shape, TypeOK
  <2> QED  BY <1>7, <2>1
<1>8. result'[AnyType] = [uses |-> << >>, wc |-> AnyWildcard]
  BY <1>2, <1>3 DEF ResultsOK
<1> QED  BY <1>2, <1>5, <1>6, <1>7, <1>8 DEF ResultsOK

LEMMA NextResults == Shape /\ CollectedOK /\ ResultsOK /\ [Next]_vars => ResultsOK'
<1> SUFFICES ASSUME Shape, CollectedOK, ResultsOK, [Next]_vars PROVE ResultsOK'
  OBVIOUS
<1> DEFINE Waits == \A i \in 1..Len(stack') : stack'[i].stage = "defaults" =>
                       \E j \in 1..Len(stack) : stack[j].stage = "defaults" /\ stack[j].owner = stack'[i].owner
<1>0. Len(stack) \in Nat
  BY DEF Shape, TypeOK
<1>p. ASSUME NEW o \in Owner, NEW stage \in {"base", "children"}, Pushed(Frame(o, stage)) PROVE Waits
  <2>1. Frame(o, stage).stage # "defaults"
    BY FrameTypes
  <2>2. \A i \in 1..Len(stack') : i \in 1..Len(stack) \/ i = Len(stack) + 1
    BY <1>0, <1>p DEF Pushed
  <2> QED  BY <1>p, <2>1, <2>2 DEF Pushed
<1>c. ASSUME NEW f, Continued(f), f.stage = "children", stack # << >> PROVE Waits
  <2>1. \A i \in 1..Len(stack') : i \in 1..(Len(stack) - 1) \/ i = Len(stack)
    BY <1>0, <1>c DEF Continued
  <2>2. \A i \in 1..(Len(stack) - 1) : i \in 1..Len(stack)
    BY <1>0
  <2> QED  BY <1>c, <2>1, <2>2 DEF Continued
<1>o. ASSUME Popped PROVE Waits
  <2>1. \A i \in 1..Len(stack') : i \in 1..(Len(stack) - 1) /\ i \in 1..Len(stack)
    BY <1>0, <1>o DEF Popped
  <2> QED  BY <1>o, <2>1 DEF Popped
<1>u. ASSUME UNCHANGED stack PROVE Waits
  BY <1>u
<1> HIDE DEF Waits
<1>s. ASSUME UNCHANGED <<schema, result>>, errs \subseteq errs', Done' \subseteq Done, Waits PROVE ResultsOK'
  BY <1>s, ResultsSame DEF Waits
<1>1. CASE NextType
  <2>1. UNCHANGED <<schema, result, errs>> /\ Done' \subseteq Done
    BY <1>1, NextTypeBegins DEF NextType
  <2>2. CASE UNCHANGED stack
    BY <2>1, <2>2, <1>u, <1>s
  <2>3. CASE \E t \in Type : Pushed(Frame(t, "base"))
    BY <2>1, <2>3, <1>p, <1>s DEF Owner
  <2> QED  BY <1>1, <2>2, <2>3, NextTypeBegins
<1>2. CASE FinishBase
  <2>1. UNCHANGED <<schema, result, errs>> /\ Done' \subseteq Done /\ \E t \in Type : Pushed(Frame(t, "base"))
    BY <1>2, FinishBaseBegins DEF FinishBase
  <2> QED  BY <2>1, <1>p, <1>s DEF Owner
<1>3. CASE FillContent
  <2>1. UNCHANGED <<schema, result, errs>> /\ stack # << >> /\ Done' \subseteq Done
    BY <1>3, FillContentGoesOn DEF FillContent, At
  <2>2. PICK f : Continued(f) /\ f.stage = "children"
    BY <1>3, FillContentGoesOn
  <2> QED  BY <2>1, <2>2, <1>c, <1>s
<1>4. CASE OwnChild
  <2>1. UNCHANGED <<schema, result, errs>> /\ stack # << >> /\ Done' \subseteq Done
    BY <1>4, OwnChildReads DEF OwnChild, MoreChildren, At
  <2>2. PICK f : Continued(f) /\ f.stage = "children"
    BY <1>4, OwnChildReads
  <2> QED  BY <2>1, <2>2, <1>c, <1>s
<1>5. CASE KnownGroup
  <2>1. UNCHANGED <<schema, result, errs>> /\ stack # << >> /\ Done' \subseteq Done
    BY <1>5, KnownGroupReads DEF KnownGroup, MoreChildren, At
  <2>2. PICK f : Continued(f) /\ f.stage = "children"
    BY <1>5, KnownGroupReads
  <2> QED  BY <2>1, <2>2, <1>c, <1>s
<1>6. CASE CircularGroup
  <2>1. UNCHANGED <<schema, result>> /\ errs \subseteq errs' /\ stack # << >> /\ Top.stage = "children" /\ Done' \subseteq Done
    BY <1>6, CircularGroupReads DEF CircularGroup, MoreChildren, At
  <2>2. PICK f : Continued(f) /\ f.stage = "children"
    BY <1>6, <2>1, CircularGroupReads, TopFacts DEF WithNothing, Advance, Activation
  <2> QED  BY <2>1, <2>2, <1>c, <1>s
<1>7. CASE EnterGroup \/ BuildDefaults
  <2>1. UNCHANGED <<schema, result, errs>> /\ Done' \subseteq Done /\ \E g \in Group : Pushed(Frame(g, "children"))
    BY <1>7, EnterGroupBegins DEF EnterGroup, BuildDefaults
  <2> QED  BY <2>1, <1>p, <1>s DEF Owner
<1>8. CASE CompleteGroup
  <2>1. UNCHANGED <<schema, result>> /\ errs \subseteq errs' /\ Done' \subseteq Done /\ Popped
    BY <1>8, GroupResult DEF CompleteGroup
  <2> QED  BY <2>1, <1>o, <1>s
<1>9. CASE Merge
  BY <1>9, ResultsMerge
<1>10. CASE FinishType
  BY <1>10, ResultsFinish
<1>11. CASE UNCHANGED vars
  <2>1. UNCHANGED <<schema, result, errs, stack, ctDone>>
    BY <1>11 DEF vars
  <2>2. Done' \subseteq Done
    BY <2>1 DEF Done
  <2> QED  BY <2>1, <2>2, <1>u, <1>s
<1> QED  BY <1>1, <1>2, <1>3, <1>4, <1>5, <1>6, <1>7, <1>8, <1>9, <1>10, <1>11 DEF Next

-----------------------------------------------------------------------------
Invariant == Shape /\ CollectedOK /\ ResultsOK

LEMMA InvariantHolds == Spec => []Invariant
<1>1. Init => Invariant
  BY InitShape, InitCollected, InitResults DEF Invariant
<1>2. Invariant /\ [Next]_vars => Invariant'
  BY NextShape, NextCollected, NextResults DEF Invariant
<1> QED  BY <1>1, <1>2, PTL DEF Spec

LEMMA FinishedDone == Invariant /\ Finished => ctDone = Done
  BY DEF Invariant, Shape, TypeOK, Finished, Done

(* Every type ends with the attribute uses the mapping rules give it and a *)
(* wildcard that admits the names they say, in whatever order the worklist, *)
(* the bases and the groups are visited (finishComplexTypes).              *)
THEOREM AttributesAsMapped == Spec => []AsMapped
<1>1. Invariant => AsMapped
  <2> SUFFICES ASSUME Invariant, Finished, NoCircularGroup, NEW t \in ctDone
               PROVE  /\ SoundLine(t) => ToSet(result[t].uses) = MappedUses(schema)[t]
                      /\ Plain(t) => {q \in Name : AdmitsName(result[t].wc, q)} = MappedNames(schema)[t]
    BY DEF AsMapped, UsesAsMapped, WildcardAsMapped, Plain
  <2>1. FinalOK(t, result[t], result[schema.base[t]])
    BY FinishedDone DEF Invariant, ResultsOK
  <2> QED  BY <2>1 DEF FinalOK, HasMapped, AdmitsMapped
<1> QED  BY <1>1, InvariantHolds, PTL

(* A restriction that is let pass admits, in any context, no attribute that *)
(* its base's wildcard does not; an extension keeps the uses of its base    *)
(* and admits all that the base's wildcard admits (mergeComplexType).       *)
THEOREM DerivationHolds == Spec => []DerivationKept
<1>1. Invariant => DerivationKept
  <2> SUFFICES ASSUME Invariant, Finished, NEW t \in ctDone
               PROVE  /\ ~TakesDefaults(schema, t) => Narrows(t, result[t], result[schema.base[t]])
                      /\ Keeps(t, result[t], result[schema.base[t]])
    BY DEF DerivationKept, RestrictionNarrows, ExtensionKeeps, Narrows, Keeps
  <2>1. FinalOK(t, result[t], result[schema.base[t]])
    BY FinishedDone DEF Invariant, ResultsOK
  <2> QED  BY <2>1 DEF FinalOK
<1> QED  BY <1>1, InvariantHolds, PTL
=============================================================================
