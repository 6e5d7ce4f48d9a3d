------------------------------ MODULE BuilderProofs ------------------------------
(* What the builder of components and its checks establish.                *)
(*                                                                         *)
(* Facets: a restriction that passes the checks of package xsd accepts no  *)
(* value that its base refuses, whatever the value space and its partial   *)
(* order; and the types of a schema keep to that while they are edited,    *)
(* whatever their number and the length of their chains.  Dates, times and *)
(* durations are such a value space: their orders are strict partial       *)
(* orders.                                                                 *)
(*                                                                         *)
(* Circles: after the checks no component leads back to itself, for any    *)
(* number of schemas and components and whatever the order in which they   *)
(* are visited: bases, parts of simple types and references of groups all  *)
(* end.  And the reports are exact: one for each cycle of types, one for   *)
(* each element that is its own substitution head; of each cycle of simple *)
(* types one is reported, and the rest are what the documents say.         *)
EXTENDS Cycles, SimpleTypes, Temporal, FiniteSetTheorems, SequenceTheorems, Induction, TLAPS

(* The order relation, as the steps below use it.                          *)
LEMMA Transitive ==
    ASSUME NEW x \in Value, NEW y \in Value, NEW w \in Value
    PROVE  /\ Before(x, y) /\ Before(y, w) => Before(x, w)
           /\ UpTo(x, y) /\ UpTo(y, w) => UpTo(x, w)
           /\ UpTo(x, y) /\ Before(y, w) => Before(x, w)
           /\ Before(x, y) /\ UpTo(y, w) => Before(x, w)
  BY OrderAssumption DEF Before, UpTo

(* A value within merged bounds is within those of the base: a declared    *)
(* bound clears the inherited ones of its side but implies them.           *)
LEMMA MergedRange ==
    ASSUME NEW inherited \in Facets, NEW given \in Facets, NEW v \in Value,
           BoundsWithin(given, inherited),
           RangeValid(MergeFacets(inherited, given), v)
    PROVE  RangeValid(inherited, v)
<1> DEFINE eff == MergeFacets(inherited, given)
<1>1. ASSUME inherited.minInclusive # None PROVE UpTo(inherited.minInclusive, v)
  <2>1. inherited.minInclusive \in Value /\ RangeValid(eff, v)
    BY <1>1 DEF Facets
  <2>2. CASE given.minInclusive # None
    <3>1. given.minInclusive \in Value /\ eff.minInclusive = given.minInclusive
      BY <2>2 DEF Facets, MergeFacets
    <3>2. UpTo(given.minInclusive, v)
      BY <3>1, <2>1, <2>2 DEF RangeValid
    <3> QED  BY <3>1, <3>2, <2>1, <2>2, <1>1, Transitive DEF BoundsWithin, BoundWithin
  <2>3. CASE given.minInclusive = None /\ given.minExclusive # None
    <3>1. given.minExclusive \in Value /\ eff.minExclusive = given.minExclusive
      BY <2>3 DEF Facets, MergeFacets
    <3>2. UpTo(given.minExclusive, v)
      BY <3>1, <2>1, <2>3 DEF RangeValid, UpTo
    <3> QED  BY <3>1, <3>2, <2>1, <2>3, <1>1, Transitive DEF BoundsWithin, BoundWithin
  <2>4. CASE given.minInclusive = None /\ given.minExclusive = None
    BY <2>4, <2>1, <1>1 DEF MergeFacets, RangeValid
  <2> QED  BY <2>2, <2>3, <2>4
<1>2. ASSUME inherited.maxInclusive # None PROVE UpTo(v, inherited.maxInclusive)
  <2>1. inherited.maxInclusive \in Value /\ RangeValid(eff, v)
    BY <1>2 DEF Facets
  <2>2. CASE given.maxInclusive # None
    <3>1. given.maxInclusive \in Value /\ eff.maxInclusive = given.maxInclusive
      BY <2>2 DEF Facets, MergeFacets
    <3>2. UpTo(v, given.maxInclusive)
      BY <3>1, <2>1, <2>2 DEF RangeValid
    <3> QED  BY <3>1, <3>2, <2>1, <2>2, <1>2, Transitive DEF BoundsWithin, BoundWithin
  <2>3. CASE given.maxInclusive = None /\ given.maxExclusive # None
    <3>1. given.maxExclusive \in Value /\ eff.maxExclusive = given.maxExclusive
      BY <2>3 DEF Facets, MergeFacets
    <3>2. UpTo(v, given.maxExclusive)
      BY <3>1, <2>1, <2>3 DEF RangeValid, UpTo
    <3> QED  BY <3>1, <3>2, <2>1, <2>3, <1>2, Transitive DEF BoundsWithin, BoundWithin
  <2>4. CASE given.maxInclusive = None /\ given.maxExclusive = None
    BY <2>4, <2>1, <1>2 DEF MergeFacets, RangeValid
  <2> QED  BY <2>2, <2>3, <2>4
<1>3. ASSUME inherited.minExclusive # None PROVE Before(inherited.minExclusive, v)
  <2>1. inherited.minExclusive \in Value /\ RangeValid(eff, v)
    BY <1>3 DEF Facets
  <2>2. CASE given.minInclusive # None
    <3>1. given.minInclusive \in Value /\ eff.minInclusive = given.minInclusive
      BY <2>2 DEF Facets, MergeFacets
    <3>2. Before(inherited.minExclusive, given.minInclusive) /\ UpTo(given.minInclusive, v)
      BY <3>1, <2>1, <2>2, <1>3 DEF RangeValid, BoundsWithin, BoundWithin
    <3> QED  BY <3>1, <3>2, <2>1, Transitive
  <2>3. CASE given.minInclusive = None /\ given.minExclusive # None
    <3>1. given.minExclusive \in Value /\ eff.minExclusive = given.minExclusive
      BY <2>3 DEF Facets, MergeFacets
    <3>2. Before(given.minExclusive, v) /\ UpTo(inherited.minExclusive, given.minExclusive)
      BY <3>1, <2>1, <2>3, <1>3 DEF RangeValid, BoundsWithin, BoundWithin, UpTo
    <3> QED  BY <3>1, <3>2, <2>1, Transitive
  <2>4. CASE given.minInclusive = None /\ given.minExclusive = None
    BY <2>4, <2>1, <1>3 DEF MergeFacets, RangeValid
  <2> QED  BY <2>2, <2>3, <2>4
<1>4. ASSUME inherited.maxExclusive # None PROVE Before(v, inherited.maxExclusive)
  <2>1. inherited.maxExclusive \in Value /\ RangeValid(eff, v)
    BY <1>4 DEF Facets
  <2>2. CASE given.maxInclusive # None
    <3>1. given.maxInclusive \in Value /\ eff.maxInclusive = given.maxInclusive
      BY <2>2 DEF Facets, MergeFacets
    <3>2. Before(given.maxInclusive, inherited.maxExclusive) /\ UpTo(v, given.maxInclusive)
      BY <3>1, <2>1, <2>2, <1>4 DEF RangeValid, BoundsWithin, BoundWithin
    <3> QED  BY <3>1, <3>2, <2>1, Transitive
  <2>3. CASE given.maxInclusive = None /\ given.maxExclusive # None
    <3>1. given.maxExclusive \in Value /\ eff.maxExclusive = given.maxExclusive
      BY <2>3 DEF Facets, MergeFacets
    <3>2. Before(v, given.maxExclusive) /\ UpTo(given.maxExclusive, inherited.maxExclusive)
      BY <3>1, <2>1, <2>3, <1>4 DEF RangeValid, BoundsWithin, BoundWithin, UpTo
    <3> QED  BY <3>1, <3>2, <2>1, Transitive
  <2>4. CASE given.maxInclusive = None /\ given.maxExclusive = None
    BY <2>4, <2>1, <1>4 DEF MergeFacets, RangeValid
  <2> QED  BY <2>2, <2>3, <2>4
<1> QED  BY <1>1, <1>2, <1>3, <1>4 DEF RangeValid

(* The same of the length facets.                                          *)
LEMMA MergedLength ==
    ASSUME NEW inherited \in Facets, NEW given \in Facets, NEW v \in Value,
           LengthsWithin(given, inherited),
           LengthValid(MergeFacets(inherited, given), v)
    PROVE  LengthValid(inherited, v)
<1>1. LengthOf[v] \in Nat
  BY LengthAssumption
<1>2. /\ inherited.length \in Nat \cup {None} /\ given.length \in Nat \cup {None}
      /\ inherited.minLength \in Nat \cup {None} /\ given.minLength \in Nat \cup {None}
      /\ inherited.maxLength \in Nat \cup {None} /\ given.maxLength \in Nat \cup {None}
  BY DEF Facets
<1>3. /\ Overlay(given.length, inherited.length) # None => LengthOf[v] = Overlay(given.length, inherited.length)
      /\ Overlay(given.minLength, inherited.minLength) # None => LengthOf[v] >= Overlay(given.minLength, inherited.minLength)
      /\ Overlay(given.maxLength, inherited.maxLength) # None => LengthOf[v] <= Overlay(given.maxLength, inherited.maxLength)
  BY DEF LengthValid, MergeFacets
<1>4. inherited.length # None => LengthOf[v] = inherited.length
  BY <1>3 DEF LengthsWithin, Same, Overlay
<1>5. inherited.minLength # None => LengthOf[v] >= inherited.minLength
  BY <1>1, <1>2, <1>3, NoneAssumption DEF LengthsWithin, AtMost, Overlay
<1>6. inherited.maxLength # None => LengthOf[v] <= inherited.maxLength
  BY <1>1, <1>2, <1>3, NoneAssumption DEF LengthsWithin, AtMost, Overlay
<1> QED  BY <1>4, <1>5, <1>6 DEF LengthValid

(* One restriction step narrows: MergeFacets and CheckFacetRestriction of  *)
(* xsd/facets.go and xsd/facets_check.go, for enumeration values that were *)
(* parsed with the base.  This is why Narrowing holds of parsed types; the *)
(* consistency check of the merged set is not needed for it.               *)
THEOREM RestrictionNarrows ==
    ASSUME NEW inherited \in Facets, NEW given \in Facets, NEW v \in Value,
           CheckFacetRestriction(given, inherited),
           \A x \in given.enumeration : ParseValue(inherited, x),
           ParseValue(MergeFacets(inherited, given), v)
    PROVE  ParseValue(inherited, v)
<1>1. RangeValid(inherited, v)
  BY MergedRange DEF CheckFacetRestriction, ParseValue
<1>2. LengthValid(inherited, v)
  BY MergedLength DEF CheckFacetRestriction, ParseValue, ParseFacetValue
<1>3. MatchesPatterns(inherited, v)
  BY DEF ParseValue, ParseFacetValue, MatchesPatterns, MergeFacets, AllPatterns
<1>4. Enumerated(inherited, v)
  <2>1. CASE given.enumeration = {}
    BY <2>1 DEF ParseValue, ParseFacetValue, Enumerated, MergeFacets
  <2>2. CASE given.enumeration # {}
    BY <2>2 DEF ParseValue, ParseFacetValue, Enumerated, MergeFacets
  <2> QED  BY <2>1, <2>2
<1> QED  BY <1>1, <1>2, <1>3, <1>4 DEF ParseValue, ParseFacetValue

-----------------------------------------------------------------------------
(* Types in the order they were made: a base before what derives from it.  *)
TypeRecords == [base : Nat, declared : Facets, reserved : BOOLEAN]

Chained(ts) ==
    /\ ts \in Seq(TypeRecords) /\ Len(ts) > 0
    /\ \A t \in 1..Len(ts) : ts[t].base < t

LEMMA ChainedTypes ==
    ASSUME NEW ts, Chained(ts), NEW t \in 1..Len(ts)
    PROVE  /\ Len(ts) \in Nat /\ t \in Nat /\ t > 0
           /\ ts[t] \in TypeRecords
           /\ ts[t].base \in Nat /\ ts[t].base < t
           /\ ts[t].declared \in Facets
<1>1. ts[t] \in TypeRecords
  BY DEF Chained
<1> QED  BY <1>1 DEF Chained, TypeRecords

(* The function EffectiveFacets chooses, on the first n types.             *)
Merged(ts, n, e) ==
    e = [u \in 1..n |-> IF ts[u].base = 0 THEN ts[u].declared
                        ELSE MergeFacets(e[ts[u].base], ts[u].declared)]

LEMMA MergedExists ==
    ASSUME NEW ts, Chained(ts), NEW n \in Nat, n <= Len(ts)
    PROVE  \E e : Merged(ts, n, e)
<1> DEFINE S == {k \in Nat : k <= Len(ts) => \E e : Merged(ts, k, e)}
<1>1. 0 \in S
  <2> DEFINE e0 == [u \in 1..0 |-> 0]
  <2>1. e0 = [u \in 1..0 |-> IF ts[u].base = 0 THEN ts[u].declared
                             ELSE MergeFacets(e0[ts[u].base], ts[u].declared)]
    OBVIOUS
  <2> HIDE DEF e0
  <2>2. Merged(ts, 0, e0)
    BY <2>1 DEF Merged
  <2> QED  BY <2>2
<1>2. ASSUME NEW k \in Nat, k \in S PROVE k + 1 \in S
  <2> SUFFICES ASSUME k + 1 <= Len(ts) PROVE \E e : Merged(ts, k + 1, e)
    OBVIOUS
  <2>1. PICK e : Merged(ts, k, e)
    BY <1>2 DEF Chained
  <2> DEFINE Of(f, u) == IF ts[u].base = 0 THEN ts[u].declared
                         ELSE MergeFacets(f[ts[u].base], ts[u].declared)
             g == [u \in 1..(k + 1) |-> IF u = k + 1 THEN Of(e, u) ELSE e[u]]
  <2>2. ASSUME NEW u \in 1..k PROVE e[u] = Of(e, u)
    BY <2>1 DEF Merged
  <2>3. ASSUME NEW u \in 1..(k + 1) PROVE g[u] = Of(e, u)
    BY <2>2
  <2>4. ASSUME NEW u \in 1..(k + 1), ts[u].base # 0 PROVE ts[u].base \in 1..k
    <3>1. u \in 1..Len(ts)
      BY DEF Chained
    <3>2. ts[u].base \in Nat /\ ts[u].base < u
      BY <3>1, ChainedTypes
    <3> QED  BY <3>2, <2>4
  <2>5. ASSUME NEW u \in 1..(k + 1) PROVE Of(g, u) = Of(e, u)
    BY <2>4
  <2>6. ASSUME NEW u \in 1..(k + 1) PROVE g[u] = Of(g, u)
    BY <2>3, <2>5
  <2>7. g = [u \in 1..(k + 1) |-> g[u]]
    OBVIOUS
  <2> HIDE DEF g
  <2>8. g = [u \in 1..(k + 1) |-> Of(g, u)]
    BY <2>6, <2>7
  <2>9. Merged(ts, k + 1, g)
    BY <2>8 DEF Merged
  <2> QED  BY <2>9
<1>3. Nat \subseteq S
  BY <1>1, <1>2, InductionOnNat
<1> QED  BY <1>3

(* EffectiveFacets, unfolded at one type.                                  *)
Effective(ts, t) ==
    IF ts[t].base = 0 THEN ts[t].declared
    ELSE MergeFacets(EffectiveFacets(ts, ts[t].base), ts[t].declared)

LEMMA EffectiveUnfolds ==
    ASSUME NEW ts, Chained(ts), NEW t \in 1..Len(ts)
    PROVE  EffectiveFacets(ts, t) = Effective(ts, t)
<1> DEFINE eff == CHOOSE e : Merged(ts, Len(ts), e)
<1>1. Merged(ts, Len(ts), eff)
  BY MergedExists DEF Chained
<1>2. \A u : EffectiveFacets(ts, u) = eff[u]
  BY DEF EffectiveFacets, Merged
<1> HIDE DEF eff
<1> QED  BY <1>1, <1>2 DEF Merged, Effective

(* What passes from the base of a type to the type is true of all types.   *)
LEMMA AlongTheChain ==
    ASSUME NEW ts, Chained(ts), NEW S,
           \A t \in 1..Len(ts) : ts[t].base = 0 \/ ts[t].base \in S => t \in S
    PROVE  1..Len(ts) \subseteq S
<1> SUFFICES ASSUME (1..Len(ts)) \ S # {} PROVE FALSE
  OBVIOUS
<1>1. Len(ts) \in Nat
  BY DEF Chained
<1>2. PICK t \in (1..Len(ts)) \ S : \A k \in (1..Len(ts)) \ S : t <= k
  <2> DEFINE T == (1..Len(ts)) \ S
  <2>1. T \in SUBSET Nat /\ T # {}
    BY <1>1
  <2> HIDE DEF T
  <2>2. \E t \in T : \A k \in T : t <= k
    BY <2>1, LeastNumber
  <2> QED  BY <2>2 DEF T
<1>3. ts[t].base \in Nat /\ ts[t].base < t
  BY ChainedTypes
<1>4. ts[t].base \notin S /\ ts[t].base # 0
  BY <1>2
<1> QED  BY <1>1, <1>2, <1>3, <1>4

LEMMA MergedIsFacets ==
    ASSUME NEW inherited \in Facets, NEW given \in Facets
    PROVE  MergeFacets(inherited, given) \in Facets
  BY DEF Facets, MergeFacets, Overlay, AllPatterns

LEMMA EffectiveIsFacets ==
    ASSUME NEW ts, Chained(ts), NEW t \in 1..Len(ts)
    PROVE  EffectiveFacets(ts, t) \in Facets
<1> DEFINE S == {u \in 1..Len(ts) : EffectiveFacets(ts, u) \in Facets}
<1>1. ASSUME NEW u \in 1..Len(ts), ts[u].base = 0 \/ ts[u].base \in S PROVE u \in S
  BY <1>1, EffectiveUnfolds, ChainedTypes, MergedIsFacets DEF Effective
<1>2. 1..Len(ts) \subseteq S
  BY <1>1, AlongTheChain
<1> QED  BY <1>2

(* A type does not depend on the types made after it.                      *)
LEMMA EffectiveOfPrefix ==
    ASSUME NEW ts, Chained(ts), NEW r, Chained(Append(ts, r)), NEW t \in 1..Len(ts)
    PROVE  EffectiveFacets(Append(ts, r), t) = EffectiveFacets(ts, t)
<1> DEFINE longer == Append(ts, r)
           S == {u \in 1..Len(ts) : EffectiveFacets(longer, u) = EffectiveFacets(ts, u)}
<1>1. \A u \in 1..Len(ts) : u \in 1..Len(longer) /\ longer[u] = ts[u]
  BY DEF Chained
<1> HIDE DEF longer
<1>2. Chained(longer)
  BY DEF longer
<1>3. ASSUME NEW u \in 1..Len(ts), ts[u].base = 0 \/ ts[u].base \in S PROVE u \in S
  BY <1>1, <1>2, <1>3, EffectiveUnfolds DEF Effective
<1>4. 1..Len(ts) \subseteq S
  BY <1>3, AlongTheChain
<1> QED  BY <1>4 DEF longer

-----------------------------------------------------------------------------
(* What an edit may do to facets: bounds and lengths stay, patterns are    *)
(* added, and enumeration values are, of those in the set vs.              *)
SameLimits(f, g) ==
    /\ g.minInclusive = f.minInclusive /\ g.maxInclusive = f.maxInclusive
    /\ g.minExclusive = f.minExclusive /\ g.maxExclusive = f.maxExclusive
    /\ g.length = f.length /\ g.minLength = f.minLength /\ g.maxLength = f.maxLength

Edited(f, g, vs) ==
    /\ SameLimits(f, g)
    /\ f.patterns \subseteq g.patterns
    /\ g.enumeration \subseteq f.enumeration \cup vs
    /\ g.enumeration = {} => f.enumeration = {}

(* All types keep their limits; those of T are edited in this sense, and T *)
(* has the base of each of its types.                                      *)
LimitsKept(ts, us) ==
    /\ Len(us) = Len(ts)
    /\ \A t \in 1..Len(ts) : us[t].base = ts[t].base /\ SameLimits(ts[t].declared, us[t].declared)

EditedTypes(ts, us, T, vs) ==
    \A t \in T : /\ Edited(ts[t].declared, us[t].declared, vs)
                 /\ ts[t].declared.enumeration \subseteq us[t].declared.enumeration

WithBases(ts, T) == \A t \in T : ts[t].base = 0 \/ ts[t].base \in T

LEMMA EditedMerge ==
    ASSUME NEW inherited, NEW inherited2, NEW given, NEW given2, NEW vs,
           Edited(inherited, inherited2, vs), Edited(given, given2, vs),
           given.enumeration \subseteq given2.enumeration
    PROVE  Edited(MergeFacets(inherited, given), MergeFacets(inherited2, given2), vs)
<1>1. SameLimits(MergeFacets(inherited, given), MergeFacets(inherited2, given2))
  BY DEF Edited, SameLimits, MergeFacets
<1> DEFINE f == MergeFacets(inherited, given)
           g == MergeFacets(inherited2, given2)
<1>2. /\ f.enumeration = (IF given.enumeration = {} THEN inherited.enumeration ELSE given.enumeration)
      /\ g.enumeration = (IF given2.enumeration = {} THEN inherited2.enumeration ELSE given2.enumeration)
      /\ f.patterns = inherited.patterns \cup given.patterns
      /\ g.patterns = inherited2.patterns \cup given2.patterns
  BY DEF MergeFacets, AllPatterns
<1> HIDE DEF f, g
<1>3. f.patterns \subseteq g.patterns
  BY <1>2 DEF Edited
<1>4. g.enumeration \subseteq f.enumeration \cup vs /\ (g.enumeration = {} => f.enumeration = {})
  BY <1>2 DEF Edited
<1> QED  BY <1>1, <1>3, <1>4 DEF Edited, f, g

LEMMA KeptEffective ==
    ASSUME NEW ts, Chained(ts), NEW us, Chained(us), LimitsKept(ts, us), NEW t \in 1..Len(ts)
    PROVE  SameLimits(EffectiveFacets(ts, t), EffectiveFacets(us, t))
<1> DEFINE S == {u \in 1..Len(ts) : SameLimits(EffectiveFacets(ts, u), EffectiveFacets(us, u))}
<1>1. ASSUME NEW u \in 1..Len(ts), ts[u].base = 0 \/ ts[u].base \in S PROVE u \in S
  <2>1. /\ EffectiveFacets(ts, u) = Effective(ts, u)
        /\ EffectiveFacets(us, u) = Effective(us, u)
    BY EffectiveUnfolds DEF LimitsKept
  <2>2. us[u].base = ts[u].base /\ SameLimits(ts[u].declared, us[u].declared)
    BY DEF LimitsKept
  <2>3. CASE ts[u].base = 0
    BY <2>1, <2>2, <2>3 DEF Effective
  <2>4. CASE ts[u].base # 0 /\ ts[u].base \in S
    BY <2>1, <2>2, <2>4 DEF Effective, SameLimits, MergeFacets
  <2> QED  BY <1>1, <2>3, <2>4
<1>2. 1..Len(ts) \subseteq S
  BY <1>1, AlongTheChain
<1> QED  BY <1>2

LEMMA EditedEffective ==
    ASSUME NEW ts, Chained(ts), NEW us, Chained(us), LimitsKept(ts, us),
           NEW T \in SUBSET (1..Len(ts)), WithBases(ts, T),
           NEW vs, EditedTypes(ts, us, T, vs), NEW t \in T
    PROVE  Edited(EffectiveFacets(ts, t), EffectiveFacets(us, t), vs)
<1> DEFINE S == {u \in 1..Len(ts) : u \in T => Edited(EffectiveFacets(ts, u), EffectiveFacets(us, u), vs)}
<1>1. ASSUME NEW u \in 1..Len(ts), ts[u].base = 0 \/ ts[u].base \in S PROVE u \in S
  <2> SUFFICES ASSUME u \in T PROVE Edited(EffectiveFacets(ts, u), EffectiveFacets(us, u), vs)
    OBVIOUS
  <2>1. /\ EffectiveFacets(ts, u) = Effective(ts, u)
        /\ EffectiveFacets(us, u) = Effective(us, u)
    BY EffectiveUnfolds DEF LimitsKept
  <2>2. /\ us[u].base = ts[u].base
        /\ Edited(ts[u].declared, us[u].declared, vs)
        /\ ts[u].declared.enumeration \subseteq us[u].declared.enumeration
    BY DEF EditedTypes, LimitsKept
  <2>3. CASE ts[u].base = 0
    BY <2>1, <2>2, <2>3 DEF Effective
  <2>4. CASE ts[u].base # 0
    <3>1. Edited(EffectiveFacets(ts, ts[u].base), EffectiveFacets(us, ts[u].base), vs)
      BY <1>1, <2>4 DEF WithBases
    <3> QED  BY <2>1, <2>2, <2>4, <3>1, EditedMerge DEF Effective
  <2> QED  BY <2>3, <2>4
<1>2. 1..Len(ts) \subseteq S
  BY <1>1, AlongTheChain
<1> QED  BY <1>2

(* Edited facets accept what they did, or a value that was added.          *)
LEMMA EditedAccepts ==
    ASSUME NEW f, NEW g, NEW vs, Edited(f, g, vs), NEW v \in Value, ParseValue(g, v)
    PROVE  ParseValue(f, v) \/ v \in vs
<1>1. RangeValid(f, v)
  BY DEF Edited, SameLimits, ParseValue, RangeValid
<1>2. LengthValid(f, v)
  BY DEF Edited, SameLimits, ParseValue, ParseFacetValue, LengthValid
<1>3. MatchesPatterns(f, v)
  BY DEF Edited, ParseValue, ParseFacetValue, MatchesPatterns
<1>4. Enumerated(f, v) \/ v \in vs
  BY DEF Edited, ParseValue, ParseFacetValue, Enumerated
<1> QED  BY <1>1, <1>2, <1>3, <1>4 DEF ParseValue, ParseFacetValue

-----------------------------------------------------------------------------
(* What is stored: every slice lies in an array that exists.               *)
Groups == SUBSET SUBSET Value
Cells  == Seq(Groups)

StoredRecords == [base : Nat, declared : Facets, groups : [array : Nat, len : Nat], reserved : BOOLEAN]

Within(arr, slice) == slice.array \in 1..Len(arr) /\ slice.len <= Len(arr[slice.array])

Stored(ms, arr) ==
    /\ ms \in Seq(StoredRecords) /\ arr \in Seq(Cells)
    /\ \A t \in 1..Len(ms) : Within(arr, ms[t].groups)

LEMMA StoredTypes ==
    ASSUME NEW ms, NEW arr, Stored(ms, arr), NEW t \in 1..Len(ms)
    PROVE  /\ Len(ms) \in Nat /\ Len(arr) \in Nat
           /\ ms[t] \in StoredRecords /\ ms[t].declared \in Facets
           /\ ms[t].groups \in [array : Nat, len : Nat]
           /\ ms[t].groups.len \in Nat /\ Within(arr, ms[t].groups)
           /\ arr[ms[t].groups.array] \in Seq(Groups)
           /\ PatternsIn(arr, ms[t].groups) \subseteq Groups
<1>0. ms \in Seq(StoredRecords) /\ arr \in Seq(Cells) /\ Within(arr, ms[t].groups)
  BY DEF Stored
<1>1. ms[t] \in StoredRecords /\ Len(ms) \in Nat /\ Len(arr) \in Nat
  <2>1. ms \in Seq(StoredRecords)
    BY <1>0
  <2>2. arr \in Seq(Cells)
    BY <1>0
  <2>3. ms[t] \in StoredRecords /\ Len(ms) \in Nat
    BY ONLY <2>1, t \in 1..Len(ms)
  <2>4. Len(arr) \in Nat
    BY ONLY <2>2
  <2> QED  BY <2>3, <2>4
<1>2. ms[t].groups \in [array : Nat, len : Nat] /\ ms[t].declared \in Facets
  BY <1>1 DEF StoredRecords
<1> DEFINE slice == ms[t].groups
           cells == arr[slice.array]
<1>3. slice.array \in 1..Len(arr) /\ slice.len <= Len(cells)
  BY <1>0 DEF Within
<1>4. cells \in Seq(Groups)
  <2>1. cells \in Cells
    <3> DEFINE a == slice.array
    <3>1. arr \in Seq(Cells)
      BY <1>0
    <3>2. a \in 1..Len(arr)
      BY <1>3
    <3> HIDE DEF a
    <3>3. arr[a] \in Cells
      BY ONLY <3>1, <3>2
    <3> QED  BY <3>3 DEF a
  <2> QED  BY <2>1 DEF Cells
<1>5. slice.len \in Nat
  BY <1>2
<1>6. \A k \in 1..slice.len : cells[k] \in Groups
  <2> HIDE DEF cells, slice
  <2> QED  BY <1>3, <1>4, <1>5
<1>7. PatternsIn(arr, slice) \subseteq Groups
  BY <1>6 DEF PatternsIn
<1> QED  BY <1>0, <1>1, <1>2, <1>4, <1>5, <1>7

Seen(ms, arr, t) == [ms[t].declared EXCEPT !.patterns = PatternsIn(arr, ms[t].groups)]

ViewIs(ms, arr, ts) ==
    /\ ts \in Seq(TypeRecords) /\ Len(ts) = Len(ms) /\ Len(ms) \in Nat
    /\ \A t \in 1..Len(ms) :
         /\ ts[t].base = ms[t].base /\ ts[t].declared = Seen(ms, arr, t)
         /\ ts[t] = [base |-> ms[t].base, reserved |-> ms[t].reserved, declared |-> Seen(ms, arr, t)]

LEMMA ViewedTypes ==
    ASSUME NEW ms, NEW arr, Stored(ms, arr)
    PROVE  ViewIs(ms, arr, Viewed(ms, arr))
<1> DEFINE Record(t) == [base |-> ms[t].base, reserved |-> ms[t].reserved, declared |-> Seen(ms, arr, t)]
<1>1. Len(ms) \in Nat /\ Viewed(ms, arr) = [t \in 1..Len(ms) |-> Record(t)]
  BY DEF Viewed, Stored, Seen
<1>2. ASSUME NEW t \in 1..Len(ms) PROVE Record(t) \in TypeRecords
  <2>1. ms[t] \in StoredRecords /\ ms[t].declared \in Facets /\ PatternsIn(arr, ms[t].groups) \subseteq Groups
    BY StoredTypes
  <2>2. Seen(ms, arr, t) \in Facets
    BY <2>1 DEF Facets, Groups, Seen
  <2> QED  BY <2>1, <2>2 DEF StoredRecords, TypeRecords
<1>3. \A t \in 1..Len(ms) :
         /\ Record(t).base = ms[t].base
         /\ Record(t).declared = Seen(ms, arr, t)
  OBVIOUS
<1>4. \A t \in 1..Len(ms) : Viewed(ms, arr)[t] = Record(t)
  BY <1>1
<1>5. Viewed(ms, arr) \in Seq(TypeRecords) /\ Len(Viewed(ms, arr)) = Len(ms)
  <2> HIDE DEF Record
  <2> QED  BY <1>1, <1>2
<1> QED  BY <1>1, <1>3, <1>4, <1>5 DEF ViewIs

(* A new array, after those that were there.                               *)
Extends(arr, bs) ==
    bs \in Seq(Cells) /\ Len(arr) <= Len(bs) /\ \A a \in 1..Len(arr) : bs[a] = arr[a]

LEMMA AllocateExtends ==
    ASSUME arrays \in Seq(Cells), NEW groups \in Seq(Groups), NEW spare \in Nat, Allocate(groups, spare)
    PROVE  /\ Extends(arrays, arrays') /\ Len(arrays') = Len(arrays) + 1
           /\ Len(groups) <= Len(arrays'[Len(arrays) + 1])
           /\ \A k \in 1..Len(groups) : arrays'[Len(arrays) + 1][k] = groups[k]
<1> DEFINE free == [k \in 1..spare |-> NoGroup]
           cells == groups \o free
<1>1. free \in Seq(Groups) /\ Len(free) = spare
  BY DEF NoGroup, Groups
<1> HIDE DEF free
<1>2. /\ cells \in Seq(Groups) /\ Len(groups) <= Len(cells)
      /\ \A k \in 1..Len(groups) : cells[k] = groups[k]
  BY <1>1
<1>3. arrays' = Append(arrays, cells)
  BY DEF Allocate, free
<1>4. cells \in Cells
  BY <1>2 DEF Cells
<1> HIDE DEF cells
<1> QED  BY <1>2, <1>3, <1>4 DEF Extends

LEMMA ExtendedPatterns ==
    ASSUME NEW arr, NEW bs, Extends(arr, bs), NEW slice, Within(arr, slice), Len(arr) \in Nat
    PROVE  Within(bs, slice) /\ PatternsIn(bs, slice) = PatternsIn(arr, slice)
<1>1. slice.array \in 1..Len(arr) /\ slice.len <= Len(arr[slice.array])
  BY DEF Within
<1>2. bs \in Seq(Cells) /\ Len(arr) <= Len(bs) /\ bs[slice.array] = arr[slice.array]
  BY <1>1 DEF Extends
<1>3. slice.array \in 1..Len(bs)
  <2>1. Len(bs) \in Nat
    <3>1. bs \in Seq(Cells)
      BY <1>2
    <3> QED  BY ONLY <3>1
  <2>2. Len(arr) <= Len(bs)
    BY <1>2
  <2> DEFINE a == slice.array
  <2>3. a \in 1..Len(arr)
    BY <1>1
  <2> HIDE DEF a
  <2>4. a \in 1..Len(bs)
    BY ONLY <2>1, <2>2, <2>3, Len(arr) \in Nat
  <2> QED  BY <2>4 DEF a
<1> QED  BY <1>1, <1>2, <1>3 DEF Within, PatternsIn

LEMMA OrdersAre ==
    ASSUME NEW S, IsFiniteSet(S), NEW s \in Orders(S), S \subseteq Groups
    PROVE  s \in Seq(Groups) /\ Len(s) = Cardinality(S) /\ S = {s[k] : k \in 1..Cardinality(S)}
<1>1. Cardinality(S) \in Nat
  BY FS_CardinalityType
<1>2. s \in [1..Cardinality(S) -> S] /\ \A x \in S : \E k \in DOMAIN s : s[k] = x
  BY DEF Orders
<1> QED  BY <1>1, <1>2

-----------------------------------------------------------------------------
(* The invariant behind Narrowing: every type was checked against its base *)
(* when it was made, and nothing done since changes what was compared.     *)
Restricts(ts, t) == CheckFacetRestriction(ts[t].declared, EffectiveFacets(ts, ts[t].base))

Checked(ts) ==
    /\ Chained(ts)
    /\ \A t \in 1..Len(ts) : ts[t].base # 0 => Restricts(ts, t)

CheckedTypes == Stored(made, arrays) /\ Checked(types)

(* What the check of a restriction compares.                               *)
LEMMA LimitsDecide ==
    ASSUME NEW d, NEW d2, NEW e, NEW e2, SameLimits(d, d2), SameLimits(e, e2), CheckFacetRestriction(d, e)
    PROVE  CheckFacetRestriction(d2, e2)
  BY DEF SameLimits, CheckFacetRestriction, LengthsWithin, BoundsWithin, BoundWithin

LEMMA InitChecked == TypesInit => CheckedTypes
<1> SUFFICES ASSUME TypesInit PROVE CheckedTypes
  OBVIOUS
<1>1. made = <<BuiltIn>> /\ arrays = << <<>> >>
  BY DEF TypesInit
<1>2. /\ BuiltIn \in StoredRecords /\ BuiltIn.base = 0 /\ BuiltIn.groups.array = 1 /\ BuiltIn.groups.len = 0
  BY DEF BuiltIn, NoFacets, StoredRecords, Facets, Slice
<1> HIDE DEF BuiltIn
<1>3. Len(made) = 1 /\ made[1] = BuiltIn /\ made \in Seq(StoredRecords)
  BY <1>1, <1>2
<1>4. Len(arrays) = 1 /\ arrays[1] = <<>> /\ arrays \in Seq(Cells)
  BY <1>1 DEF Cells
<1>5. Within(arrays, made[1].groups)
  BY <1>2, <1>3, <1>4 DEF Within
<1>6. Stored(made, arrays)
  BY <1>3, <1>4, <1>5 DEF Stored
<1>7. types \in Seq(TypeRecords) /\ Len(types) = 1 /\ types[1].base = 0
  <2>1. ViewIs(made, arrays, types)
    BY <1>6, ViewedTypes DEF types
  <2> QED  BY <1>2, <1>3, <2>1 DEF ViewIs
<1>8. \A t \in 1..Len(types) : t = 1
  BY <1>7
<1> QED  BY <1>6, <1>7, <1>8 DEF CheckedTypes, Checked, Chained

(* A sequence that keeps the elements of another and has one more is that  *)
(* other with the one appended.                                            *)
LEMMA OneMore ==
    ASSUME NEW S, NEW ts \in Seq(S), NEW us \in Seq(S), Len(us) = Len(ts) + 1,
           \A i \in 1..Len(ts) : us[i] = ts[i]
    PROVE  us = Append(ts, us[Len(ts) + 1])
<1> DEFINE r == us[Len(ts) + 1]
           longer == Append(ts, r)
<1>1. Len(ts) \in Nat /\ Len(ts) + 1 \in 1..Len(us)
  OBVIOUS
<1>2. r \in S
  BY <1>1, ElementOfSeq
<1> HIDE DEF r
<1>3. /\ longer \in Seq(S) /\ Len(longer) = Len(ts) + 1 /\ longer[Len(ts) + 1] = r
      /\ \A i \in 1..Len(ts) : longer[i] = ts[i]
  BY ONLY <1>1, <1>2, ts \in Seq(S)
<1>4. us[Len(ts) + 1] = r
  BY DEF r
<1> HIDE DEF longer
<1>5. \A i \in 1..Len(us) : longer[i] = us[i]
  BY <1>1, <1>3, <1>4
<1>6. longer = us
  BY ONLY <1>3, <1>5, us \in Seq(S), Len(us) = Len(ts) + 1, SeqEqual
<1> QED  BY <1>6 DEF longer, r

LEMMA DeriveChecked ==
    ASSUME NEW ts, Checked(ts), NEW t \in 1..Len(ts), NEW given \in Facets,
           CheckFacetRestriction(given, EffectiveFacets(ts, t)),
           NEW r \in TypeRecords, r.base = t, r.declared = given
    PROVE  /\ Checked(Append(ts, r))
           /\ \A u \in 1..Len(ts) : EffectiveFacets(Append(ts, r), u) = EffectiveFacets(ts, u)
<1> DEFINE longer == Append(ts, r)
<1>1. Chained(ts) /\ Len(ts) \in Nat /\ ts \in Seq(TypeRecords)
  BY DEF Checked, Chained
<1>3. /\ longer \in Seq(TypeRecords) /\ Len(longer) = Len(ts) + 1
      /\ longer[Len(ts) + 1] = r
      /\ \A u \in 1..Len(ts) : longer[u] = ts[u]
  BY <1>1
<1> HIDE DEF longer
<1>4. \A u \in 1..Len(longer) : u \in 1..Len(ts) \/ u = Len(ts) + 1
  BY <1>1, <1>3
<1>5. Chained(longer)
  BY <1>1, <1>3, <1>4 DEF Chained
<1>6. \A u \in 1..Len(ts) : EffectiveFacets(longer, u) = EffectiveFacets(ts, u)
  BY <1>1, <1>5, EffectiveOfPrefix DEF longer
<1>7. ASSUME NEW u \in 1..Len(longer), longer[u].base # 0 PROVE Restricts(longer, u)
  <2>1. CASE u = Len(ts) + 1
    BY <2>1, <1>3, <1>6 DEF Restricts
  <2>2. CASE u \in 1..Len(ts)
    <3>1. ts[u].base \in 1..Len(ts) /\ Restricts(ts, u)
      BY <2>2, <1>1, <1>3, <1>7, ChainedTypes DEF Checked
    <3> QED  BY <3>1, <2>2, <1>3, <1>6 DEF Restricts
  <2> QED  BY <2>1, <2>2, <1>4
<1> QED  BY <1>5, <1>6, <1>7 DEF Checked, longer

(* A restriction: the facets that it declares, and a slice of an array new *)
(* or old.  No other type is seen to change.                               *)
LEMMA RestrictionChecked ==
    ASSUME CheckedTypes, NEW t \in Types, NEW given \in Facets, NEW slice \in [array : Nat, len : Nat],
           Derive(t, given, slice), Extends(arrays, arrays'), Within(arrays', slice),
           CheckFacetRestriction(given, EffectiveFacets(types, t))
    PROVE  CheckedTypes' /\ \A u \in Types : EffectiveFacets(types', u) = EffectiveFacets(types, u)
<1> DEFINE plain == [given EXCEPT !.patterns = {}]
           stored == [base |-> t, declared |-> plain, groups |-> slice, reserved |-> FALSE]
<1>1. Stored(made, arrays) /\ Checked(types) /\ made \in Seq(StoredRecords) /\ Len(made) \in Nat /\ t \in 1..Len(made)
  BY DEF CheckedTypes, Stored, Types
<1>2. Len(arrays) \in Nat
  BY <1>1, StoredTypes
<1>3. plain \in Facets /\ SameLimits(given, plain)
  BY DEF Facets, SameLimits
<1>4. stored \in StoredRecords /\ stored.base = t /\ stored.groups = slice /\ stored.declared = plain
  BY <1>1, <1>3 DEF StoredRecords
<1>5. made' = Append(made, stored)
  BY DEF Derive
<1> HIDE DEF plain, stored
<1>6. /\ made' \in Seq(StoredRecords) /\ Len(made') = Len(made) + 1 /\ made'[Len(made) + 1] = stored
      /\ \A u \in 1..Len(made) : made'[u] = made[u]
  BY <1>1, <1>4, <1>5
<1>7. \A u \in 1..Len(made') : u \in 1..Len(made) \/ u = Len(made) + 1
  BY <1>1, <1>6
<1>8. ASSUME NEW u \in 1..Len(made)
      PROVE  Within(arrays', made[u].groups) /\ PatternsIn(arrays', made[u].groups) = PatternsIn(arrays, made[u].groups)
  BY <1>1, <1>2, StoredTypes, ExtendedPatterns
<1>9. Stored(made', arrays')
  <2>1. arrays' \in Seq(Cells)
    BY DEF Extends
  <2>2. ASSUME NEW u \in 1..Len(made') PROVE Within(arrays', made'[u].groups)
    BY <1>4, <1>6, <1>7, <1>8
  <2> QED  BY <1>6, <2>1, <2>2 DEF Stored
<1> DEFINE ts == Viewed(made, arrays)
           us == Viewed(made', arrays')
           n == Len(made) + 1
<1>19. ViewIs(made, arrays, ts) /\ ViewIs(made', arrays', us)
  BY <1>1, <1>9, ViewedTypes
<1> HIDE DEF ts, us
<1>10. /\ ts \in Seq(TypeRecords) /\ Len(ts) = Len(made)
       /\ us \in Seq(TypeRecords) /\ Len(us) = n
       /\ n \in 1..Len(made')
  BY <1>1, <1>6, <1>19 DEF ViewIs
<1>11. ASSUME NEW u \in 1..Len(made) PROVE us[u] = ts[u]
  <2>1. u \in 1..Len(made') /\ made'[u] = made[u]
    BY <1>1, <1>6
  <2>2. Seen(made', arrays', u) = Seen(made, arrays, u)
    BY <1>8, <2>1 DEF Seen
  <2> QED  BY <1>19, <2>1, <2>2 DEF ViewIs
<1>12. /\ us[n].base = t
       /\ us[n].declared = [plain EXCEPT !.patterns = PatternsIn(arrays', slice)]
  BY <1>4, <1>6, <1>10, <1>19 DEF ViewIs, Seen
<1> HIDE DEF n
<1>13. us[n] \in TypeRecords
  BY <1>10
<1>14. us[n].declared \in Facets /\ SameLimits(given, us[n].declared)
  <2>1. us[n].declared \in Facets
    BY <1>13 DEF TypeRecords
  <2>2. SameLimits(plain, us[n].declared)
    BY <1>3, <1>12 DEF SameLimits, Facets
  <2> QED  BY <1>3, <2>1, <2>2 DEF SameLimits
<1>15. us = Append(ts, us[n])
  <2>1. n = Len(ts) + 1 /\ Len(us) = Len(ts) + 1
    BY <1>10 DEF n
  <2>2. \A u \in 1..Len(ts) : us[u] = ts[u]
    BY <1>10, <1>11
  <2> QED  BY ONLY <1>10, <2>1, <2>2, OneMore
<1>16. types = ts /\ types' = us
  BY DEF types, ts, us
<1>17. CheckFacetRestriction(us[n].declared, EffectiveFacets(ts, t))
  <2>1. SameLimits(EffectiveFacets(ts, t), EffectiveFacets(ts, t))
    BY DEF SameLimits
  <2> QED  BY <1>14, <1>16, <2>1, LimitsDecide
<1>18. Checked(us) /\ \A u \in 1..Len(ts) : EffectiveFacets(us, u) = EffectiveFacets(ts, u)
  <2> DEFINE r == us[n]
  <2>1. Checked(ts) /\ t \in 1..Len(ts) /\ r \in TypeRecords /\ r.base = t /\ r.declared \in Facets
    BY <1>1, <1>10, <1>12, <1>13, <1>14, <1>16
  <2>2. us = Append(ts, r) /\ CheckFacetRestriction(r.declared, EffectiveFacets(ts, t))
    BY <1>15, <1>17
  <2> HIDE DEF r
  <2> QED  BY <2>1, <2>2, DeriveChecked
<1> QED  BY <1>9, <1>10, <1>16, <1>18 DEF CheckedTypes, Types

LEMMA EditChecked ==
    ASSUME NEW ts, Checked(ts), NEW us, Chained(us), LimitsKept(ts, us)
    PROVE  Checked(us)
<1> SUFFICES ASSUME NEW t \in 1..Len(us), us[t].base # 0 PROVE Restricts(us, t)
  BY DEF Checked
<1>1. t \in 1..Len(ts) /\ us[t].base = ts[t].base /\ SameLimits(ts[t].declared, us[t].declared)
  BY DEF LimitsKept
<1>2. Restricts(ts, t) /\ ts[t].base \in 1..Len(ts)
  BY <1>1, ChainedTypes DEF Checked
<1>3. SameLimits(EffectiveFacets(ts, ts[t].base), EffectiveFacets(us, us[t].base))
  BY <1>1, <1>2, KeptEffective DEF Checked
<1> QED  BY <1>1, <1>2, <1>3, LimitsDecide DEF Restricts

(* An edit keeps every type but one as it is stored, and of that one the   *)
(* base and the limits.                                                    *)
EditedAt(t, r) ==
    /\ made' = [made EXCEPT ![t] = r]
    /\ r.base = made[t].base /\ r.reserved = made[t].reserved /\ SameLimits(made[t].declared, r.declared)

LEMMA EditLimits ==
    ASSUME CheckedTypes, NEW t \in Types, NEW r \in StoredRecords, EditedAt(t, r), Stored(made', arrays')
    PROVE  /\ CheckedTypes' /\ LimitsKept(types, types')
           /\ Len(types) = Len(made) /\ Types' = Types
           /\ \A u \in Types : /\ types[u].declared = Seen(made, arrays, u)
                             /\ types'[u].declared = Seen(made', arrays', u)
<1> DEFINE ts == Viewed(made, arrays)
           us == Viewed(made', arrays')
<1>1. Stored(made, arrays) /\ Checked(types) /\ made \in Seq(StoredRecords) /\ Len(made) \in Nat /\ t \in 1..Len(made)
  BY DEF CheckedTypes, Stored, Types
<1>2. Len(made') = Len(made) /\ made'[t] = r /\ \A u \in 1..Len(made) : u # t => made'[u] = made[u]
  BY <1>1 DEF EditedAt
<1>3. ASSUME NEW u \in 1..Len(made)
      PROVE  made'[u].base = made[u].base /\ SameLimits(made[u].declared, made'[u].declared)
  BY <1>2 DEF EditedAt, SameLimits
<1>11. ViewIs(made, arrays, ts) /\ ViewIs(made', arrays', us)
  BY <1>1, ViewedTypes
<1> HIDE DEF ts, us
<1>4. /\ ts \in Seq(TypeRecords) /\ Len(ts) = Len(made)
      /\ us \in Seq(TypeRecords) /\ Len(us) = Len(made)
  BY <1>2, <1>11 DEF ViewIs
<1>5. ASSUME NEW u \in 1..Len(made)
      PROVE  /\ ts[u].base = made[u].base /\ us[u].base = made[u].base
             /\ ts[u].declared = Seen(made, arrays, u) /\ us[u].declared = Seen(made', arrays', u)
  <2>1. u \in 1..Len(made')
    BY <1>2
  <2> QED  BY <1>3, <1>11, <2>1 DEF ViewIs
<1>6. ASSUME NEW u \in 1..Len(made) PROVE SameLimits(ts[u].declared, us[u].declared)
  <2>1. u \in 1..Len(made') /\ made[u].declared \in Facets /\ made'[u].declared \in Facets
    BY <1>1, <1>2, StoredTypes
  <2> DEFINE d == made[u].declared
             e == made'[u].declared
             P == PatternsIn(arrays, made[u].groups)
             Q == PatternsIn(arrays', made'[u].groups)
  <2>2. d \in Facets /\ e \in Facets /\ SameLimits(d, e)
    BY <1>3, <2>1
  <2>3. ts[u].declared = [d EXCEPT !.patterns = P] /\ us[u].declared = [e EXCEPT !.patterns = Q]
    BY <1>5 DEF Seen
  <2> HIDE DEF d, e, P, Q
  <2> QED  BY <2>2, <2>3 DEF SameLimits, Facets
<1>7. LimitsKept(ts, us)
  BY <1>4, <1>5, <1>6 DEF LimitsKept
<1>8. types = ts /\ types' = us
  BY DEF types, ts, us
<1>9. Chained(us)
  BY <1>1, <1>4, <1>5, <1>8 DEF Checked, Chained
<1>10. Checked(us)
  BY <1>1, <1>7, <1>8, <1>9, EditChecked
<1> QED  BY <1>2, <1>4, <1>5, <1>7, <1>8, <1>10 DEF CheckedTypes, Types

(* The values added by a step.                                             *)
Values == UNION {types'[u].declared.enumeration \ types[u].declared.enumeration : u \in Types}

LEMMA AddEnumerationEdits ==
    ASSUME CheckedTypes, NEW t \in Types, NEW vs \in Added, AddEnumeration(t, vs)
    PROVE  /\ CheckedTypes' /\ LimitsKept(types, types')
           /\ EditedTypes(types, types', Types, Values)
<1> DEFINE old == made[t].declared
           new == [old EXCEPT !.enumeration = @ \cup vs]
           r == [made[t] EXCEPT !.declared = new]
<1>1. Stored(made, arrays) /\ made \in Seq(StoredRecords) /\ Len(made) \in Nat /\ t \in 1..Len(made)
  BY DEF CheckedTypes, Stored, Types
<1>2. vs \subseteq Value
  BY EditAssumption
<1>3. made[t] \in StoredRecords /\ old \in Facets
  BY <1>1, StoredTypes
<1>4. made' = [made EXCEPT ![t] = r] /\ arrays' = arrays
  BY DEF AddEnumeration
<1>5. /\ new \in Facets /\ SameLimits(old, new) /\ old.enumeration \subseteq new.enumeration
  BY <1>2, <1>3 DEF Facets, SameLimits
<1> HIDE DEF old, new
<1>6. /\ r \in StoredRecords /\ r.base = made[t].base /\ r.reserved = made[t].reserved
      /\ r.groups = made[t].groups /\ r.declared = new
  BY <1>3, <1>5 DEF StoredRecords
<1> HIDE DEF r
<1>7. /\ made' \in Seq(StoredRecords) /\ Len(made') = Len(made) /\ made'[t] = r
      /\ \A u \in 1..Len(made) : u # t => made'[u] = made[u]
  BY <1>1, <1>4, <1>6
<1>8. \A u \in 1..Len(made) : made'[u].groups = made[u].groups
  BY <1>6, <1>7
<1>9. Stored(made', arrays')
  BY <1>1, <1>4, <1>7, <1>8 DEF Stored
<1>10. EditedAt(t, r)
  BY <1>4, <1>5, <1>6 DEF EditedAt, old
<1>11. /\ CheckedTypes' /\ LimitsKept(types, types') /\ Len(types) = Len(made)
       /\ \A u \in Types : types[u].declared = Seen(made, arrays, u) /\ types'[u].declared = Seen(made', arrays', u)
  BY <1>6, <1>9, <1>10, EditLimits
<1>12. ASSUME NEW u \in Types
       PROVE  /\ Edited(types[u].declared, types'[u].declared, Values)
              /\ types[u].declared.enumeration \subseteq types'[u].declared.enumeration
  <2> DEFINE f == types[u].declared
             g == types'[u].declared
             P == PatternsIn(arrays, made[u].groups)
  <2>1. u \in 1..Len(made) /\ made[u].declared \in Facets /\ made'[u].declared \in Facets
    BY <1>1, <1>7, <1>9, StoredTypes DEF Types
  <2>2. f = [made[u].declared EXCEPT !.patterns = P] /\ g = [made'[u].declared EXCEPT !.patterns = P]
    BY <1>4, <1>8, <1>11, <2>1 DEF Seen
  <2>3. made[u].declared.enumeration \subseteq made'[u].declared.enumeration
    BY <1>5, <1>6, <1>7, <2>1 DEF old
  <2>4. SameLimits(f, g)
    BY <1>11, <2>1 DEF LimitsKept
  <2>5. g.enumeration \ f.enumeration \subseteq Values
    BY DEF Values
  <2> HIDE DEF f, g, P
  <2>6. f.patterns = g.patterns /\ f.enumeration \subseteq g.enumeration
    BY <2>1, <2>2, <2>3 DEF Facets
  <2> QED  BY <2>4, <2>5, <2>6 DEF Edited, f, g
<1> QED  BY <1>11, <1>12 DEF EditedTypes

LEMMA AddPatternEdits ==
    ASSUME CheckedTypes, NEW t \in Types, NEW p \in Pattern, AddPattern(t, p)
    PROVE  /\ CheckedTypes' /\ LimitsKept(types, types')
           /\ EditedTypes(types, types', {u \in Types : ~Overwritten(u)}, {})
<1> DEFINE old == made[t].groups
           n == old.len
<1>1. Stored(made, arrays) /\ made \in Seq(StoredRecords) /\ Len(made) \in Nat /\ t \in 1..Len(made)
      /\ arrays \in Seq(Cells) /\ Len(arrays) \in Nat
  BY DEF CheckedTypes, Stored, Types
<1>2. {p} \in Groups
  BY EditAssumption DEF Groups
<1>3. /\ made[t] \in StoredRecords /\ old \in [array : Nat, len : Nat] /\ n \in Nat
      /\ old.array \in 1..Len(arrays) /\ n <= Len(arrays[old.array]) /\ arrays[old.array] \in Seq(Groups)
  BY <1>1, StoredTypes DEF Within
<1>4. \A u \in 1..Len(made) : Within(arrays, made[u].groups) /\ made[u].groups \in [array : Nat, len : Nat]
  BY <1>1, StoredTypes
(* Where the group went, and what of the arrays stayed.                    *)
<1>5. PICK slice \in [array : Nat, len : Nat] :
        /\ made' = [made EXCEPT ![t].groups = slice] /\ slice.len = n + 1
        /\ arrays' \in Seq(Cells) /\ Len(arrays) <= Len(arrays') /\ Within(arrays', slice)
        /\ \A a \in 1..Len(arrays) : Len(arrays'[a]) = Len(arrays[a])
        /\ \A k \in 1..n : arrays'[slice.array][k] = arrays[old.array][k]
        /\ \A a \in 1..Len(arrays) : \A k \in 1..Len(arrays[a]) :
             arrays'[a][k] = arrays[a][k] \/ (a = old.array /\ k = n + 1 /\ slice = Slice(old.array, n + 1))
  <2>1. CASE AppendInPlace(old, {p}) /\ made' = [made EXCEPT ![t].groups = Slice(old.array, n + 1)]
    <3> DEFINE slice == Slice(old.array, n + 1)
               cells == [arrays[old.array] EXCEPT ![n + 1] = {p}]
    <3>1. n < Len(arrays[old.array]) /\ arrays' = [arrays EXCEPT ![old.array] = cells]
      BY <2>1 DEF AppendInPlace, Room
    <3>2. slice \in [array : Nat, len : Nat] /\ slice.len = n + 1 /\ slice.array = old.array
      BY <1>3 DEF Slice
    <3>8. n + 1 \in 1..Len(arrays[old.array])
      BY <1>3, <3>1
    <3>3. /\ cells \in Cells /\ Len(cells) = Len(arrays[old.array])
          /\ \A k \in 1..Len(arrays[old.array]) : k = n + 1 \/ cells[k] = arrays[old.array][k]
      <4> DEFINE row == arrays[old.array]
      <4>1. row \in Seq(Groups) /\ n + 1 \in 1..Len(row) /\ {p} \in Groups
        BY <1>2, <1>3, <3>8
      <4> HIDE DEF row
      <4>2. /\ [row EXCEPT ![n + 1] = {p}] \in Seq(Groups) /\ Len([row EXCEPT ![n + 1] = {p}]) = Len(row)
            /\ \A k \in 1..Len(row) : k = n + 1 \/ [row EXCEPT ![n + 1] = {p}][k] = row[k]
        BY ONLY <4>1
      <4> QED  BY <4>2 DEF row, Cells
    <3> HIDE DEF cells, slice
    <3>4. /\ arrays' \in Seq(Cells) /\ Len(arrays') = Len(arrays) /\ arrays'[old.array] = cells
          /\ \A a \in 1..Len(arrays) : a = old.array \/ arrays'[a] = arrays[a]
      BY <1>1, <1>3, <3>1, <3>3
    <3>5. Within(arrays', slice)
      BY <1>3, <3>1, <3>2, <3>3, <3>4 DEF Within
    <3>6. \A k \in 1..n : arrays'[slice.array][k] = arrays[old.array][k]
      BY <1>3, <3>2, <3>3, <3>4
    <3>7. ASSUME NEW a \in 1..Len(arrays)
          PROVE  /\ Len(arrays'[a]) = Len(arrays[a])
                 /\ \A k \in 1..Len(arrays[a]) : arrays'[a][k] = arrays[a][k] \/ (a = old.array /\ k = n + 1)
      BY <3>3, <3>4
    <3> HIDE DEF slice
    <3>9. slice = Slice(old.array, n + 1)
      BY DEF slice
    <3>10. Len(arrays) <= Len(arrays')
      BY <1>1, <3>4
    <3> QED  BY <2>1, <3>2, <3>4, <3>5, <3>6, <3>7, <3>9, <3>10
  <2>2. CASE AppendMoving(old, {p}) /\ made' = [made EXCEPT ![t].groups = Slice(Len(arrays) + 1, n + 1)]
    <3> DEFINE slice == Slice(Len(arrays) + 1, n + 1)
               copied == GroupsOf(old)
               groups == Append(copied, {p})
    <3>1. PICK spare \in Nat : Allocate(groups, spare)
      BY <2>2, EditAssumption DEF AppendMoving
    <3>2. slice \in [array : Nat, len : Nat] /\ slice.len = n + 1 /\ slice.array = Len(arrays) + 1
      BY <1>1, <1>3 DEF Slice
    <3>3. copied \in Seq(Groups) /\ Len(copied) = n /\ \A k \in 1..n : copied[k] = arrays[old.array][k]
      BY <1>3 DEF GroupsOf
    <3> HIDE DEF copied
    <3>4. /\ groups \in Seq(Groups) /\ Len(groups) = n + 1
          /\ \A k \in 1..n : groups[k] = arrays[old.array][k]
      BY <1>2, <1>3, <3>3
    <3> HIDE DEF groups, slice
    <3>5. /\ Extends(arrays, arrays') /\ Len(arrays') = Len(arrays) + 1
          /\ n + 1 <= Len(arrays'[Len(arrays) + 1])
          /\ \A k \in 1..n + 1 : arrays'[Len(arrays) + 1][k] = groups[k]
      BY <1>1, <3>1, <3>4, AllocateExtends
    <3>6. Within(arrays', slice)
      BY <1>1, <3>2, <3>5 DEF Within
    <3>7. \A k \in 1..n : arrays'[slice.array][k] = arrays[old.array][k]
      BY <1>3, <3>2, <3>4, <3>5
    <3> QED  BY <1>1, <2>2, <3>2, <3>5, <3>6, <3>7 DEF slice, Extends
  <2> QED  BY <2>1, <2>2 DEF AddPattern
<1> DEFINE r == [made[t] EXCEPT !.groups = slice]
<1>6. /\ r \in StoredRecords /\ r.base = made[t].base /\ r.reserved = made[t].reserved
      /\ r.declared = made[t].declared /\ r.groups = slice
  BY <1>3 DEF StoredRecords
<1>7. made' = [made EXCEPT ![t] = r]
  BY <1>5
<1> HIDE DEF r
<1>8. /\ made' \in Seq(StoredRecords) /\ Len(made') = Len(made) /\ made'[t] = r
      /\ \A u \in 1..Len(made) : u # t => made'[u] = made[u]
  BY <1>1, <1>6, <1>7
<1>9. Stored(made', arrays')
  <2>1. ASSUME NEW u \in 1..Len(made) PROVE Within(arrays', made'[u].groups)
    <3>1. CASE u = t
      BY <1>5, <1>6, <1>8, <3>1
    <3>2. CASE u # t
      <4> DEFINE other == made[u].groups
      <4>1. made'[u].groups = other /\ other.array \in 1..Len(arrays) /\ other.len <= Len(arrays[other.array])
        BY <1>4, <1>8, <3>2 DEF Within
      <4>2. Len(arrays'[other.array]) = Len(arrays[other.array]) /\ Len(arrays') \in Nat /\ Len(arrays) <= Len(arrays')
        BY <1>5, <4>1
      <4> HIDE DEF other
      <4> QED  BY <1>1, <4>1, <4>2 DEF Within
    <3> QED  BY <3>1, <3>2
  <2> QED  BY <1>5, <1>8, <2>1 DEF Stored
<1>10. EditedAt(t, r)
  BY <1>6, <1>7 DEF EditedAt, SameLimits
<1>11. /\ CheckedTypes' /\ LimitsKept(types, types') /\ Len(types) = Len(made)
       /\ \A u \in Types : types[u].declared = Seen(made, arrays, u) /\ types'[u].declared = Seen(made', arrays', u)
  BY <1>6, <1>9, <1>10, EditLimits
<1>12. ASSUME NEW u \in Types, ~Overwritten(u)
       PROVE  PatternsIn(arrays, made[u].groups) \subseteq PatternsIn(arrays', made'[u].groups)
  <2>1. CASE u = t
    <3>1. made'[u].groups = slice
      BY <1>6, <1>8, <2>1
    <3>2. \A k \in 1..n : k \in 1..slice.len /\ arrays'[slice.array][k] = arrays[old.array][k]
      BY <1>3, <1>5
    <3>3. PatternsIn(arrays, old) \subseteq PatternsIn(arrays', slice)
      BY <3>2 DEF PatternsIn
    <3> QED  BY <2>1, <3>1, <3>3
  <2>2. CASE u # t
    <3> DEFINE other == made[u].groups
    <3>1. /\ made'[u].groups = other /\ other.array \in 1..Len(arrays) /\ other.len \in Nat
          /\ other.len <= Len(arrays[other.array]) /\ Len(arrays[other.array]) \in Nat
      BY <1>1, <1>4, <1>8, <2>2, StoredTypes DEF Types, Within
    <3>2. ASSUME NEW k \in 1..other.len PROVE arrays'[other.array][k] = arrays[other.array][k]
      <4>0. k \in 1..Len(arrays[other.array])
        BY <3>1
      <4>1. SUFFICES ASSUME other.array = old.array, k = n + 1, slice = Slice(old.array, n + 1) PROVE FALSE
        BY <1>5, <3>1, <4>0
      <4>2. n < other.len
        BY <1>3, <3>1, <4>1
      <4>3. made'[t].groups = Slice(old.array, old.len + 1)
        BY <1>6, <1>8, <4>1
      <4> QED  BY <4>1, <4>2, <4>3, <1>12 DEF Overwritten
    <3>3. PatternsIn(arrays, other) \subseteq PatternsIn(arrays', other)
      BY <3>2 DEF PatternsIn
    <3> QED  BY <3>1, <3>3
  <2> QED  BY <2>1, <2>2
<1>13. ASSUME NEW u \in Types, ~Overwritten(u)
       PROVE  /\ Edited(types[u].declared, types'[u].declared, {})
              /\ types[u].declared.enumeration \subseteq types'[u].declared.enumeration
  <2> DEFINE f == types[u].declared
             g == types'[u].declared
             P == PatternsIn(arrays, made[u].groups)
             Q == PatternsIn(arrays', made'[u].groups)
             d == made[u].declared
  <2>1. u \in 1..Len(made) /\ d \in Facets /\ made'[u].declared = d /\ P \subseteq Q
    BY <1>1, <1>6, <1>8, <1>12, <1>13, StoredTypes DEF Types
  <2>2. f = [d EXCEPT !.patterns = P] /\ g = [d EXCEPT !.patterns = Q]
    BY <1>11, <2>1 DEF Seen
  <2>3. SameLimits(f, g)
    BY <1>11, <2>1 DEF LimitsKept
  <2> HIDE DEF f, g, P, Q, d
  <2>4. f.patterns \subseteq g.patterns /\ f.enumeration = g.enumeration
    BY <2>1, <2>2 DEF Facets
  <2> QED  BY <2>3, <2>4 DEF Edited, f, g
<1> QED  BY <1>11, <1>13 DEF EditedTypes

(* A restriction, by the parser or by a program.                           *)
LEMMA RestrictionSteps ==
    ASSUME CheckedTypes, NEW t \in Types, Restriction(t)
    PROVE  CheckedTypes' /\ \A u \in Types : EffectiveFacets(types', u) = EffectiveFacets(types, u)
<1>1. PICK given \in Declared : \/ ParseRestriction(t, given) \/ RestrictWith(t, given)
                               \/ \E u \in Types : \E n \in 1..made[u].groups.len : RestrictWithTaken(t, given, u, n)
  BY DEF Restriction
<1>2. /\ given \in Facets /\ IsFiniteSet(given.patterns) /\ given.patterns \subseteq Groups
      /\ CheckFacetRestriction(given, EffectiveFacets(types, t))
  BY <1>1, EditAssumption DEF ParseRestriction, RestrictWith, RestrictWithTaken, Narrows, Facets, Groups
<1>3. Stored(made, arrays) /\ arrays \in Seq(Cells) /\ Len(arrays) \in Nat
  BY DEF CheckedTypes, Stored
<1>4. PICK slice \in [array : Nat, len : Nat] :
        Derive(t, given, slice) /\ Extends(arrays, arrays') /\ Within(arrays', slice)
  <2>1. ASSUME NEW spare \in Nat, DeriveWithNew(t, given, spare)
        PROVE  \E slice \in [array : Nat, len : Nat] :
                 Derive(t, given, slice) /\ Extends(arrays, arrays') /\ Within(arrays', slice)
    <3> DEFINE slice == Slice(Len(arrays) + 1, Cardinality(given.patterns))
    <3>1. PICK groups \in Orders(given.patterns) : Allocate(groups, spare)
      BY <2>1 DEF DeriveWithNew
    <3>2. groups \in Seq(Groups) /\ Len(groups) = Cardinality(given.patterns)
      BY <1>2, OrdersAre
    <3>3. /\ Extends(arrays, arrays') /\ Len(arrays') = Len(arrays) + 1
          /\ Len(groups) <= Len(arrays'[Len(arrays) + 1])
      BY <1>3, <3>1, <3>2, AllocateExtends
    <3>4. slice \in [array : Nat, len : Nat] /\ slice.array = Len(arrays) + 1 /\ slice.len = Len(groups)
      BY <1>2, <1>3, <3>2, FS_CardinalityType DEF Slice
    <3>5. Derive(t, given, slice)
      BY <2>1 DEF DeriveWithNew
    <3> HIDE DEF slice
    <3> QED  BY <1>3, <3>3, <3>4, <3>5 DEF Within
  <2>2. ASSUME NEW u \in Types, NEW n \in 1..made[u].groups.len, RestrictWithTaken(t, given, u, n)
        PROVE  \E slice \in [array : Nat, len : Nat] :
                 Derive(t, given, slice) /\ Extends(arrays, arrays') /\ Within(arrays', slice)
    <3> DEFINE slice == Slice(made[u].groups.array, n)
    <3>1. /\ made[u].groups \in [array : Nat, len : Nat] /\ made[u].groups.len \in Nat
          /\ Within(arrays, made[u].groups) /\ arrays[made[u].groups.array] \in Seq(Groups)
      BY <1>3, StoredTypes DEF Types
    <3>2. /\ slice \in [array : Nat, len : Nat] /\ slice.array = made[u].groups.array /\ slice.len = n
      BY <3>1 DEF Slice
    <3>3. Derive(t, given, slice) /\ arrays' = arrays
      BY <2>2 DEF RestrictWithTaken
    <3> HIDE DEF slice
    <3>4. Within(arrays, slice)
      BY <3>1, <3>2 DEF Within
    <3> QED  BY <1>3, <3>2, <3>3, <3>4 DEF Extends
  <2>3. \A spare \in (IF given.patterns = {} THEN {0} ELSE Spare) : spare \in Nat
    BY EditAssumption
  <2> QED  BY <1>1, <2>1, <2>2, <2>3 DEF ParseRestriction, RestrictWith
<1> QED  BY <1>2, <1>4, RestrictionChecked

(* Every step keeps the invariant.                                         *)
LEMMA NextChecked == CheckedTypes /\ [TypesNext]_typesVars => CheckedTypes'
<1> SUFFICES ASSUME CheckedTypes, [TypesNext]_typesVars PROVE CheckedTypes'
  OBVIOUS
<1>1. CASE \E t \in Types : Restriction(t)
  BY <1>1, RestrictionSteps
<1>2. CASE \E t \in Types, vs \in Added : AddEnumeration(t, vs)
  BY <1>2, AddEnumerationEdits
<1>3. CASE \E t \in Types, p \in Pattern : AddPattern(t, p)
  BY <1>3, AddPatternEdits
<1>4. CASE UNCHANGED typesVars
  BY <1>4 DEF typesVars, CheckedTypes, types
<1> QED  BY <1>1, <1>2, <1>3, <1>4 DEF TypesNext

THEOREM TypesStayChecked == TypesSpec => []CheckedTypes
  BY InitChecked, NextChecked, PTL DEF TypesSpec

LEMMA CheckedNarrow == CheckedTypes => Narrowing
<1> SUFFICES ASSUME CheckedTypes, NEW t \in Types, types[t].base # 0,
                    types[t].declared.enumeration \subseteq Accepts(types, types[t].base)
             PROVE  Accepts(types, t) \subseteq Accepts(types, types[t].base)
  BY DEF Narrowing
<1> DEFINE inherited == EffectiveFacets(types, types[t].base)
           given == types[t].declared
<1>0. Chained(types) /\ t \in 1..Len(types)
  BY ViewedTypes DEF CheckedTypes, Checked, Types, types, ViewIs
<1>1. types[t].base \in 1..Len(types) /\ CheckFacetRestriction(given, inherited)
  BY <1>0, ChainedTypes DEF CheckedTypes, Checked, Restricts
<1>2. EffectiveFacets(types, t) = MergeFacets(inherited, given)
  BY <1>0, EffectiveUnfolds DEF Effective
<1>3. inherited \in Facets /\ given \in Facets
  BY <1>0, <1>1, EffectiveIsFacets, ChainedTypes
<1>4. \A x \in given.enumeration : ParseValue(inherited, x)
  BY DEF Accepts
<1> HIDE DEF inherited, given
<1>5. \A v \in Value : ParseValue(MergeFacets(inherited, given), v) => ParseValue(inherited, v)
  BY <1>1, <1>3, <1>4, RestrictionNarrows
<1> QED  BY <1>2, <1>5 DEF Accepts, inherited

(* Narrowing, for every value space, order, number of types and of edits:  *)
(* MergeFacets and CheckFacetRestriction of package xsd along any chain,   *)
(* with RestrictWith, AddEnumeration and AddPattern of xsdedit/edit.go     *)
(* applied to any type of it in any order.                                 *)
THEOREM NarrowingHolds == TypesSpec => []Narrowing
  BY TypesStayChecked, CheckedNarrow, PTL

(* What t draws on: t itself, and with each type its base.                 *)
LEMMA DrawsOnBases ==
    ASSUME CheckedTypes, NEW t \in Types
    PROVE  LET T == {u \in Types : DrawsOn(t, u)} IN t \in T /\ WithBases(types, T)
<1> DEFINE T == {u \in Types : DrawsOn(t, u)}
<1>1. t \in T
  BY DEF DrawsOn
<1>0. ViewIs(made, arrays, types)
  BY ViewedTypes DEF CheckedTypes, types
<1>2. \A u \in Types : types[u].base = made[u].base
  BY <1>0 DEF ViewIs, Types
<1>3. ASSUME NEW u \in T, made[u].base # 0 PROVE made[u].base \in T
  <2>1. made[u].base \in Types
    <3>1. /\ Chained(types) /\ Len(types) = Len(made) /\ Len(made) \in Nat
      BY <1>0 DEF CheckedTypes, Checked, ViewIs
    <3>2. types[u].base \in Nat /\ types[u].base < u
      BY <3>1, ChainedTypes DEF Types
    <3> QED  BY <1>2, <1>3, <3>1, <3>2 DEF Types
  <2>2. DrawsOn(t, made[u].base)
    BY <1>3 DEF DrawsOn
  <2> QED  BY <2>1, <2>2
<1> QED  BY <1>1, <1>2, <1>3 DEF WithBases

LEMMA StepContained ==
    ASSUME CheckedTypes, [TypesNext]_typesVars, NEW t \in Types,
           \A u \in Types : DrawsOn(t, u) => ~Overwritten(u),
           NEW v \in Accepts(types', t), v \notin Accepts(types, t)
    PROVE  v \in Values
<1> DEFINE T == {u \in Types : DrawsOn(t, u)}
<1>0. ViewIs(made, arrays, types)
  BY ViewedTypes DEF CheckedTypes, types
<1>1. /\ Chained(types) /\ Len(types) = Len(made) /\ Types = 1..Len(types)
  BY <1>0 DEF CheckedTypes, Checked, ViewIs, Types
<1>2. T \in SUBSET (1..Len(types)) /\ t \in T /\ WithBases(types, T)
  BY <1>1, DrawsOnBases
<1>3. v \in Value /\ ParseValue(EffectiveFacets(types', t), v) /\ ~ParseValue(EffectiveFacets(types, t), v)
  BY DEF Accepts
<1>4. T \subseteq {u \in Types : ~Overwritten(u)}
  OBVIOUS
<1> HIDE DEF T
<1>5. CASE \E s \in Types : Restriction(s)
  BY <1>3, <1>5, RestrictionSteps
<1>6. ASSUME NEW vs, CheckedTypes', LimitsKept(types, types'), EditedTypes(types, types', T, vs)
      PROVE  v \in vs
  <2>1. Chained(types')
    BY <1>6 DEF CheckedTypes, Checked
  <2>2. Edited(EffectiveFacets(types, t), EffectiveFacets(types', t), vs)
    BY <1>1, <1>2, <1>6, <2>1, EditedEffective
  <2> QED  BY <1>3, <2>2, EditedAccepts
<1>7. CASE \E s \in Types, vs \in Added : AddEnumeration(s, vs)
  <2>1. CheckedTypes' /\ LimitsKept(types, types') /\ EditedTypes(types, types', Types, Values)
    BY <1>7, AddEnumerationEdits
  <2>2. EditedTypes(types, types', T, Values)
    BY <1>4, <2>1 DEF EditedTypes
  <2> QED  BY <1>6, <2>1, <2>2
<1>8. CASE \E s \in Types, p \in Pattern : AddPattern(s, p)
  <2>1. CheckedTypes' /\ LimitsKept(types, types') /\ EditedTypes(types, types', {u \in Types : ~Overwritten(u)}, {})
    BY <1>8, AddPatternEdits
  <2>2. EditedTypes(types, types', T, {})
    BY <1>4, <2>1 DEF EditedTypes
  <2> QED  BY <1>6, <2>1, <2>2
<1>9. CASE UNCHANGED typesVars
  BY <1>3, <1>9 DEF typesVars, types
<1> QED  BY <1>5, <1>7, <1>8, <1>9 DEF TypesNext

(* EditsContained: an edit of one type reaches another only as the         *)
(* property says, however long the chain and whatever slices of pattern    *)
(* groups the types share: by the values it adds to an enumeration, or by  *)
(* a pattern that AddPattern (xsdedit/edit.go:147) overwrites.             *)
THEOREM EditsAreContained == TypesSpec => EditsContained
<1>1. CheckedTypes /\ [TypesNext]_typesVars =>
        [LET added == UNION {types'[u].declared.enumeration \ types[u].declared.enumeration : u \in Types}
         IN  \A t \in Types :
               \/ Accepts(types', t) \subseteq Accepts(types, t) \cup added
               \/ \E u \in Types : DrawsOn(t, u) /\ Overwritten(u)]_typesVars
  BY StepContained DEF Values
<1> QED  BY <1>1, TypesStayChecked, PTL DEF TypesSpec, EditsContained

-----------------------------------------------------------------------------
(* The orders of dates and of durations.                                   *)
LEMMA DayNumberType ==
    ASSUME NEW y \in Int, NEW m \in Int, NEW d \in Int
    PROVE  DayNumber(y, m, d) \in Int
BY SMTT(20) DEF DayNumber, DaysBeforeYear, DaysBeforeMonth

(* Two consecutive years differ by 365 days or more.                       *)
LEMMA YearsIncrease ==
    ASSUME NEW y \in Int, NEW z \in Int, y < z
    PROVE  DaysBeforeYear(y) + 365 <= DaysBeforeYear(z)
BY SMTT(20) DEF DaysBeforeYear

LEMMA EraArithmetic ==
    ASSUME NEW doe \in Int, 0 <= doe, doe <= 146096,
           NEW yoe \in Int, yoe = (doe - doe \div 1460 + doe \div 36524 - doe \div 146096) \div 365,
           NEW doy \in Int, doy = doe - (365 * yoe + yoe \div 4 - yoe \div 100)
    PROVE  0 <= yoe /\ yoe <= 399 /\ 0 <= doy /\ doy <= 365
BY SMTT(20)

LEMMA YearOfEraRange ==
    ASSUME NEW doe \in Int, 0 <= doe, doe <= 146096
    PROVE  /\ YearOfEra(doe) \in Int /\ 0 <= YearOfEra(doe) /\ YearOfEra(doe) <= 399
           /\ DayOfYear(doe) \in Int /\ 0 <= DayOfYear(doe) /\ DayOfYear(doe) <= 365
<1> DEFINE yoe == (doe - doe \div 1460 + doe \div 36524 - doe \div 146096) \div 365
           doy == doe - (365 * yoe + yoe \div 4 - yoe \div 100)
<1>1. yoe \in Int /\ doy \in Int
  BY SMTT(20)
<1>2. 0 <= yoe /\ yoe <= 399 /\ 0 <= doy /\ doy <= 365
  <2> HIDE DEF yoe, doy
  <2> QED BY <1>1, EraArithmetic, SMTT(20) DEF yoe, doy
<1> HIDE DEF yoe, doy
<1> QED  BY <1>1, <1>2, SMTT(20) DEF YearOfEra, DayOfYear, yoe, doy

LEMMA YearInEra ==
    ASSUME NEW yoe \in Int, 0 <= yoe, yoe <= 399, NEW era \in Int
    PROVE  DaysBeforeYear(yoe + era * 400) = era * 146097 + yoe * 365 + yoe \div 4 - yoe \div 100
<1>1. (yoe + era * 400) \div 400 = era /\ (yoe + era * 400) % 400 = yoe
  BY SMTT(20)
<1> QED  BY <1>1, SMTT(20) DEF DaysBeforeYear

(* A month counted from March, and back.                                   *)
LEMMA MonthInYear ==
    ASSUME NEW doy \in Int, 0 <= doy, doy <= 365,
           NEW mp \in Int, mp = (5 * doy + 2) \div 153,
           NEW m \in Int, m = (IF mp >= 10 THEN mp - 9 ELSE mp + 3)
    PROVE  /\ m \in 1..12
           /\ mp >= 10 <=> m <= 2
           /\ mp = (IF m <= 2 THEN m + 9 ELSE m - 3)
<1>1. 0 <= mp /\ mp <= 11
  BY SMTT(20)
<1> QED  BY <1>1, SMTT(20)

LEMMA Eras ==
    ASSUME NEW z \in Int, NEW q \in Int, q = z \div 146097, NEW r \in Int, r = z % 146097
    PROVE  z = q * 146097 + r /\ 0 <= r /\ r < 146097
BY SMTT(20)

LEMMA DaysAddUp ==
    ASSUME NEW n \in Int, NEW era \in Int, NEW doe \in Int, n - 60 = era * 146097 + doe,
           NEW yoe \in Int, NEW doy \in Int, doy = doe - (365 * yoe + yoe \div 4 - yoe \div 100),
           NEW years \in Int, years = era * 146097 + yoe * 365 + yoe \div 4 - yoe \div 100,
           NEW months \in Int, NEW d \in Int, d = doy - months + 1
    PROVE  years + months + d - 1 + 60 = n
BY SMTT(20)

(* Counting the days of the date that civilFromDays finds gives the number *)
(* it was given.                                                           *)
LEMMA RoundTrip ==
    ASSUME NEW n \in Int
    PROVE  /\ CivilFromDays(n).year \in Int /\ CivilFromDays(n).month \in 1..12
           /\ CivilFromDays(n).day \in Int
           /\ DayNumber(CivilFromDays(n).year, CivilFromDays(n).month, CivilFromDays(n).day) = n
<1>1. PICK era \in Int : era = (n - 60) \div 146097
  BY SMTT(20)
<1>2. PICK doe \in Int : doe = (n - 60) % 146097
  BY SMTT(20)
<1>3. n - 60 = era * 146097 + doe /\ 0 <= doe /\ doe < 146097
  BY <1>1, <1>2, Eras, SMTT(20)
<1>4. PICK yoe \in Int : yoe = YearOfEra(doe)
  BY <1>3, YearOfEraRange, SMTT(20)
<1>5. PICK doy \in Int : doy = DayOfYear(doe)
  BY <1>3, YearOfEraRange, SMTT(20)
<1>6. 0 <= yoe /\ yoe <= 399 /\ 0 <= doy /\ doy <= 365
  BY <1>3, <1>4, <1>5, YearOfEraRange, SMTT(20)
<1>7. doy = doe - (365 * yoe + yoe \div 4 - yoe \div 100)
  BY <1>4, <1>5, SMTT(20) DEF DayOfYear
<1>8. PICK mp \in Int : mp = (5 * doy + 2) \div 153
  BY SMTT(20)
<1>9. PICK m \in Int : m = (IF mp >= 10 THEN mp - 9 ELSE mp + 3)
  BY SMTT(20)
<1>10. m \in 1..12 /\ (mp >= 10 <=> m <= 2) /\ mp = (IF m <= 2 THEN m + 9 ELSE m - 3)
  BY <1>6, <1>8, <1>9, MonthInYear, SMTT(20)
<1>11. PICK yy \in Int : yy = yoe + era * 400
  BY SMTT(20)
<1>12. PICK y \in Int : y = (IF m <= 2 THEN yy + 1 ELSE yy)
  BY SMTT(20)
<1>13. DaysBeforeYear(yy) = era * 146097 + yoe * 365 + yoe \div 4 - yoe \div 100
  BY <1>6, <1>11, YearInEra, SMTT(20)
<1>14. PICK years \in Int : years = DaysBeforeYear(yy)
  BY <1>13, SMTT(20)
<1>15. PICK months \in Int : months = DaysBeforeMonth(mp)
  BY SMTT(20) DEF DaysBeforeMonth
<1>16. PICK d \in Int : d = doy - months + 1
  BY SMTT(20)
<1>17. years + months + d - 1 + 60 = n
  BY <1>3, <1>7, <1>13, <1>14, <1>16, DaysAddUp, SMTT(20)
<1>18. yy = (IF m <= 2 THEN y - 1 ELSE y)
  BY <1>12, SMTT(20)
<1>19. DayNumber(y, m, d) = years + months + d - 1 + 60
  BY <1>10, <1>14, <1>15, <1>18, SMTT(20) DEF DayNumber
<1>20. CivilFromDays(n) = [year |-> y, month |-> m, day |-> d]
  BY <1>1, <1>2, <1>4, <1>5, <1>8, <1>9, <1>11, <1>12, <1>15, <1>16, SMTT(20) DEF CivilFromDays
<1> QED  BY <1>10, <1>17, <1>19, <1>20, SMTT(20)

-----------------------------------------------------------------------------
LEMMA UnitsType == Minute \in Int /\ Hour \in Int /\ Day \in Int /\ Minute > 0 /\ Hour > 0 /\ Day > 0
BY UnitsAssumption, SMTT(20) DEF Hour, Day

LEMMA DayOfType == ASSUME NEW x \in DateTimes PROVE DayOf(x) \in Int
<1>1. PICK y \in Int, m \in Int, d \in Int : y = x.year /\ m = x.month /\ d = x.day
  BY SMTT(20) DEF DateTimes
<1>2. PICK zero \in Int, one \in Int : zero = 0 /\ one = 1
  BY SMTT(20)
<1>3. /\ DayNumber(zero, one, one) \in Int /\ DayNumber(y, m, one) \in Int
      /\ DayNumber(zero, m, one) \in Int /\ DayNumber(zero, m, d) \in Int
      /\ DayNumber(zero, one, d) \in Int /\ DayNumber(y, m, d) \in Int
  BY DayNumberType
<1>4. /\ DayNumber(0, 1, 1) \in Int /\ DayNumber(x.year, x.month, 1) \in Int
      /\ DayNumber(0, x.month, 1) \in Int /\ DayNumber(0, x.month, x.day) \in Int
      /\ DayNumber(0, 1, x.day) \in Int /\ DayNumber(x.year, x.month, x.day) \in Int
  BY <1>1, <1>2, <1>3, Zenon
<1> QED  BY <1>4, SMTT(20) DEF DayOf

(* The calendar: a year that begins in March ends with February's last day. *)
LEMMA YearLength ==
    ASSUME NEW y \in Int
    PROVE  DaysBeforeYear(y) = DaysBeforeYear(y - 1) + (IF IsLeap(y) THEN 366 ELSE 365)
<1>1. PICK q \in Int, r \in Int : q = y \div 400 /\ r = y % 400
  BY SMTT(20)
<1>2. y = q * 400 + r /\ r \in 0..399
  BY <1>1, SMTT(20)
<1>3. IsLeap(y) <=> r % 4 = 0 /\ (r % 100 # 0 \/ r = 0)
  BY <1>2, SMTT(20) DEF IsLeap
<1>4. CASE r = 0
  <2>1. (y - 1) \div 400 = q - 1 /\ (y - 1) % 400 = 399
    BY <1>2, <1>4, SMTT(20)
  <2>2. QED  BY <1>1, <1>3, <1>4, <2>1, SMTT(20) DEF DaysBeforeYear
<1>5. CASE r # 0
  <2>1. (y - 1) \div 400 = q /\ (y - 1) % 400 = r - 1
    BY <1>2, <1>5, SMTT(20)
  <2>2. r \div 4 = (r - 1) \div 4 + (IF r % 4 = 0 THEN 1 ELSE 0)
    BY <1>2, SMTT(20)
  <2>3. r \div 100 = (r - 1) \div 100 + (IF r % 100 = 0 THEN 1 ELSE 0)
    BY <1>2, SMTT(20)
  <2>4. r % 100 = 0 => r % 4 = 0
    BY <1>2, SMTT(20)
  <2>5. QED  BY <1>1, <1>2, <1>3, <1>5, <2>1, <2>2, <2>3, <2>4, SMTT(20) DEF DaysBeforeYear
<1> QED  BY <1>4, <1>5

LEMMA MonthLength ==
    ASSUME NEW y \in Int, NEW m \in 1..11
    PROVE  DayNumber(y, m + 1, 1) = DayNumber(y, m, DaysInMonth(y, m)) + 1
<1>1. PICK a \in Int, b \in Int : a = DaysBeforeYear(y) /\ b = DaysBeforeYear(y - 1)
  BY SMTT(20) DEF DaysBeforeYear
<1>2. a = b + (IF IsLeap(y) THEN 366 ELSE 365)
  BY <1>1, YearLength, SMTT(20)
<1>3. CASE m = 1
  BY <1>1, <1>3, SMTT(20) DEF DayNumber, DaysInMonth, DaysBeforeMonth
<1>4. CASE m = 2
  <2>1. PICK n \in Int : n = DaysInMonth(y, m) /\ n = (IF IsLeap(y) THEN 29 ELSE 28)
    BY <1>4, SMTT(20) DEF DaysInMonth
  <2>2. DayNumber(y, m + 1, 1) = a + 60
    BY <1>1, <1>4, SMTT(20) DEF DayNumber, DaysBeforeMonth
  <2>3. DayNumber(y, m, n) = b + 337 + n - 1 + 60
    BY <1>1, <1>4, SMTT(20) DEF DayNumber, DaysBeforeMonth
  <2>4. DayNumber(y, m, DaysInMonth(y, m)) = DayNumber(y, m, n)
    BY <2>1, Zenon
  <2>5. a = b + n + 337
    BY <1>2, <2>1, SMTT(20)
  <2> QED  BY <2>2, <2>3, <2>4, <2>5, SMTT(20)
<1>5. CASE m \in 3..11
  <2>1. PICK mp \in Int : mp = m - 3
    BY SMTT(20)
  <2>2. PICK n \in Int : n = DaysInMonth(y, m) /\ n = (IF mp \in {1, 3, 6, 8} THEN 30 ELSE 31)
    BY <1>5, <2>1, SMTT(20) DEF DaysInMonth
  <2>3. (153 * (mp + 1) + 2) \div 5 = (153 * mp + 2) \div 5 + n
    BY <1>5, <2>1, <2>2, SMTT(20)
  <2>4. DayNumber(y, m + 1, 1) = a + (153 * (mp + 1) + 2) \div 5 + 60
    BY <1>1, <1>5, <2>1, SMTT(20) DEF DayNumber, DaysBeforeMonth
  <2>5. DayNumber(y, m, n) = a + (153 * mp + 2) \div 5 + n - 1 + 60
    BY <1>1, <1>5, <2>1, SMTT(20) DEF DayNumber, DaysBeforeMonth
  <2>6. DayNumber(y, m, DaysInMonth(y, m)) = DayNumber(y, m, n)
    BY <2>2, Zenon
  <2> QED  BY <2>3, <2>4, <2>5, <2>6, SMTT(20)
<1> QED  BY <1>3, <1>4, <1>5, SMTT(20)

LEMMA NextNumber ==
    ASSUME NEW y \in Int, NEW m \in 1..12, NEW d \in Int
    PROVE  /\ DayNumber(y, m, d + 1) = DayNumber(y, m, d) + 1
           /\ DayNumber(y + 1, 1, 1) = DayNumber(y, 12, 31) + 1
<1>1. PICK a \in Int, b \in Int : a = DaysBeforeYear(y) /\ b = DaysBeforeYear(y - 1)
  BY SMTT(20) DEF DaysBeforeYear
<1>2. y + 1 - 1 = y
  BY SMTT(20)
<1>3. DayNumber(y, m, d + 1) = DayNumber(y, m, d) + 1
  BY <1>1, SMTT(20) DEF DayNumber, DaysBeforeMonth
<1>4. DayNumber(y + 1, 1, 1) = DayNumber(y, 12, 31) + 1
  BY <1>1, <1>2, SMTT(20) DEF DayNumber, DaysBeforeMonth
<1> QED  BY <1>3, <1>4

(* 24:00:00: the rolled date is a date of the calendar, a day later.       *)
THEOREM NextDay ==
    ASSUME NEW x \in DateTimes, x.kind = "dateTime", x.day <= DaysInMonth(x.year, x.month)
    PROVE  LET next == AddOneDay(x)
           IN  /\ next.day \in 1..DaysInMonth(next.year, next.month)
               /\ DayOf(next) = DayOf(x) + 1
<1>1. PICK y \in Int, m \in 1..12, d \in Int : y = x.year /\ m = x.month /\ d = x.day /\ d >= 1
  BY SMTT(20) DEF DateTimes
<1>2. DayOf(x) = DayNumber(y, m, d)
  BY <1>1, Zenon DEF DayOf
<1> DEFINE next == AddOneDay(x)
<1>3. PICK n \in Int : n = DaysInMonth(y, m) /\ (m = 12 => n = 31) /\ n >= d
  BY <1>1, SMTT(20) DEF DaysInMonth
<1>4. CASE d + 1 <= n
  <2>1. next = [x EXCEPT !.day = d + 1]
    BY <1>1, <1>3, <1>4, Zenon DEF AddOneDay
  <2>2. next.kind = "dateTime" /\ next.year = y /\ next.month = m /\ next.day = d + 1
    <3> HIDE DEF next
    <3> QED  BY <1>1, <2>1, SMTT(20) DEF DateTimes
  <2> HIDE DEF next
  <2>3. DayOf(next) = DayNumber(y, m, d + 1)
    BY <2>2, Zenon DEF DayOf
  <2>4. DayOf(next) = DayOf(x) + 1
    BY <1>2, <2>3, NextNumber, Zenon
  <2>5. next.day \in 1..DaysInMonth(next.year, next.month)
    BY <1>1, <1>3, <1>4, <2>2, SMTT(20)
  <2> QED  BY <2>4, <2>5 DEF next
<1>5. CASE ~(d + 1 <= n) /\ m + 1 <= 12
  <2>1. next = [x EXCEPT !.month = m + 1, !.day = 1]
    BY <1>1, <1>3, <1>5, Zenon DEF AddOneDay
  <2>2. next.kind = "dateTime" /\ next.year = y /\ next.month = m + 1 /\ next.day = 1
    <3> HIDE DEF next
    <3> QED  BY <1>1, <2>1, SMTT(20) DEF DateTimes
  <2> HIDE DEF next
  <2>3. DayOf(next) = DayNumber(y, m + 1, 1)
    BY <2>2, Zenon DEF DayOf
  <2>4. d = n /\ m \in 1..11
    BY <1>3, <1>5, SMTT(20)
  <2>5. DayOf(next) = DayOf(x) + 1
    BY <1>2, <1>3, <2>3, <2>4, MonthLength, Zenon
  <2>6. next.day \in 1..DaysInMonth(next.year, next.month)
    BY <2>2, SMTT(20) DEF DaysInMonth
  <2> QED  BY <2>5, <2>6 DEF next
<1>6. CASE ~(d + 1 <= n) /\ ~(m + 1 <= 12)
  <2>1. next = [x EXCEPT !.year = y + 1, !.month = 1, !.day = 1]
    BY <1>1, <1>3, <1>6, Zenon DEF AddOneDay
  <2>2. next.kind = "dateTime" /\ next.year = y + 1 /\ next.month = 1 /\ next.day = 1
    <3> HIDE DEF next
    <3> QED  BY <1>1, <2>1, SMTT(20) DEF DateTimes
  <2> HIDE DEF next
  <2>3. DayOf(next) = DayNumber(y + 1, 1, 1)
    BY <2>2, Zenon DEF DayOf
  <2>4. d = 31 /\ m = 12
    BY <1>3, <1>6, SMTT(20)
  <2>5. DayOf(next) = DayOf(x) + 1
    BY <1>2, <2>3, <2>4, NextNumber, Zenon
  <2>6. next.day \in 1..DaysInMonth(next.year, next.month)
    BY <2>2, SMTT(20) DEF DaysInMonth
  <2> QED  BY <2>5, <2>6 DEF next
<1> QED  BY <1>4, <1>5, <1>6

(* A value without a timezone may be up to fourteen hours earlier or later. *)
LEMMA Shifts ==
    ASSUME NEW x \in DateTimes
    PROVE  /\ Timeline(x, 0) \in Int /\ Timeline(x, 840) \in Int /\ Timeline(x, -840) \in Int
           /\ x.hasTZ => Timeline(x, 840) = Timeline(x, 0) /\ Timeline(x, -840) = Timeline(x, 0)
           /\ ~x.hasTZ => /\ Timeline(x, 840) = Timeline(x, 0) - 840 * Minute
                          /\ Timeline(x, -840) = Timeline(x, 0) + 840 * Minute
<1>1. x.hour \in Int /\ x.minute \in Int /\ x.second \in Int /\ x.tz \in Int /\ x.hasTZ \in BOOLEAN
  BY UnitsType, SMTT(20) DEF DateTimes
<1>2. PICK t \in Int : t = LocalTime(x)
  BY <1>1, DayOfType, UnitsType, SMTT(20) DEF LocalTime
<1>3. \A s \in Int : Timeline(x, s) = t - (IF x.hasTZ THEN x.tz ELSE s) * Minute
  BY <1>2, SMTT(20) DEF Timeline
<1>4. CASE x.hasTZ
  BY <1>1, <1>3, <1>4, UnitsType, SMTT(20)
<1>5. CASE ~x.hasTZ
  BY <1>3, <1>5, UnitsType, SMTT(20)
<1> QED  BY <1>1, <1>4, <1>5, SMTT(20)

(* DateTime.Compare, values with and without a timezone mixed.             *)
THEOREM DatesOrdered ==
    ASSUME NEW a \in DateTimes, NEW b \in DateTimes, NEW c \in DateTimes
    PROVE  ~DateLess(a, a) /\ (DateLess(a, b) /\ DateLess(b, c) => DateLess(a, c))
<1>1. a.hasTZ \in BOOLEAN /\ b.hasTZ \in BOOLEAN /\ c.hasTZ \in BOOLEAN
  BY SMTT(20) DEF DateTimes
<1>2. ~DateLess(a, a)
  BY Shifts, SMTT(20) DEF DateLess
<1>3. ASSUME DateLess(a, b), DateLess(b, c) PROVE DateLess(a, c)
  BY <1>1, <1>3, Shifts, UnitsType, SMTT(20) DEF DateLess
<1> QED  BY <1>2, <1>3, SMTT(20)

-----------------------------------------------------------------------------
(* The day on which the n-th month since the year 0 begins.                *)
MonthStart(n) == DayNumber(n \div 12, (n % 12) + 1, 1)

LEMMA MonthFromMarch ==
    ASSUME NEW n \in Int
    PROVE  MonthStart(n) = DaysBeforeYear((n - 2) \div 12) + DaysBeforeMonth((n - 2) % 12) + 60
<1>1. PICK y \in Int, m \in Int : y = n \div 12 /\ m = (n % 12) + 1
  BY SMTT(20)
<1>2. PICK yy \in Int, mp \in Int : /\ yy = (IF m <= 2 THEN y - 1 ELSE y)
                                    /\ mp = (IF m <= 2 THEN m + 9 ELSE m - 3)
  BY <1>1, SMTT(20)
<1>3. yy = (n - 2) \div 12 /\ mp = (n - 2) % 12
  BY <1>1, <1>2, SMTT(20)
<1>4. PICK a \in Int, b \in Int : a = DaysBeforeYear(yy) /\ b = DaysBeforeMonth(mp)
  BY SMTT(20) DEF DaysBeforeYear, DaysBeforeMonth
<1>5. DayNumber(y, m, 1) = a + b + 1 - 1 + 60
  BY <1>1, <1>2, <1>4, SMTT(20) DEF DayNumber
<1> QED  BY <1>1, <1>3, <1>4, <1>5, SMTT(20) DEF MonthStart

LEMMA MonthsIncrease ==
    ASSUME NEW n \in Int, NEW k \in Int, n < k
    PROVE  MonthStart(n) \in Int /\ MonthStart(k) \in Int /\ MonthStart(n) < MonthStart(k)
<1>1. PICK y \in Int, m \in Int : y = (n - 2) \div 12 /\ m = (n - 2) % 12
  BY SMTT(20)
<1>2. PICK v \in Int, w \in Int : v = (k - 2) \div 12 /\ w = (k - 2) % 12
  BY SMTT(20)
<1>3. m \in 0..11 /\ w \in 0..11 /\ (y < v \/ (y = v /\ m < w))
  BY <1>1, <1>2, SMTT(20)
<1>4. PICK a \in Int, b \in Int : a = DaysBeforeYear(y) /\ b = DaysBeforeMonth(m)
  BY SMTT(20) DEF DaysBeforeYear, DaysBeforeMonth
<1>5. PICK e \in Int, f \in Int : e = DaysBeforeYear(v) /\ f = DaysBeforeMonth(w)
  BY SMTT(20) DEF DaysBeforeYear, DaysBeforeMonth
<1>6. 0 <= b /\ b <= 337 /\ 0 <= f /\ f <= 337 /\ (m < w => b < f)
  BY <1>3, <1>4, <1>5, SMTT(20) DEF DaysBeforeMonth
<1>7. y < v => a + 365 <= e
  BY <1>4, <1>5, YearsIncrease, SMTT(20)
<1>8. MonthStart(n) = a + b + 60 /\ MonthStart(k) = e + f + 60
  <2>1. MonthStart(n) = DaysBeforeYear(y) + DaysBeforeMonth(m) + 60
    BY <1>1, MonthFromMarch, Zenon
  <2>2. MonthStart(k) = DaysBeforeYear(v) + DaysBeforeMonth(w) + 60
    BY <1>2, MonthFromMarch, Zenon
  <2>3. QED  BY <1>4, <1>5, <2>1, <2>2, SMTT(20)
<1>9. y = v => a = e
  BY <1>4, <1>5, Zenon
<1> QED  BY <1>3, <1>6, <1>7, <1>8, <1>9, SMTT(20)

(* The clock that AddDuration reads off a count of seconds.                *)
LEMMA Clock ==
    ASSUME NEW s \in Int
    PROVE  LET rem == s % Day
           IN  /\ s \div Day \in Int /\ rem \div Hour \in Int
               /\ (rem % Hour) \div Minute \in Int /\ (rem % Hour) % Minute \in Int
               /\ (s \div Day) * Day + (rem \div Hour) * Hour + ((rem % Hour) \div Minute) * Minute
                    + ((rem % Hour) % Minute) = s
<1>1. \A a \in Int, n \in Int : n > 0 => a \div n \in Int /\ a % n \in Int /\ (a \div n) * n + (a % n) = a
  BY SMTT(20)
<1>2. PICK rem \in Int, days \in Int : rem = s % Day /\ days = s \div Day /\ days * Day + rem = s
  BY <1>1, UnitsType, SMTT(20)
<1>3. PICK r \in Int, h \in Int : r = rem % Hour /\ h = rem \div Hour /\ h * Hour + r = rem
  BY <1>1, UnitsType, SMTT(20)
<1>4. PICK q \in Int, i \in Int : q = r % Minute /\ i = r \div Minute /\ i * Minute + q = r
  BY <1>1, UnitsType, SMTT(20)
<1>5. PICK x \in Int, y \in Int, t \in Int : x = days * Day /\ y = h * Hour /\ t = i * Minute
  BY UnitsType, SMTT(20)
<1>6. x + y + t + q = s
  BY <1>2, <1>3, <1>4, <1>5, SMTT(20)
<1> QED  BY <1>2, <1>3, <1>4, <1>5, <1>6, SMTT(20)

(* Where a reference lands that a duration is added to.                    *)
LEMMA Landing ==
    ASSUME NEW y \in Int, NEW m \in 1..12, NEW dur \in Durations, NEW n \in Int,
           n = y * 12 + m - 1 + dur.months,
           -Limit <= MonthStart(n) * Day + dur.seconds, MonthStart(n) * Day + dur.seconds < Limit
    PROVE  LET end == AddDuration(Reference(y, m), dur)
           IN  /\ end.kind = "dateTime" /\ end.hasTZ = TRUE
               /\ Timeline(end, 0) = MonthStart(n) * Day + dur.seconds
<1>1. PICK secs \in Int : secs = dur.seconds
  BY SMTT(20) DEF Durations
<1>2. PICK v \in Int, w \in Int : v = n \div 12 /\ w = (n % 12) + 1
  BY SMTT(20)
<1>3. Pinned(1, DaysInMonth(v, w)) = 1
  BY SMTT(20) DEF Pinned, DaysInMonth
<1>4. PICK start \in Int : start = DayNumber(v, w, 1) /\ start = MonthStart(n)
  <2>1. MonthStart(n) = DayNumber(v, w, 1)
    BY <1>2, Zenon DEF MonthStart
  <2>2. PICK one \in Int : one = 1
    BY SMTT(20)
  <2>3. DayNumber(v, w, one) \in Int
    BY DayNumberType
  <2>4. DayNumber(v, w, 1) \in Int
    BY <2>2, <2>3, Zenon
  <2>5. QED  BY <2>1, <2>4, Zenon
<1>5. PICK s \in Int : s = start * Day + secs
  BY UnitsType, SMTT(20)
<1>0. Wrapped(s) = s
  <2>1. -Limit <= s /\ s < Limit
    BY <1>1, <1>4, <1>5, Zenon
  <2>2. QED  BY <2>1, UnitsAssumption, SMTT(20) DEF Wrapped
<1>6. PICK days \in Int, rem \in Int : days = s \div Day /\ rem = s % Day
  BY UnitsType, SMTT(20)
<1>7. PICK h \in Int, i \in Int, q \in Int :
        /\ h = rem \div Hour /\ i = (rem % Hour) \div Minute /\ q = (rem % Hour) % Minute
        /\ days * Day + h * Hour + i * Minute + q = s
  BY <1>6, Clock, SMTT(20)
<1>8. PICK cy \in Int, cm \in Int, cd \in Int :
        /\ cy = CivilFromDays(days).year /\ cm = CivilFromDays(days).month /\ cd = CivilFromDays(days).day
        /\ DayNumber(cy, cm, cd) = days
  BY RoundTrip, SMTT(20)
<1> DEFINE ref == Reference(y, m)
           end == AddDuration(ref, dur)
<1>9. /\ ref.year = y /\ ref.month = m /\ ref.day = 1 /\ ref.hour = 0 /\ ref.minute = 0
      /\ ref.second = 0
  BY SMTT(20) DEF Reference
<1>10. 1 * Day = Day /\ 0 * Hour = 0 /\ 0 * Minute = 0
  BY UnitsType, SMTT(20)
<1>11. end = [ref EXCEPT !.year = cy, !.month = cm, !.day = cd, !.hour = h, !.minute = i, !.second = q]
  <2>1. ref.year * 12 + ref.month - 1 + dur.months = n
    BY <1>9, SMTT(20)
  <2>2. DayNumber(v, w, Pinned(ref.day, DaysInMonth(v, w))) * Day + ref.hour * Hour + ref.minute * Minute
          + ref.second + dur.seconds = s
    <3>1. ref.hour * Hour = 0 /\ ref.minute * Minute = 0
      BY <1>9, <1>10, Zenon
    <3>2. PICK p \in Int : p = start * Day
      BY UnitsType, SMTT(20)
    <3>3. DayNumber(v, w, Pinned(ref.day, DaysInMonth(v, w))) * Day = p
      BY <1>3, <1>4, <1>9, <3>2, Zenon
    <3>4. QED  BY <1>1, <1>5, <1>9, <3>1, <3>2, <3>3, SMTT(20)
  <2> HIDE DEF ref
  <2> DEFINE total == ref.year * 12 + ref.month - 1 + dur.months
             sum == Wrapped(DayNumber(total \div 12, (total % 12) + 1,
                                      Pinned(ref.day, DaysInMonth(total \div 12, (total % 12) + 1))) * Day
                            + ref.hour * Hour + ref.minute * Minute + ref.second + dur.seconds)
  <2>3. end = [ref EXCEPT !.year = CivilFromDays(sum \div Day).year,
                          !.month = CivilFromDays(sum \div Day).month,
                          !.day = CivilFromDays(sum \div Day).day,
                          !.hour = (sum % Day) \div Hour,
                          !.minute = ((sum % Day) % Hour) \div Minute,
                          !.second = ((sum % Day) % Hour) % Minute]
    BY Zenon DEF AddDuration
  <2>4. sum = s
    BY <1>0, <1>2, <2>1, <2>2, Zenon
  <2> HIDE DEF sum, end
  <2>5. QED  BY <1>6, <1>7, <1>8, <2>3, <2>4, Zenon
<1>12. /\ end.year = cy /\ end.month = cm /\ end.day = cd /\ end.hour = h /\ end.minute = i
       /\ end.second = q /\ end.kind = "dateTime" /\ end.hasTZ = TRUE /\ end.tz = 0
  <2> HIDE DEF end
  <2> QED  BY <1>11, SMTT(20) DEF Reference
<1> HIDE DEF ref, end
<1>13. DayOf(end) = days
  BY <1>8, <1>12, SMTT(20) DEF DayOf
<1>14. Timeline(end, 0) = s
  <2>1. LocalTime(end) = days * Day + h * Hour + i * Minute + q
    BY <1>12, <1>13, Zenon DEF LocalTime
  <2>2. LocalTime(end) = s
    BY <1>7, <2>1, Zenon
  <2>3. end.tz * Minute = 0
    BY <1>10, <1>12, Zenon
  <2>4. QED  BY <1>12, <2>2, <2>3, SMTT(20) DEF Timeline
<1> QED  BY <1>1, <1>4, <1>5, <1>12, <1>14, SMTT(20) DEF end, ref

(* The seconds at which it lands, and the durations of which an int64 can  *)
(* count them.                                                             *)
After(y, m, dur) == MonthStart(y * 12 + m - 1 + dur.months) * Day + dur.seconds

InReach(dur) ==
    \A y \in Int, m \in 1..12 :
      Reference(y, m) \in DurationRefs => -Limit <= After(y, m, dur) /\ After(y, m, dur) < Limit

LEMMA AfterType ==
    ASSUME NEW y \in Int, NEW m \in 1..12, NEW dur \in Durations
    PROVE  After(y, m, dur) \in Int
<1>1. PICK n \in Int, k \in Int : n = y * 12 + m - 1 + dur.months /\ k = n + 1 /\ n < k
  BY SMTT(20) DEF Durations
<1>2. PICK start \in Int, s \in Int : start = MonthStart(n) /\ s = dur.seconds
  BY <1>1, MonthsIncrease, SMTT(20) DEF Durations
<1>3. After(y, m, dur) = start * Day + s
  BY <1>1, <1>2, Zenon DEF After
<1> QED  BY <1>3, UnitsType, SMTT(20)

LEMMA FromReference ==
    ASSUME NEW y \in Int, NEW m \in 1..12, NEW d \in Durations, NEW o \in Durations,
           Reference(y, m) \in DurationRefs, InReach(d), InReach(o)
    PROVE  LessFrom(Reference(y, m), d, o) <=> After(y, m, d) < After(y, m, o)
<1>1. PICK n \in Int, k \in Int : n = y * 12 + m - 1 + d.months /\ k = y * 12 + m - 1 + o.months
  BY SMTT(20) DEF Durations
<1>0. /\ -Limit <= MonthStart(n) * Day + d.seconds /\ MonthStart(n) * Day + d.seconds < Limit
      /\ -Limit <= MonthStart(k) * Day + o.seconds /\ MonthStart(k) * Day + o.seconds < Limit
  BY <1>1, Zenon DEF InReach, After
<1> DEFINE a == AddDuration(Reference(y, m), d)
           b == AddDuration(Reference(y, m), o)
<1>2. a.kind = "dateTime" /\ a.hasTZ = TRUE /\ Timeline(a, 0) = MonthStart(n) * Day + d.seconds
  BY <1>0, <1>1, Landing, Zenon
<1>3. b.kind = "dateTime" /\ b.hasTZ = TRUE /\ Timeline(b, 0) = MonthStart(k) * Day + o.seconds
  BY <1>0, <1>1, Landing, Zenon
<1>4. LessFrom(Reference(y, m), d, o) <=> DateLess(a, b)
  BY Zenon DEF LessFrom
<1> HIDE DEF a, b
<1>5. DateLess(a, b) <=> Timeline(a, 0) < Timeline(b, 0)
  BY <1>2, <1>3, ZenonT(20) DEF DateLess
<1>6. Timeline(a, 0) = After(y, m, d) /\ Timeline(b, 0) = After(y, m, o)
  BY <1>1, <1>2, <1>3, Zenon DEF After
<1> QED  BY <1>4, <1>5, <1>6, Zenon

LEMMA ReferencesAreDates ==
    /\ \A ref \in DurationRefs : \E y \in Int, m \in 1..12 : ref = Reference(y, m)
    /\ DurationRefs # {}
<1>1. 1696 \in Int /\ 1697 \in Int /\ 1903 \in Int /\ 9 \in 1..12 /\ 2 \in 1..12 /\ 3 \in 1..12 /\ 7 \in 1..12
  BY SMTT(20)
<1> QED  BY <1>1, SMTT(20) DEF DurationRefs

(* The two shortcuts of Compare give what the four references would.       *)
LEMMA LessFromEverywhere ==
    ASSUME NEW d \in Durations, NEW o \in Durations, InReach(d), InReach(o)
    PROVE  DurationLess(d, o) <=> \A ref \in DurationRefs : LessFrom(ref, d, o)
<1>1. PICK dm \in Int, ds \in Int : dm = d.months /\ ds = d.seconds
  BY SMTT(20) DEF Durations
<1>2. PICK om \in Int, os \in Int : om = o.months /\ os = o.seconds
  BY SMTT(20) DEF Durations
<1>3. ASSUME NEW y \in Int, NEW m \in 1..12, Reference(y, m) \in DurationRefs
      PROVE  /\ dm = om => (LessFrom(Reference(y, m), d, o) <=> ds < os)
             /\ ds = os => (LessFrom(Reference(y, m), d, o) <=> dm < om)
  <2>1. PICK n \in Int, k \in Int : /\ n = y * 12 + m - 1 + dm /\ k = y * 12 + m - 1 + om
                                    /\ n = y * 12 + m - 1 + d.months /\ k = y * 12 + m - 1 + o.months
    BY <1>1, <1>2, SMTT(20)
  <2>0. LessFrom(Reference(y, m), d, o) <=> MonthStart(n) * Day + ds < MonthStart(k) * Day + os
    BY <1>1, <1>2, <1>3, <2>1, FromReference, Zenon DEF After
  <2>2. PICK a \in Int, b \in Int :
          /\ a = MonthStart(n) /\ b = MonthStart(k)
          /\ (n < k => a < b) /\ (k < n => b < a) /\ (n = k => a = b)
    <3>1. n < k \/ k < n \/ n = k
      BY SMTT(20)
    <3>2. n < n + 1 /\ n + 1 \in Int
      BY SMTT(20)
    <3>3. MonthStart(n) \in Int
      BY <3>2, MonthsIncrease, Zenon
    <3>4. CASE n = k
      BY <3>3, <3>4, SMTT(20)
    <3>5. CASE n < k
      BY <3>5, MonthsIncrease, SMTT(20)
    <3>6. CASE k < n
      BY <3>6, MonthsIncrease, SMTT(20)
    <3>7. QED  BY <3>1, <3>4, <3>5, <3>6, Zenon
  <2>3. /\ (n < k <=> dm < om) /\ (n = k <=> dm = om)
    BY <2>1, SMTT(20)
  <2>4. PICK day \in Int : day = Day /\ day > 0
    BY UnitsType, Zenon
  <2>5. PICK x \in Int, z \in Int : /\ x = a * day /\ z = b * day
                                    /\ (a < b => x < z) /\ (b < a => z < x) /\ (a = b => x = z)
    BY <2>4, SMTT(20)
  <2>6. LessFrom(Reference(y, m), d, o) <=> x + ds < z + os
    BY <2>0, <2>2, <2>4, <2>5, Zenon
  <2> QED  BY <2>2, <2>3, <2>5, <2>6, SMTT(20)
<1>4. \A ref \in DurationRefs : /\ dm = om => (LessFrom(ref, d, o) <=> ds < os)
                                /\ ds = os => (LessFrom(ref, d, o) <=> dm < om)
  BY <1>3, ReferencesAreDates, Zenon
<1>5. CASE dm = om
  BY <1>1, <1>2, <1>4, <1>5, ReferencesAreDates, Zenon DEF DurationLess
<1>6. CASE dm # om /\ ds = os
  BY <1>1, <1>2, <1>4, <1>6, ReferencesAreDates, Zenon DEF DurationLess
<1>7. CASE dm # om /\ ds # os
  BY <1>1, <1>2, <1>7, Zenon DEF DurationLess
<1> QED  BY <1>5, <1>6, <1>7, Zenon

(* Duration.Compare, as long as the seconds fit.                           *)
THEOREM DurationsOrdered ==
    ASSUME NEW d \in Durations, NEW o \in Durations, NEW p \in Durations,
           InReach(d), InReach(o), InReach(p)
    PROVE  ~DurationLess(d, d) /\ (DurationLess(d, o) /\ DurationLess(o, p) => DurationLess(d, p))
<1>1. ~DurationLess(d, d)
  BY SMTT(20) DEF DurationLess, Durations
<1>2. ASSUME NEW y \in Int, NEW m \in 1..12, Reference(y, m) \in DurationRefs
      PROVE  LessFrom(Reference(y, m), d, o) /\ LessFrom(Reference(y, m), o, p)
               => LessFrom(Reference(y, m), d, p)
  <2>1. PICK a \in Int, b \in Int, c \in Int :
          a = After(y, m, d) /\ b = After(y, m, o) /\ c = After(y, m, p)
    BY AfterType
  <2>2. LessFrom(Reference(y, m), d, o) <=> a < b
    BY <1>2, <2>1, FromReference, Zenon
  <2>3. LessFrom(Reference(y, m), o, p) <=> b < c
    BY <1>2, <2>1, FromReference, Zenon
  <2>4. LessFrom(Reference(y, m), d, p) <=> a < c
    BY <1>2, <2>1, FromReference, Zenon
  <2>5. QED  BY <2>2, <2>3, <2>4, SMTT(20)
<1>3. \A ref \in DurationRefs : LessFrom(ref, d, o) /\ LessFrom(ref, o, p) => LessFrom(ref, d, p)
  BY <1>2, ReferencesAreDates, Zenon
<1> QED  BY <1>1, <1>3, LessFromEverywhere, Zenon

-----------------------------------------------------------------------------
LEMMA Popped ==
    ASSUME NEW S, NEW s \in Seq(S), s # << >>
    PROVE  LET rest == SubSeq(s, 1, Len(s) - 1)
           IN  /\ rest \in Seq(S) /\ Len(rest) = Len(s) - 1
               /\ \A i \in 1..Len(rest) : rest[i] = s[i]
<1>1. Len(s) \in Nat \ {0} /\ \A i \in 1..(Len(s) - 1) : s[i] \in S
  OBVIOUS
<1>2. /\ SubSeq(s, 1, Len(s) - 1) \in Seq(S)
      /\ Len(SubSeq(s, 1, Len(s) - 1)) = (IF 1 <= Len(s) - 1 THEN (Len(s) - 1) - 1 + 1 ELSE 0)
      /\ \A i \in 1..((Len(s) - 1) - 1 + 1) : SubSeq(s, 1, Len(s) - 1)[i] = s[1 + i - 1]
  BY <1>1, SubSeqProperties
<1> DEFINE rest == SubSeq(s, 1, Len(s) - 1)
           n == Len(s)
<1> HIDE DEF rest, n
<1>3. /\ n \in Nat \ {0} /\ rest \in Seq(S) /\ Len(rest) = (IF 1 <= n - 1 THEN (n - 1) - 1 + 1 ELSE 0)
      /\ \A i \in 1..((n - 1) - 1 + 1) : rest[i] = s[1 + i - 1]
  BY <1>1, <1>2 DEF rest, n
<1>4. Len(rest) = n - 1 /\ (n - 1) - 1 + 1 = n - 1
  BY <1>3
<1>5. \A i \in 1..(n - 1) : rest[i] = s[i]
  BY <1>3
<1> QED  BY <1>3, <1>4, <1>5 DEF rest, n

-----------------------------------------------------------------------------
Parents(b) == [t \in Type |-> {b[t]} \ {AnyType}]
Base == [Type -> Type \cup {AnyType}]

-----------------------------------------------------------------------------
(* The climb of checkTypeCycles.                                           *)
Climb(b, t, c) ==
    /\ c \in [0..Cardinality(Type) -> Type \cup {AnyType}]
    /\ c[0] = t
    /\ \A n \in 1..Cardinality(Type) : c[n] = IF c[n - 1] = AnyType THEN AnyType ELSE b[c[n - 1]]

LEMMA ChainClimbs ==
    ASSUME NEW b \in Base, NEW t \in Type
    PROVE  Climb(b, t, Chain(b, t))
<1> DEFINE N == Cardinality(Type)
           F == [x \in Type \cup {AnyType} |-> IF x = AnyType THEN AnyType ELSE b[x]]
           Is(c) == c = [n \in 0..N |-> IF n = 0 THEN t ELSE IF c[n - 1] = AnyType THEN AnyType ELSE b[c[n - 1]]]
<1>1. N \in Nat
  BY ComponentsAssumption, FS_CardinalityType
<1>2. F \in [Type \cup {AnyType} -> Type \cup {AnyType}]
  BY DEF Base
<1>3. PICK c \in [0..N -> Type \cup {AnyType}] : c[0] = t /\ \A n \in 1..N : c[n] = F[c[n - 1]]
  <2> DEFINE D == Type \cup {AnyType}
  <2>1. F \in [D -> D] /\ t \in D
    BY <1>2
  <2> HIDE DEF F, N, D
  <2>2. \E c : Iteration(c, D, F, t, N)
    BY <1>1, <2>1, Iterates
  <2> QED  BY <2>2 DEF D, Iteration
<1> HIDE DEF N
<1>4. ASSUME NEW n \in 0..N
      PROVE  c[n] = IF n = 0 THEN t ELSE IF c[n - 1] = AnyType THEN AnyType ELSE b[c[n - 1]]
  <2>1. CASE n = 0
    BY <2>1, <1>3
  <2>2. CASE n # 0
    <3>1. n \in 1..N /\ n - 1 \in 0..N
      BY <2>2, <1>1
    <3> QED  BY <3>1, <1>3, <2>2
  <2> QED  BY <2>1, <2>2
<1>5. c = [n \in 0..N |-> c[n]]
  BY <1>3
<1>6. Is(c)
  BY <1>4, <1>5
<1> DEFINE d == CHOOSE e : Is(e)
<1>7. Is(d)
  BY <1>6
<1>8. Chain(b, t) = d
  BY DEF Chain, N
<1> HIDE DEF d
<1>9. DOMAIN d = 0..N /\ d[0] = t
  BY <1>7, <1>1
<1>10. ASSUME NEW n \in 1..N PROVE d[n] = IF d[n - 1] = AnyType THEN AnyType ELSE b[d[n - 1]]
  <2>1. n \in 0..N /\ n # 0
    BY <1>1
  <2> QED  BY <2>1, <1>7
<1>11. 0..N \subseteq {n \in Nat : n \in 0..N => d[n] \in Type \cup {AnyType}}
  <2> DEFINE S == {n \in Nat : n \in 0..N => d[n] \in Type \cup {AnyType}}
  <2>1. 0 \in S
    BY <1>9
  <2>2. ASSUME NEW n \in Nat, n \in S PROVE n + 1 \in S
    <3> SUFFICES ASSUME n + 1 \in 0..N PROVE d[n + 1] \in Type \cup {AnyType}
      OBVIOUS
    <3>1. n + 1 \in 1..N /\ n \in 0..N /\ (n + 1) - 1 = n
      BY <1>1
    <3>2. d[n + 1] = IF d[n] = AnyType THEN AnyType ELSE b[d[n]]
      BY <3>1, <1>10
    <3> QED  BY <3>1, <3>2, <2>2 DEF Base
  <2>3. Nat \subseteq S
    BY <2>1, <2>2, InductionOnNat
  <2> QED  BY <2>3, <1>1
<1>12. d = [n \in 0..N |-> d[n]]
  BY <1>7
<1>13. d \in [0..N -> Type \cup {AnyType}]
  BY <1>11, <1>12, <1>1
<1> QED  BY <1>8, <1>9, <1>10, <1>13 DEF Climb, N

(* A climb over bases some of which are reset: the type it began at ends   *)
(* if the climb meets xs:anyType, or a type whose base is reset to it.     *)
LEMMA ClimbEnds ==
    ASSUME NEW b \in Base, NEW b2 \in Base, \A u \in Type : b2[u] \in {b[u], AnyType},
           NEW t \in Type, NEW c, Climb(b, t, c), NEW n \in 0..Cardinality(Type),
           c[n] # AnyType => b2[c[n]] = AnyType
    PROVE  Ends(Parents(b2), t)
<1> SUFFICES ASSUME NEW X \in SUBSET Type, Progressive(Parents(b2), X) PROVE t \in X
  BY DEF Ends, Parents
<1> DEFINE N == Cardinality(Type)
           S == {k \in Nat : k <= n => c[n - k] \in X \cup {AnyType}}
<1>0. N \in Nat
  BY ComponentsAssumption, FS_CardinalityType
<1>1. ASSUME NEW u \in Type, b2[u] \in X \cup {AnyType} PROVE u \in X
  BY <1>1 DEF Progressive, Parents
<1>2. \A k \in 0..N : c[k] \in Type \cup {AnyType}
  BY DEF Climb
<1>3. \A k \in 1..N : c[k] = IF c[k - 1] = AnyType THEN AnyType ELSE b[c[k - 1]]
  BY DEF Climb
<1> HIDE DEF N
<1>4. 0 \in S
  <2>1. n - 0 = n /\ n \in 0..N
    BY <1>0 DEF N
  <2> QED  BY <2>1, <1>1, <1>2
<1>5. ASSUME NEW k \in Nat, k \in S PROVE k + 1 \in S
  <2> SUFFICES ASSUME k + 1 <= n, c[n - (k + 1)] # AnyType PROVE c[n - (k + 1)] \in X
    OBVIOUS
  <2> DEFINE m == n - (k + 1)
  <2>1. m \in 0..N /\ m + 1 \in 1..N /\ (m + 1) - 1 = m /\ n - k = m + 1 /\ k <= n
    BY <1>0 DEF N
  <2> HIDE DEF m
  <2>2. c[m + 1] \in X \cup {AnyType} /\ c[m] \in Type
    BY <1>2, <1>5, <2>1 DEF m
  <2>3. c[m + 1] = b[c[m]]
    BY <1>3, <2>1 DEF m
  <2> QED  BY <1>1, <2>2, <2>3 DEF m
<1> HIDE DEF S
<1>6. Nat \subseteq S
  BY <1>4, <1>5, InductionOnNat
<1>7. n \in Nat /\ n <= n /\ n - n = 0
  BY <1>0 DEF N
<1>8. c[0] \in X \cup {AnyType} /\ c[0] = t
  BY <1>6, <1>7 DEF S, Climb
<1> QED  BY <1>8, AnyTypeAssumption

(* More steps than types: one is met again.                                *)
LEMMA MetTwice ==
    ASSUME NEW c, \A n \in 0..Cardinality(Type) : c[n] \in Type
    PROVE  \E j \in 1..Cardinality(Type) :
             /\ \E i \in 0..(j - 1) : c[i] = c[j]
             /\ \A i, k \in 0..(j - 1) : i # k => c[i] # c[k]
<1> DEFINE N == Cardinality(Type)
           f == [n \in 0..N |-> c[n]]
           T == {j \in 1..N : \E i \in 0..(j - 1) : c[i] = c[j]}
<1>1. N \in Nat /\ IsFiniteSet(Type)
  BY ComponentsAssumption, FS_CardinalityType
<1>2. f \in [0..N -> Type]
  OBVIOUS
<1>3. IsFiniteSet(0..N) /\ Cardinality(0..N) = N + 1
  <2> HIDE DEF N
  <2> QED  BY <1>1, FS_Interval
<1>4. PICK x \in 0..N, y \in 0..N : x # y /\ f[x] = f[y]
  <2>1. Cardinality(Type) < Cardinality(0..N)
    BY <1>1, <1>3
  <2> HIDE DEF N, f
  <2> QED  BY <1>1, <1>2, <1>3, <2>1, FS_PigeonHole
<1>5. c[x] = c[y]
  BY <1>4
<1> HIDE DEF N, f
<1>6. x \in T \/ y \in T
  BY <1>1, <1>4, <1>5
<1>7. PICK j \in T : \A k \in T : j <= k
  <2>1. T \in SUBSET Nat /\ T # {}
    BY <1>6, <1>1
  <2> HIDE DEF T
  <2> QED  BY <2>1, LeastNumber
<1>8. ASSUME NEW i \in 0..(j - 1), NEW k \in 0..(j - 1), i < k PROVE c[i] # c[k]
  <2>1. k \in 1..N /\ i \in 0..(k - 1) /\ k < j
    BY <1>1, <1>8
  <2> QED  BY <2>1, <1>1, <1>7
<1>9. \A i, k \in 0..(j - 1) : i # k => i < k \/ k < i
  BY <1>1
<1> QED  BY <1>7, <1>8, <1>9 DEF N

LEMMA MetAgainOrEnds ==
    ASSUME NEW b \in Base, NEW t \in Type, MetAgain(b, t) = {}
    PROVE  Ends(Parents(b), t)
<1> DEFINE c == Chain(b, t)
           N == Cardinality(Type)
<1>1. Climb(b, t, c)
  BY ChainClimbs
<1> HIDE DEF c
<1>2. ASSUME \A n \in 0..N : c[n] \in Type PROVE FALSE
  <2>1. PICK j \in 1..N : /\ \E i \in 0..(j - 1) : c[i] = c[j]
                          /\ \A i, k \in 0..(j - 1) : i # k => c[i] # c[k]
    BY <1>2, MetTwice
  <2>2. j \in 0..N
    BY ComponentsAssumption, FS_CardinalityType
  <2>3. c[j] \in MetAgain(b, t)
    BY <1>2, <2>1, <2>2 DEF MetAgain, c
  <2> QED  BY <2>3
<1>3. PICK n \in 0..N : c[n] \notin Type
  BY <1>2
<1>4. c[n] = AnyType
  BY <1>1, <1>3 DEF Climb
<1> QED  BY <1>1, <1>4, ClimbEnds

LEMMA ResetEnds ==
    ASSUME NEW b \in Base, NEW t \in Type, NEW u \in MetAgain(b, t)
    PROVE  Ends(Parents([b EXCEPT ![u] = AnyType]), t)
<1> DEFINE b2 == [b EXCEPT ![u] = AnyType]
<1>1. u \in Type /\ \E n \in 1..Cardinality(Type) : Chain(b, t)[n] = u
  BY DEF MetAgain
<1>2. PICK n \in 0..Cardinality(Type) : Chain(b, t)[n] = u
  BY <1>1, ComponentsAssumption, FS_CardinalityType
<1>3. b2 \in Base /\ b2[u] = AnyType /\ \A v \in Type : b2[v] \in {b[v], AnyType}
  BY <1>1 DEF Base
<1> HIDE DEF b2
<1>4. Climb(b, t, Chain(b, t))
  BY ChainClimbs
<1>5. Ends(Parents(b2), t)
  BY <1>2, <1>3, <1>4, ClimbEnds
<1> QED  BY <1>5 DEF b2

(* Resetting a base to xs:anyType keeps what ends.                         *)
LEMMA ResetKeeps ==
    ASSUME NEW b \in Base, NEW u \in Type, NEW t \in Type, Ends(Parents(b), t)
    PROVE  Ends(Parents([b EXCEPT ![u] = AnyType]), t)
<1> DEFINE b2 == [b EXCEPT ![u] = AnyType]
<1>1. \A v \in Type : Parents(b2)[v] \subseteq Parents(b)[v]
  BY DEF Parents, Base
<1>2. DOMAIN Parents(b) = Type /\ DOMAIN Parents(b2) = Type
  BY DEF Parents
<1> QED  BY <1>1, <1>2, EndsWithFewer

(* What ends climbs to xs:anyType.                                         *)
LEMMA EndsClimb ==
    ASSUME NEW b \in Base, NEW t \in Type, Ends(Parents(b), t)
    PROVE  Chain(b, t)[Cardinality(Type)] = AnyType
<1> DEFINE c == Chain(b, t)
           N == Cardinality(Type)
<1>0. N \in Nat
  BY ComponentsAssumption, FS_CardinalityType
<1>1. Climb(b, t, c)
  BY ChainClimbs
<1> HIDE DEF c
<1> SUFFICES ASSUME c[N] # AnyType PROVE FALSE
  BY DEF c
<1>2. \A n \in 0..N : c[n] \in Type
  <2> DEFINE S == {k \in Nat : k <= N => c[N - k] \in Type}
  <2> HIDE DEF N
  <2>a. \A n \in 1..N : c[n] = IF c[n - 1] = AnyType THEN AnyType ELSE b[c[n - 1]]
    BY <1>1 DEF Climb, N
  <2>b. \A n \in 0..N : c[n] \in Type \cup {AnyType}
    BY <1>1 DEF Climb, N
  <2>1. 0 \in S
    BY <1>0, <2>b
  <2>2. ASSUME NEW k \in Nat, k \in S PROVE k + 1 \in S
    <3> SUFFICES ASSUME k + 1 <= N PROVE c[N - (k + 1)] \in Type
      OBVIOUS
    <3> DEFINE m == N - (k + 1)
    <3>1. m \in 0..N /\ m + 1 \in 1..N /\ N - k = m + 1 /\ (m + 1) - 1 = m /\ k <= N
      BY <1>0
    <3> HIDE DEF m
    <3>2. c[m + 1] \in Type
      BY <3>1, <2>2
    <3>3. c[m] # AnyType
      BY <3>1, <3>2, <2>a, AnyTypeAssumption
    <3> QED  BY <3>1, <3>3, <2>b DEF m
  <2>3. Nat \subseteq S
    BY <2>1, <2>2, InductionOnNat
  <2>4. ASSUME NEW n \in 0..N PROVE c[n] \in Type
    <3>1. N - n \in Nat /\ N - n <= N /\ N - (N - n) = n
      BY <1>0
    <3> QED  BY <3>1, <2>3
  <2> QED  BY <2>4
<1>3. PICK j \in 1..N : \E i \in 0..(j - 1) : c[i] = c[j]
  BY <1>2, MetTwice
<1> DEFINE C == {c[i] : i \in 0..(j - 1)}
           X == Type \ C
<1>4. ASSUME NEW u \in C PROVE u \in Type /\ b[u] \in C
  <2>1. PICK i \in 0..(j - 1) : u = c[i]
    OBVIOUS
  <2>2. i \in 0..N /\ i + 1 \in 1..N /\ (i + 1) - 1 = i
    BY <1>0, <2>1
  <2>3. u \in Type /\ b[u] = c[i + 1]
    BY <1>1, <1>2, <2>1, <2>2, AnyTypeAssumption DEF Climb
  <2>4. i + 1 = j \/ i + 1 \in 0..(j - 1)
    BY <1>0, <2>1
  <2> QED  BY <1>3, <2>3, <2>4
<1>5. t \in C
  <2>1. 0 \in 0..(j - 1) /\ c[0] = t
    BY <1>0, <1>1 DEF Climb
  <2> QED  BY <2>1
<1> HIDE DEF C, N
<1>6. Progressive(Parents(b), X)
  <2> SUFFICES ASSUME NEW u \in Type, {b[u]} \ {AnyType} \subseteq X, u \in C PROVE FALSE
    BY DEF Progressive, Parents
  <2>1. b[u] \in C /\ b[u] \in Type
    BY <1>4
  <2> QED  BY <2>1, AnyTypeAssumption
<1>7. X \in SUBSET DOMAIN Parents(b)
  BY DEF Parents
<1> QED  BY <1>5, <1>6, <1>7 DEF Ends

-----------------------------------------------------------------------------
(* The passes over the schemas: what belongs to a schema whose check is    *)
(* over ends, whatever is reset later.                                     *)
Ahead == UNION {Schemas[j] : j \in (schema + 1)..Len(Schemas)}

PassOK ==
    /\ declared \in Definitions
    /\ schema \in 1..Len(Schemas)
    /\ phase \in {"simple", "types", "groups", "substitution", "done"}
    /\ phase = "simple" => schema = 1

PendingTypes ==
    CASE phase = "simple" -> Type
      [] phase = "types"  -> todo \cup Ahead
      [] phase = "groups" -> Ahead
      [] OTHER            -> {}

TypesOK ==
    /\ base \in Base
    /\ \A t \in Type : t \notin PendingTypes => Ends(Parents(base), t)

LEMMA InitTypes == Init => PassOK /\ TypesOK
  BY SchemasAssumption, DefinitionsAssumption DEF Init, PassOK, TypesOK, PendingTypes, Base

LEMMA NextPass == PassOK /\ [Next]_vars => PassOK'
<1> SUFFICES ASSUME PassOK, [Next]_vars PROVE PassOK'
  OBVIOUS
<1> USE DEF PassOK
<1>1. CASE ShellsBuilt
  BY <1>1 DEF ShellsBuilt
<1>2. CASE TypesChecked
  BY <1>2 DEF TypesChecked
<1>3. CASE GroupsChecked
  BY <1>3 DEF GroupsChecked
<1>4. CASE Finish
  BY <1>4 DEF Finish
<1>5. CASE UNCHANGED <<declared, schema, phase>>
  BY <1>5
<1> QED
  BY <1>1, <1>2, <1>3, <1>4, <1>5
     DEF Next, BuildSimple, ResolvePart, CompleteSimple, CheckType, VisitGroup, FollowReference,
         LeaveGroup, CheckElement, vars

(* The schemas ahead, as the pass moves on.                                *)
LEMMA AheadMoves ==
    ASSUME PassOK
    PROVE  /\ schema = 1 => Type \cup Group \subseteq Schemas[1] \cup Ahead
           /\ schema' = schema => Ahead' = Ahead
           /\ schema < Len(Schemas) /\ schema' = schema + 1 => Ahead = Schemas[schema + 1] \cup Ahead'
           /\ schema = Len(Schemas) => Ahead = {}
<1>1. Len(Schemas) \in Nat /\ schema \in Nat
  BY SchemasAssumption DEF PassOK
<1>2. \A j \in 1..Len(Schemas) : j = schema \/ j < schema \/ j \in (schema + 1)..Len(Schemas)
  BY <1>1
<1>3. schema < Len(Schemas) => (schema + 1)..Len(Schemas) = {schema + 1} \cup ((schema + 1) + 1)..Len(Schemas)
  BY <1>1
<1>4. schema = 1 => Type \cup Group \subseteq Schemas[1] \cup Ahead
  BY <1>1, <1>2, SchemasAssumption DEF Ahead
<1>5. schema = Len(Schemas) => Ahead = {}
  BY <1>1 DEF Ahead
<1> QED  BY <1>3, <1>4, <1>5 DEF Ahead

LEMMA NextTypes == PassOK /\ TypesOK /\ [Next]_vars => TypesOK'
<1> SUFFICES ASSUME PassOK, TypesOK, [Next]_vars PROVE TypesOK'
  OBVIOUS
<1>1. CASE UNCHANGED base /\ \A t \in Type : t \notin PendingTypes' => t \notin PendingTypes
  BY <1>1 DEF TypesOK
<1>2. CASE \E t \in Type : CheckType(t)
  <2>1. PICK t \in Type : CheckType(t)
    BY <1>2
  <2>2. phase = "types" /\ phase' = phase /\ schema' = schema /\ todo' = todo \ {t}
    BY <2>1 DEF CheckType
  <2>3. PendingTypes = todo \cup Ahead /\ PendingTypes' = (todo \ {t}) \cup Ahead
    BY <2>2, AheadMoves DEF PendingTypes
  <2>4. CASE MetAgain(base, t) = {}
    <3>1. base' = base
      BY <2>1, <2>4 DEF CheckType
    <3>2. Ends(Parents(base), t)
      BY <2>4, MetAgainOrEnds DEF TypesOK
    <3> QED  BY <3>1, <3>2, <2>3 DEF TypesOK
  <2>5. CASE MetAgain(base, t) # {}
    <3>1. PICK u \in MetAgain(base, t) : base' = [base EXCEPT ![u] = AnyType]
      BY <2>1, <2>5 DEF CheckType, Break, ResetBase
    <3>2. u \in Type /\ base \in Base
      BY DEF MetAgain, TypesOK
    <3>3. base' \in Base
      BY <3>1, <3>2 DEF Base
    <3>4. Ends(Parents(base'), t)
      BY <3>1, <3>2, ResetEnds
    <3>5. \A x \in Type : Ends(Parents(base), x) => Ends(Parents(base'), x)
      BY <3>1, <3>2, ResetKeeps
    <3> QED  BY <3>3, <3>4, <3>5, <2>3 DEF TypesOK
  <2> QED  BY <2>4, <2>5
<1>3. CASE ShellsBuilt
  <2>1. phase' = "types" /\ todo' = Schemas[1] \cap Type /\ schema' = schema /\ schema = 1 /\ base' = base
    BY <1>3 DEF ShellsBuilt, PassOK
  <2>2. PendingTypes' = todo' \cup Ahead /\ Type \subseteq Schemas[1] \cup Ahead
    BY <2>1, AheadMoves DEF PendingTypes
  <2>3. \A t \in Type : t \in PendingTypes'
    BY <2>1, <2>2
  <2> QED  BY <1>1, <2>1, <2>3
<1>4. CASE TypesChecked
  <2>1. phase = "types" /\ phase' = "groups" /\ todo = {} /\ schema' = schema /\ base' = base
    BY <1>4 DEF TypesChecked
  <2> QED  BY <1>1, <2>1, AheadMoves DEF PendingTypes
<1>5. CASE GroupsChecked
  <2>1. phase = "groups" /\ base' = base
    BY <1>5 DEF GroupsChecked
  <2>2. CASE schema < Len(Schemas)
    <3>1. phase' = "types" /\ schema' = schema + 1 /\ todo' = Schemas[schema + 1] \cap Type
      BY <1>5, <2>2 DEF GroupsChecked
    <3> QED  BY <1>1, <2>1, <2>2, <3>1, AheadMoves DEF PendingTypes
  <2>3. CASE ~(schema < Len(Schemas))
    <3>1. phase' = "substitution" /\ schema = Len(Schemas)
      BY <1>5, <2>3, SchemasAssumption DEF GroupsChecked, PassOK
    <3> QED  BY <1>1, <2>1, <3>1, AheadMoves DEF PendingTypes
  <2> QED  BY <2>2, <2>3
<1>6. CASE Finish
  BY <1>1, <1>6 DEF Finish, PendingTypes
<1>7. CASE UNCHANGED <<base, schema, phase>> /\ (phase = "types" => UNCHANGED todo)
  BY <1>1, <1>7, AheadMoves DEF PendingTypes
<1> QED
  BY <1>2, <1>3, <1>4, <1>5, <1>6, <1>7
     DEF Next, BuildSimple, ResolvePart, CompleteSimple, VisitGroup, FollowReference,
         LeaveGroup, CheckElement, vars

LEMMA TypesEnd == TypesOK /\ phase = "done" => \A t \in Type : Chain(base, t)[Cardinality(Type)] = AnyType
  BY EndsClimb DEF TypesOK, PendingTypes

-----------------------------------------------------------------------------
(* Simple types: the parts of one that is built are built before it.  One  *)
(* that is not built may still get any part.                               *)
Part == Simple \cup {AnySimpleType, Atomic}
Built == [variety : {"atomic", "list", "union"}, base : Part, item : Part, members : SUBSET Part]

PartsOf(c) == {c.base, c.item} \cup c.members
SimpleParts(b) == [s \in Simple |-> IF s \in DOMAIN b THEN PartsOf(b[s]) \cap Simple ELSE Simple]

Usable(b, p) == p \in Part /\ (p \in Simple => p \in DOMAIN b)

BuiltOK ==
    /\ built \in [DOMAIN built -> Built] /\ DOMAIN built \subseteq Simple
    /\ \A s \in DOMAIN built : Ends(SimpleParts(built), s) /\ \A p \in PartsOf(built[s]) : Usable(built, p)

(* The types being built: none twice, none built, their parts built.       *)
Frames(stk, b) ==
    /\ stk \in Seq([type : Simple, parts : Seq(Part)])
    /\ \A i \in 1..Len(stk) : stk[i].type \notin DOMAIN b /\ \A k \in DOMAIN stk[i].parts : Usable(b, stk[i].parts[k])
    /\ \A i, j \in 1..Len(stk) : i # j => stk[i].type # stk[j].type

BuildingOK == Frames(building, built) /\ (phase # "simple" => building = << >>)

SimpleDone ==
    /\ phase = "simple" => Simple \ todo \subseteq DOMAIN built \cup {building[i].type : i \in 1..Len(building)}
    /\ phase # "simple" => DOMAIN built = Simple

SimpleOK == BuiltOK /\ BuildingOK /\ SimpleDone

LEMMA InitSimple == Init => SimpleOK
<1> SUFFICES ASSUME Init PROVE SimpleOK
  OBVIOUS
<1>1. built = << >> /\ building = << >> /\ phase = "simple" /\ todo = Simple
  BY DEF Init
<1>2. BuiltOK
  BY <1>1 DEF BuiltOK
<1>3. BuildingOK
  BY <1>1 DEF BuildingOK, Frames
<1> QED  BY <1>1, <1>2, <1>3 DEF SimpleOK, SimpleDone

(* What a type is made of can be used whenever its parts can.              *)
LEMMA ComponentUsable ==
    ASSUME BuiltOK, NEW p, Usable(built, p)
    PROVE  Component(p) \in Built /\ \A q \in PartsOf(Component(p)) : Usable(built, q)
<1>1. CASE p \in DOMAIN built
  BY <1>1 DEF BuiltOK, Component
<1>2. CASE p \notin DOMAIN built
  BY <1>2, AnyTypeAssumption DEF Component, Built, PartsOf, Usable, Part
<1> QED  BY <1>1, <1>2

LEMMA ComponentsUsable ==
    ASSUME BuiltOK, NEW by \in {"restriction", "list", "union"}, NEW parts \in Seq(Part),
           by # "union" => Len(parts) > 0, \A k \in DOMAIN parts : Usable(built, parts[k])
    PROVE  Components(by, parts) \in Built /\ \A q \in PartsOf(Components(by, parts)) : Usable(built, q)
<1>0. Usable(built, AnySimpleType) /\ AnySimpleType \in Part
  BY AnyTypeAssumption DEF Usable, Part
<1>1. by # "union" => 1 \in DOMAIN parts /\ Usable(built, parts[1]) /\ parts[1] \in Part
  BY DEF Usable
<1>2. CASE by = "restriction"
  <2> DEFINE c == Component(parts[1])
             d == [c EXCEPT !.base = parts[1]]
  <2>1. c \in Built /\ \A q \in PartsOf(c) : Usable(built, q)
    BY <1>1, <1>2, ComponentUsable
  <2>2. Components(by, parts) = d
    BY <1>2 DEF Components
  <2> HIDE DEF c
  <2>3. d \in Built /\ d.base = parts[1] /\ d.item = c.item /\ d.members = c.members
    BY <1>1, <1>2, <2>1 DEF Built
  <2> HIDE DEF d
  <2>4. \A q \in PartsOf(d) : q = parts[1] \/ q \in PartsOf(c)
    BY <2>3 DEF PartsOf
  <2> QED  BY <1>1, <1>2, <2>1, <2>2, <2>3, <2>4
<1>3. CASE by = "list"
  BY <1>0, <1>1, <1>3 DEF Components, Built, PartsOf
<1>4. CASE by = "union"
  <2> DEFINE ms == {parts[k] : k \in DOMAIN parts}
             d == [variety |-> "union", base |-> AnySimpleType, item |-> AnySimpleType, members |-> ms]
  <2>1. Components(by, parts) = d
    BY <1>4 DEF Components
  <2>2. ms \subseteq Part /\ \A q \in ms : Usable(built, q)
    BY DEF Usable
  <2> HIDE DEF ms
  <2>3. d \in Built /\ PartsOf(d) = {AnySimpleType} \cup ms
    BY <1>0, <2>2 DEF Built, PartsOf
  <2> HIDE DEF d
  <2> QED  BY <1>0, <2>1, <2>2, <2>3
<1> QED  BY <1>2, <1>3, <1>4

(* One more type is built.                                                 *)
LEMMA BuiltGrows ==
    ASSUME BuiltOK, NEW s \in Simple \ DOMAIN built, NEW c \in Built, \A q \in PartsOf(c) : Usable(built, q),
           built' = [u \in DOMAIN built \cup {s} |-> IF u = s THEN c ELSE built[u]]
    PROVE  BuiltOK' /\ DOMAIN built' = DOMAIN built \cup {s} /\ \A p : Usable(built, p) => Usable(built', p)
<1>1. /\ DOMAIN built' = DOMAIN built \cup {s} /\ built'[s] = c
      /\ \A u \in DOMAIN built : built'[u] = built[u]
  OBVIOUS
<1>2. built' \in [DOMAIN built' -> Built] /\ DOMAIN built' \subseteq Simple
  BY DEF BuiltOK
<1>3. \A p : Usable(built, p) => Usable(built', p)
  BY <1>1 DEF Usable
<1>4. /\ DOMAIN SimpleParts(built) = Simple /\ DOMAIN SimpleParts(built') = Simple
      /\ \A v \in Simple : SimpleParts(built')[v] \subseteq SimpleParts(built)[v]
      /\ SimpleParts(built')[s] = PartsOf(c) \cap Simple
  BY <1>1 DEF SimpleParts
<1>5. ASSUME NEW u \in DOMAIN built PROVE Ends(SimpleParts(built'), u)
  BY <1>4, EndsWithFewer DEF BuiltOK
<1>6. Ends(SimpleParts(built'), s)
  BY <1>4, <1>5, EndsByParts DEF Usable
<1>7. \A u \in DOMAIN built' : Ends(SimpleParts(built'), u) /\ \A p \in PartsOf(built'[u]) : Usable(built', p)
  BY <1>1, <1>3, <1>5, <1>6 DEF BuiltOK
<1> QED  BY <1>1, <1>2, <1>3, <1>7 DEF BuiltOK

(* The newest frame gets a part.                                           *)
LEMMA FramesGetPart ==
    ASSUME NEW b, NEW stk, Frames(stk, b), stk # << >>, NEW p, Usable(b, p)
    PROVE  /\ Frames(WithPart(stk, p), b)
           /\ Len(WithPart(stk, p)) = Len(stk)
           /\ \A i \in 1..Len(stk) : WithPart(stk, p)[i].type = stk[i].type
<1> DEFINE n == Len(stk)
           f == [stk[n] EXCEPT !.parts = Append(@, p)]
           new == [stk EXCEPT ![n] = f]
<1>1. stk \in Seq([type : Simple, parts : Seq(Part)]) /\ n \in 1..n /\ n \in Nat
  BY DEF Frames
<1>2. stk[n] \in [type : Simple, parts : Seq(Part)]
  BY ONLY <1>1, ElementOfSeq
<1>3. p \in Part
  BY DEF Usable
<1>4. f \in [type : Simple, parts : Seq(Part)] /\ f.type = stk[n].type /\ f.parts = Append(stk[n].parts, p)
  BY <1>2, <1>3
<1>5. WithPart(stk, p) = new
  BY DEF WithPart
<1> HIDE DEF f
<1>6. /\ new \in Seq([type : Simple, parts : Seq(Part)]) /\ Len(new) = n /\ new[n] = f
      /\ \A i \in 1..n : i # n => new[i] = stk[i]
  BY <1>1, <1>4
<1>7. \A i \in 1..n : new[i].type = stk[i].type
  BY <1>4, <1>6
<1>8. ASSUME NEW k \in DOMAIN f.parts PROVE Usable(b, f.parts[k])
  <2>1. stk[n].parts \in Seq(Part)
    BY <1>2
  <2>2. (k \in DOMAIN stk[n].parts /\ f.parts[k] = stk[n].parts[k]) \/ f.parts[k] = p
    BY <1>4, <2>1
  <2> QED  BY <1>1, <2>2 DEF Frames
<1> HIDE DEF new
<1>9. \A i \in 1..n : \A k \in DOMAIN new[i].parts : Usable(b, new[i].parts[k])
  BY <1>6, <1>8 DEF Frames
<1> QED  BY <1>1, <1>5, <1>6, <1>7, <1>9 DEF Frames

LEMMA FramesEnter ==
    ASSUME NEW b, NEW stk, Frames(stk, b), NEW s \in Simple, s \notin DOMAIN b,
           \A i \in 1..Len(stk) : stk[i].type # s
    PROVE  Frames(Append(stk, [type |-> s, parts |-> << >>]), b)
<1> DEFINE f == [type |-> s, parts |-> << >>]
           new == Append(stk, f)
<1>1. f \in [type : Simple, parts : Seq(Part)] /\ f.type = s /\ DOMAIN f.parts = {}
  OBVIOUS
<1>2. stk \in Seq([type : Simple, parts : Seq(Part)]) /\ Len(stk) \in Nat
  BY DEF Frames
<1> HIDE DEF f
<1>3. /\ new \in Seq([type : Simple, parts : Seq(Part)]) /\ Len(new) = Len(stk) + 1
      /\ new[Len(stk) + 1] = f /\ \A i \in 1..Len(stk) : new[i] = stk[i]
  BY <1>1, <1>2
<1>4. \A i \in 1..Len(new) : i \in 1..Len(stk) \/ i = Len(stk) + 1
  BY <1>2, <1>3
<1> HIDE DEF new
<1> QED  BY <1>1, <1>3, <1>4 DEF Frames, new, f

(* The newest frame is left and its type built.                            *)
LEMMA FramesLeave ==
    ASSUME NEW b, NEW stk, Frames(stk, b), stk # << >>, NEW b2,
           DOMAIN b2 = DOMAIN b \cup {stk[Len(stk)].type}
    PROVE  LET rest == SubSeq(stk, 1, Len(stk) - 1)
           IN  /\ Frames(rest, b2)
               /\ Len(rest) = Len(stk) - 1
               /\ \A i \in 1..Len(rest) : rest[i] = stk[i]
<1> DEFINE rest == SubSeq(stk, 1, Len(stk) - 1)
<1>1. stk \in Seq([type : Simple, parts : Seq(Part)]) /\ Len(stk) \in Nat /\ Len(stk) > 0
  BY DEF Frames
<1>2. /\ rest \in Seq([type : Simple, parts : Seq(Part)]) /\ Len(rest) = Len(stk) - 1
      /\ \A i \in 1..Len(rest) : rest[i] = stk[i]
  BY ONLY <1>1, stk # << >>, Popped
<1>3. \A i \in 1..Len(rest) : i \in 1..Len(stk) /\ i # Len(stk) /\ Len(stk) \in 1..Len(stk)
  BY <1>1, <1>2
<1>4. \A p : Usable(b, p) => Usable(b2, p)
  BY DEF Usable
<1> HIDE DEF rest
<1> QED  BY <1>2, <1>3, <1>4 DEF Frames, rest

LEMMA BuildingTyped ==
    ASSUME NEW b, NEW stk, Frames(stk, b), NEW i \in 1..Len(stk)
    PROVE  stk[i].type \in Simple \ DOMAIN b
<1>1. stk[i] \in [type : Simple, parts : Seq(Part)]
  BY ElementOfSeq DEF Frames
<1> QED  BY <1>1 DEF Frames

LEMMA NewestFrame ==
    ASSUME PassOK, SimpleOK, building # << >>
    PROVE  /\ Len(building) \in Nat /\ Len(building) \in 1..Len(building)
           /\ Frame \in [type : Simple, parts : Seq(Part)]
           /\ Frame.type \in Simple \ DOMAIN built
           /\ declared.simple[Frame.type].by \in {"restriction", "list", "union"}
           /\ Sources \in Seq(Part)
           /\ declared.simple[Frame.type].by # "union" => Len(Sources) > 0
           /\ \A k \in DOMAIN Frame.parts : Usable(built, Frame.parts[k])
<1>1. building \in Seq([type : Simple, parts : Seq(Part)]) /\ Frames(building, built)
  BY DEF SimpleOK, BuildingOK, Frames
<1>2. Len(building) \in Nat /\ Len(building) \in 1..Len(building)
  BY <1>1
<1>3. Frame \in [type : Simple, parts : Seq(Part)]
  BY <1>1, <1>2, ElementOfSeq DEF Frame
<1>4. Frame.type \notin DOMAIN built /\ \A k \in DOMAIN Frame.parts : Usable(built, Frame.parts[k])
  BY <1>1, <1>2 DEF Frames, Frame
<1>5. declared.simple[Frame.type] \in Derived
  BY <1>3, DefinitionsAssumption DEF PassOK
<1>6. /\ declared.simple[Frame.type].by \in {"restriction", "list", "union"}
      /\ Sources \in Seq(Part)
  BY <1>5 DEF Derived, Sources, Part
<1>7. declared.simple[Frame.type].by # "union" => Len(Sources) = 1
  BY <1>3, <1>6, DefinitionsAssumption DEF PassOK, Sources
<1>8. declared.simple[Frame.type].by # "union" => Len(Sources) > 0
  BY <1>7
<1> QED  BY <1>2, <1>3, <1>4, <1>6, <1>8

BuildingTypes == {building[i].type : i \in 1..Len(building)}

LEMMA ResolveSimple ==
    ASSUME PassOK, SimpleOK, ResolvePart
    PROVE  SimpleOK'
<1> DEFINE s == Sources[Len(Frame.parts) + 1]
<1>1. building # << >> /\ Len(Frame.parts) < Len(Sources) /\ UNCHANGED <<built, phase, todo>>
  BY DEF ResolvePart
<1>2. s \in Part
  <2>1. Frame.parts \in Seq(Part) /\ Sources \in Seq(Part)
    BY <1>1, NewestFrame
  <2>2. Len(Frame.parts) + 1 \in 1..Len(Sources)
    BY <1>1, <2>1
  <2> QED  BY <2>1, <2>2, ElementOfSeq
<1>3. Frames(building, built)
  BY DEF SimpleOK, BuildingOK
<1>4. phase = "simple"
  BY <1>1 DEF SimpleOK, BuildingOK
<1>5. ASSUME NEW p, Usable(built, p), building' = WithPart(building, p) PROVE SimpleOK'
  <2>1. /\ Frames(building', built) /\ Len(building') = Len(building)
        /\ \A i \in 1..Len(building) : building'[i].type = building[i].type
    BY <1>1, <1>3, <1>5, FramesGetPart
  <2>2. BuildingOK' /\ BuiltOK'
    BY <1>1, <1>4, <2>1 DEF SimpleOK, BuildingOK, BuiltOK, Frames, Usable
  <2>3. BuildingTypes' = BuildingTypes
    BY <2>1 DEF BuildingTypes
  <2> QED  BY <1>1, <1>4, <2>2, <2>3 DEF SimpleOK, SimpleDone, BuildingTypes
<1>6. CASE Ready(s)
  <2>1. ~IsBuilding(s)
    <3>1. \A i \in 1..Len(building) : building[i].type \in Simple \ DOMAIN built
      BY <1>3, BuildingTyped
    <3>2. DOMAIN building = 1..Len(building)
      BY <1>3 DEF Frames
    <3> QED  BY <3>1, <3>2, <1>6 DEF Ready, IsBuilding
  <2>2. building' = WithPart(building, s)
    BY <1>6, <2>1 DEF ResolvePart
  <2> QED  BY <1>2, <1>5, <1>6, <2>2 DEF Ready, Usable
<1>7. CASE ~Ready(s) /\ IsBuilding(s)
  <2>1. building' = WithPart(building, AnySimpleType)
    BY <1>7 DEF ResolvePart, StandIn
  <2>2. Usable(built, AnySimpleType)
    BY AnyTypeAssumption DEF Usable, Part
  <2> QED  BY <1>5, <2>1, <2>2
<1>8. CASE ~Ready(s) /\ ~IsBuilding(s)
  <2>1. building' = Append(building, [type |-> s, parts |-> << >>])
    BY <1>8 DEF ResolvePart, Enter
  <2>2. s \in Simple \ DOMAIN built /\ \A i \in 1..Len(building) : building[i].type # s
    BY <1>2, <1>3, <1>8 DEF Ready, IsBuilding, Frames
  <2>3. Frames(building', built)
    BY <1>3, <2>1, <2>2, FramesEnter
  <2>4. \A i \in 1..Len(building) : i \in 1..Len(building') /\ building'[i] = building[i]
    BY <1>3, <2>1 DEF Frames
  <2>5. BuildingTypes \subseteq BuildingTypes'
    BY <2>4 DEF BuildingTypes
  <2>6. BuildingOK' /\ BuiltOK'
    BY <1>1, <1>4, <2>3 DEF SimpleOK, BuildingOK, BuiltOK, Frames, Usable
  <2> QED  BY <1>1, <1>4, <2>5, <2>6 DEF SimpleOK, SimpleDone, BuildingTypes
<1> QED  BY <1>6, <1>7, <1>8

LEMMA CompleteSimpleOK ==
    ASSUME PassOK, SimpleOK, CompleteSimple
    PROVE  SimpleOK'
<1> DEFINE s == Frame.type
           c == Components(declared.simple[s].by, Frame.parts)
           rest == SubSeq(building, 1, Len(building) - 1)
<1>1. /\ building # << >> /\ Len(Frame.parts) = Len(Sources) /\ UNCHANGED <<phase, todo>>
      /\ phase = "simple"
      /\ built' = [u \in DOMAIN built \cup {s} |-> IF u = s THEN c ELSE built[u]]
      /\ building' = IF rest = << >> THEN rest ELSE WithPart(rest, s)
  BY DEF CompleteSimple
<1>2. /\ s \in Simple \ DOMAIN built /\ Frame.parts \in Seq(Part)
      /\ declared.simple[s].by \in {"restriction", "list", "union"}
      /\ declared.simple[s].by # "union" => Len(Frame.parts) > 0
      /\ \A k \in DOMAIN Frame.parts : Usable(built, Frame.parts[k])
      /\ Len(building) \in 1..Len(building)
  BY <1>1, NewestFrame
<1>3. BuiltOK /\ Frames(building, built)
  BY DEF SimpleOK, BuildingOK
<1>4. c \in Built /\ \A q \in PartsOf(c) : Usable(built, q)
  BY <1>2, <1>3, ComponentsUsable
<1> HIDE DEF c
<1>5. BuiltOK' /\ DOMAIN built' = DOMAIN built \cup {s}
  BY <1>1, <1>2, <1>3, <1>4, BuiltGrows
<1>6. s = building[Len(building)].type
  BY DEF Frame
<1>7. /\ Frames(rest, built') /\ Len(rest) = Len(building) - 1
      /\ \A i \in 1..Len(rest) : rest[i] = building[i]
  <2>1. DOMAIN built' = DOMAIN built \cup {building[Len(building)].type}
    BY <1>5, <1>6
  <2>2. Frames(building, built) /\ building # << >>
    BY <1>1, <1>3
  <2> QED  BY ONLY <2>1, <2>2, FramesLeave
<1>8. Usable(built', s)
  BY <1>2, <1>5 DEF Usable, Part
<1>9. /\ Frames(building', built') /\ Len(building') = Len(rest)
      /\ \A i \in 1..Len(rest) : building'[i].type = rest[i].type
  <2> HIDE DEF rest
  <2>1. CASE rest = << >>
    BY <1>1, <1>7, <2>1
  <2>2. CASE rest # << >>
    BY <1>1, <1>7, <1>8, <2>2, FramesGetPart
  <2> QED  BY <2>1, <2>2
<1> HIDE DEF rest, s
<1>10. BuildingTypes \subseteq BuildingTypes' \cup {s}
  <2> SUFFICES ASSUME NEW i \in 1..Len(building) PROVE building[i].type \in BuildingTypes' \cup {s}
    BY DEF BuildingTypes
  <2>1. i = Len(building) \/ i \in 1..Len(rest)
    BY <1>2, <1>7
  <2>2. i \in 1..Len(rest) => building[i].type \in BuildingTypes'
    BY <1>7, <1>9 DEF BuildingTypes
  <2> QED  BY <1>6, <2>1, <2>2
<1>11. BuildingOK'
  BY <1>1, <1>9 DEF BuildingOK, Frames, Usable
<1> QED  BY <1>1, <1>5, <1>10, <1>11 DEF SimpleOK, SimpleDone, BuildingTypes

LEMMA NextSimple == PassOK /\ SimpleOK /\ [Next]_vars => SimpleOK'
<1> SUFFICES ASSUME PassOK, SimpleOK, [Next]_vars PROVE SimpleOK'
  OBVIOUS
<1>0. BuiltOK /\ Frames(building, built)
  BY DEF SimpleOK, BuildingOK
<1>1. CASE \E s \in Simple : BuildSimple(s)
  <2>1. PICK s \in Simple : BuildSimple(s)
    BY <1>1
  <2>2. phase = "simple" /\ building = << >> /\ todo' = todo \ {s} /\ UNCHANGED <<built, phase>>
    BY <2>1 DEF BuildSimple
  <2>3. Simple \ todo \subseteq DOMAIN built
    BY <2>2 DEF SimpleOK, SimpleDone
  <2>4. CASE Ready(s)
    BY <1>0, <2>1, <2>2, <2>3, <2>4
       DEF BuildSimple, Ready, SimpleOK, BuildingOK, BuiltOK, Frames, Usable, SimpleDone
  <2>5. CASE ~Ready(s)
    <3>1. building' = Append(building, [type |-> s, parts |-> << >>]) /\ s \notin DOMAIN built
      BY <2>1, <2>5 DEF BuildSimple, Enter, Ready
    <3>2. \A i \in 1..Len(building) : building[i].type # s
      BY <2>2
    <3>3. Frames(building', built)
      BY <1>0, <3>1, <3>2, FramesEnter
    <3>4. building'[1].type = s /\ 1 \in 1..Len(building')
      BY <2>2, <3>1
    <3>5. BuildingOK' /\ BuiltOK'
      BY <1>0, <2>2, <3>3 DEF BuildingOK, BuiltOK, Frames, Usable
    <3> QED  BY <2>2, <2>3, <3>4, <3>5 DEF SimpleOK, SimpleDone
  <2> QED  BY <2>4, <2>5
<1>2. CASE ResolvePart
  BY <1>2, ResolveSimple
<1>3. CASE CompleteSimple
  BY <1>3, CompleteSimpleOK
<1>4. CASE ShellsBuilt
  <2>1. phase = "simple" /\ phase' = "types" /\ building = << >> /\ todo = {} /\ UNCHANGED <<built, building>>
    BY <1>4 DEF ShellsBuilt, simpleVars
  <2>2. BuildingOK' /\ BuiltOK'
    BY <1>0, <2>1 DEF BuildingOK, BuiltOK, Frames, Usable
  <2>3. Simple \subseteq DOMAIN built /\ DOMAIN built \subseteq Simple
    BY <2>1 DEF SimpleOK, SimpleDone, BuiltOK
  <2> QED  BY <2>1, <2>2, <2>3 DEF SimpleOK, SimpleDone
<1>5. CASE phase # "simple" /\ phase' # "simple" /\ UNCHANGED simpleVars
  BY <1>0, <1>5 DEF simpleVars, SimpleOK, SimpleDone, BuildingOK, BuiltOK, Frames, Usable
<1>6. CASE UNCHANGED vars
  BY <1>0, <1>6 DEF vars, simpleVars, SimpleOK, SimpleDone, BuildingOK, BuiltOK, Frames, Usable
<1> QED
  BY <1>1, <1>2, <1>3, <1>4, <1>5, <1>6
     DEF Next, CheckType, TypesChecked, VisitGroup, FollowReference, LeaveGroup, GroupsChecked,
         CheckElement, Finish

(* The parts found by PartsReach are below the type.                       *)
LEMMA ReachSpreads ==
    ASSUME NEW P, DOMAIN P = Simple, NEW s \in Simple
    PROVE  \E c : Spreads(P, P[s], Cardinality(Simple), c) /\ PartsReach(P, s) = c[Cardinality(Simple)]
<1> DEFINE N == Cardinality(Simple)
           Is(c) == c = [n \in 0..N |-> IF n = 0 THEN P[s]
                                        ELSE c[n - 1] \cup UNION {P[u] : u \in c[n - 1] \cap Simple}]
           d == CHOOSE c : Is(c)
<1>1. N \in Nat
  BY ComponentsAssumption, FS_CardinalityType
<1>2. PartsReach(P, s) = d[N]
  BY DEF PartsReach
<1> HIDE DEF N
<1>3. PICK c : Spreads(P, P[s], N, c) /\ c = [n \in 0..N |-> c[n]]
  BY <1>1, SpreadExists
<1>4. \A n \in 0..N : c[n] = IF n = 0 THEN P[s] ELSE c[n - 1] \cup UNION {P[u] : u \in c[n - 1] \cap Simple}
  BY <1>1, <1>3 DEF Spreads, Onward
<1>5. Is(c)
  BY <1>3, <1>4
<1>6. Is(d)
  BY <1>5
<1> HIDE DEF d
<1>7. Spreads(P, P[s], N, d)
  BY <1>1, <1>6 DEF Spreads, Onward
<1> QED  BY <1>2, <1>7 DEF N

LEMMA ReachIsBelow ==
    ASSUME NEW P, DOMAIN P = Simple, NEW s \in Simple, s \in PartsReach(P, s)
    PROVE  IsBelow([u \in Simple |-> P[u] \cap Simple], s, s)
<1> DEFINE Q == [u \in Simple |-> P[u] \cap Simple]
           N == Cardinality(Simple)
           W == UNION {P[u] : u \in Simple}
<1>1. N \in Nat
  BY ComponentsAssumption, FS_CardinalityType
<1>2. PICK c : Spreads(P, P[s], N, c) /\ s \in c[N]
  BY ReachSpreads
<1> SUFFICES ASSUME NEW K \in SUBSET Simple, Q[s] \subseteq K, ClosedUnder(Q, K) PROVE s \in K
  BY DEF IsBelow
<1> DEFINE L == K \cup (W \ Simple)
<1>3. P[s] \subseteq L
  OBVIOUS
<1>4. \A v \in L \cap DOMAIN P : P[v] \subseteq L
  BY DEF ClosedUnder
<1> HIDE DEF L, N
<1>5. \A n \in 0..N : c[n] \subseteq L
  BY <1>1, <1>2, <1>3, <1>4, SpreadWithin
<1> QED  BY <1>1, <1>2, <1>5 DEF L

LEMMA SimpleEnd ==
    SimpleOK /\ phase = "done" => DOMAIN built = Simple /\ \A s \in Simple : s \notin PartsReach(BuiltParts, s)
<1> SUFFICES ASSUME SimpleOK, phase = "done" PROVE DOMAIN built = Simple /\ \A s \in Simple : s \notin PartsReach(BuiltParts, s)
  OBVIOUS
<1>1. DOMAIN built = Simple
  BY DEF SimpleOK, SimpleDone
<1> SUFFICES ASSUME NEW s \in Simple, s \in PartsReach(BuiltParts, s) PROVE FALSE
  BY <1>1
<1> DEFINE P == SimpleParts(built)
<1>2. P = [u \in Simple |-> BuiltParts[u] \cap Simple] /\ DOMAIN BuiltParts = Simple
  BY <1>1 DEF SimpleParts, BuiltParts, PartsOf
<1>3. P \in [Simple -> SUBSET Simple]
  BY DEF SimpleParts
<1> HIDE DEF P
<1>4. IsBelow(P, s, s)
  BY <1>2, ReachIsBelow
<1>5. Ends(P, s)
  BY <1>1 DEF P, SimpleOK, BuiltOK
<1> QED  BY <1>3, <1>4, <1>5, EndsNotBelowItself

-----------------------------------------------------------------------------
(* BasesEnd: whatever cycles the documents have, in any number of schemas  *)
(* checked one after the other (checkTypeCycles of parser/buildschema.go), *)
(* and whatever simple type is asked for first (buildTypeDecl of           *)
(* parser/builder.go), no climb and no lookup of parts goes on for ever.   *)
THEOREM BasesAlwaysEnd == Spec => []BasesEnd
<1>1. Init => PassOK /\ TypesOK /\ SimpleOK
  BY InitTypes, InitSimple
<1>2. PassOK /\ TypesOK /\ SimpleOK /\ [Next]_vars => (PassOK /\ TypesOK /\ SimpleOK)'
  BY NextPass, NextTypes, NextSimple
<1>3. PassOK /\ TypesOK /\ SimpleOK => BasesEnd
  BY TypesEnd, SimpleEnd DEF BasesEnd
<1> QED  BY <1>1, <1>2, <1>3, PTL DEF Spec

-----------------------------------------------------------------------------
(* Groups: the search of checkGroupCycles.  What is done ends; a group on  *)
(* the stack leads to the next one; the references passed are severed or   *)
(* lead to groups that are done, but for the one being followed.           *)
RefSets(r) == [g \in Group |-> {r[g][i] : i \in DOMAIN r[g]} \ {Severed}]

RefsOK ==
    /\ refs \in [Group -> Seq(Group \cup {Severed})]
    /\ \A g \in Group : /\ Len(refs[g]) = Len(declared.refs[g])
                        /\ \A i \in 1..Len(refs[g]) : refs[g][i] \in {declared.refs[g][i], Severed}

GroupFrame == [group : Group, next : Nat \ {0}]

Searching(stk, st) ==
    /\ stk \in Seq(GroupFrame) /\ st \in [Group -> {"new", "onStack", "done"}]
    /\ \A i, j \in 1..Len(stk) : i # j => stk[i].group # stk[j].group
    /\ \A i \in 1..Len(stk) : st[stk[i].group] = "onStack"
    /\ \A g \in Group : st[g] = "onStack" => \E i \in 1..Len(stk) : stk[i].group = g

Linked(stk, r) ==
    \A i \in 1..(Len(stk) - 1) :
        LET k == stk[i].next - 1
        IN  k \in 1..Len(r[stk[i].group]) /\ r[stk[i].group][k] = stk[i + 1].group

Passed(stk, st, r) ==
    \A i \in 1..Len(stk) : \A k \in 1..Len(r[stk[i].group]) :
        k < stk[i].next =>
            LET h == r[stk[i].group][k]
            IN  h = Severed \/ st[h] = "done" \/ (i < Len(stk) /\ k = stk[i].next - 1)

PendingGroups ==
    CASE phase = "simple" -> Group
      [] phase \in {"types", "groups"} -> Schemas[schema] \cup Ahead
      [] OTHER -> {}

StackOK ==
    /\ Searching(stack, state) /\ Linked(stack, refs) /\ Passed(stack, state, refs)
    /\ phase # "groups" => stack = << >>

GroupsOK ==
    /\ \A g \in Group : state[g] = "done" \/ g \notin PendingGroups => Ends(RefSets(refs), g)
    /\ phase = "groups" => \A g \in Schemas[schema] \cap Group : g \in todo \/ state[g] # "new"

(* What was severed was on a cycle, and something was severed when a group *)
(* was reported.                                                           *)
OnCycle(g, h) ==
    h \in GroupReaches(declared.refs, h) /\ g \in {h} \cup GroupReaches(declared.refs, h)

SeveredOK ==
    /\ reports \in Seq(Type \cup Group \cup Element \cup Simple)
    /\ \A g \in Group : \A i \in 1..Len(refs[g]) : refs[g][i] = Severed => OnCycle(g, declared.refs[g][i])
    /\ Reported \cap Group # {} <=> \E g \in Group : \E i \in 1..Len(refs[g]) : refs[g][i] = Severed

SearchOK == RefsOK /\ StackOK /\ GroupsOK /\ SeveredOK

LEMMA InitSearch == Init => SearchOK
<1> SUFFICES ASSUME Init PROVE SearchOK
  OBVIOUS
<1>1. /\ declared \in Definitions /\ refs = declared.refs /\ state = [g \in Group |-> "new"]
      /\ stack = << >> /\ reports = << >> /\ phase = "simple"
  BY DEF Init
<1>2. refs \in [Group -> Seq(Group)]
  BY <1>1, DefinitionsAssumption
<1>3. \A g \in Group : refs[g] \in Seq(Group) /\ \A i \in 1..Len(refs[g]) : refs[g][i] \in Group
  BY <1>2, ElementOfSeq
<1>4. RefsOK
  <2>1. Seq(Group) \subseteq Seq(Group \cup {Severed})
    OBVIOUS
  <2>2. refs \in [Group -> Seq(Group \cup {Severed})]
    BY <1>2, <2>1
  <2> QED  BY <1>1, <2>2 DEF RefsOK
<1>5. StackOK
  BY <1>1 DEF StackOK, Searching, Linked, Passed
<1>6. GroupsOK
  BY <1>1 DEF GroupsOK, PendingGroups
<1>7. SeveredOK
  BY <1>1, <1>3, ComponentsAssumption DEF SeveredOK, Reported
<1> QED  BY <1>4, <1>5, <1>6, <1>7 DEF SearchOK

(* The newest frame moves on to the next reference.                        *)
LEMMA FrameAdvances ==
    ASSUME NEW stk \in Seq(GroupFrame), stk # << >>
    PROVE  LET adv == [stk EXCEPT ![Len(stk)].next = @ + 1]
           IN  /\ adv \in Seq(GroupFrame) /\ Len(adv) = Len(stk)
               /\ \A i \in 1..Len(stk) : adv[i].group = stk[i].group
               /\ \A i \in 1..(Len(stk) - 1) : adv[i] = stk[i]
               /\ adv[Len(stk)].next = stk[Len(stk)].next + 1
<1> DEFINE n == Len(stk)
           f == [stk[n] EXCEPT !.next = @ + 1]
           new == [stk EXCEPT ![n] = f]
<1>1. n \in 1..n /\ n \in Nat
  OBVIOUS
<1>2. stk[n] \in GroupFrame
  BY ONLY <1>1, stk \in Seq(GroupFrame), ElementOfSeq
<1>3. f \in GroupFrame /\ f.group = stk[n].group /\ f.next = stk[n].next + 1
  BY <1>2 DEF GroupFrame
<1>4. [stk EXCEPT ![Len(stk)].next = @ + 1] = new
  OBVIOUS
<1> HIDE DEF f
<1>5. /\ new \in Seq(GroupFrame) /\ Len(new) = n /\ new[n] = f
      /\ \A i \in 1..n : i # n => new[i] = stk[i]
  BY <1>1, <1>3
<1> HIDE DEF new
<1>6. \A i \in 1..(n - 1) : i \in 1..n /\ i # n
  BY <1>1
<1> HIDE DEF n
<1>7. /\ \A i \in 1..n : new[i].group = stk[i].group
      /\ \A i \in 1..(n - 1) : new[i] = stk[i]
      /\ new[n].next = stk[n].next + 1
  BY <1>1, <1>3, <1>5, <1>6
<1> QED  BY <1>4, <1>5, <1>7 DEF n

LEMMA TopFrame ==
    ASSUME RefsOK, StackOK, stack # << >>
    PROVE  /\ Len(stack) \in Nat /\ Len(stack) \in 1..Len(stack)
           /\ Top = stack[Len(stack)] /\ Top.group \in Group /\ Top.next \in Nat \ {0}
           /\ phase = "groups" /\ state[Top.group] = "onStack"
<1>1. stack \in Seq(GroupFrame)
  BY DEF StackOK, Searching
<1>2. Len(stack) \in Nat /\ Len(stack) \in 1..Len(stack)
  BY <1>1
<1>3. Top \in GroupFrame
  BY <1>1, <1>2, ElementOfSeq DEF Top
<1> QED  BY <1>2, <1>3 DEF Top, StackOK, Searching, GroupFrame

PassedOrNext(stk, st, r) ==
    \A i \in 1..Len(stk) : \A k \in 1..Len(r[stk[i].group]) :
        k < stk[i].next =>
            LET h == r[stk[i].group][k]
            IN  h = Severed \/ st[h] = "done" \/ k = stk[i].next - 1

(* The reference followed is passed: severed, or to a group that is done.  *)
LEMMA PassReference ==
    ASSUME RefsOK, StackOK, stack # << >>, Top.next \in 1..Len(refs[Top.group]),
           NEW r, \A g \in Group : Len(r[g]) = Len(refs[g]),
           \A g \in Group : \A i \in 1..Len(refs[g]) :
               r[g][i] = (IF g = Top.group /\ i = Top.next THEN r[Top.group][Top.next] ELSE refs[g][i])
    PROVE  /\ Searching(Advanced, state) /\ Linked(Advanced, r) /\ PassedOrNext(Advanced, state, r)
           /\ r[Top.group][Top.next] = Severed \/ state[r[Top.group][Top.next]] = "done" => Passed(Advanced, state, r)
           /\ Advanced # << >> /\ Advanced[Len(Advanced)].group = Top.group
           /\ Advanced[Len(Advanced)].next = Top.next + 1
<1> DEFINE L == Len(stack)
           adv == Advanced
<1>1. /\ L \in Nat /\ L \in 1..L /\ Top = stack[L] /\ Top.group \in Group /\ Top.next \in Nat \ {0}
      /\ stack \in Seq(GroupFrame)
  BY TopFrame DEF StackOK, Searching
<1>2. /\ adv \in Seq(GroupFrame) /\ Len(adv) = L
      /\ \A i \in 1..L : adv[i].group = stack[i].group
      /\ \A i \in 1..(L - 1) : adv[i] = stack[i]
      /\ adv[L].next = stack[L].next + 1
  BY <1>1, FrameAdvances DEF Advanced
<1> HIDE DEF adv
<1>3. Searching(adv, state)
  BY <1>2 DEF StackOK, Searching
<1>4. \A i \in 1..L : i # L => i \in 1..(L - 1) /\ i < L /\ stack[i].group # Top.group /\ stack[i].group \in Group
  <2> SUFFICES ASSUME NEW i \in 1..L, i # L
               PROVE i \in 1..(L - 1) /\ i < L /\ stack[i].group # Top.group /\ stack[i].group \in Group
    OBVIOUS
  <2>1. stack[i] \in GroupFrame
    BY <1>1, ElementOfSeq
  <2>2. i \in 1..(L - 1) /\ i < L
    BY <1>1
  <2> QED  BY <1>1, <2>1, <2>2 DEF StackOK, Searching, GroupFrame
<1>5. Linked(adv, r)
  <2> SUFFICES ASSUME NEW i \in 1..(L - 1)
               PROVE  /\ adv[i].next - 1 \in 1..Len(r[adv[i].group])
                      /\ r[adv[i].group][adv[i].next - 1] = adv[i + 1].group
    BY <1>2 DEF Linked
  <2>1. i \in 1..L /\ i # L /\ i + 1 \in 1..L
    BY <1>1
  <2>2. adv[i] = stack[i] /\ adv[i + 1].group = stack[i + 1].group /\ stack[i].group \in Group
    BY <1>2, <1>4, <2>1
  <2>3. stack[i].next - 1 \in 1..Len(refs[stack[i].group]) /\ refs[stack[i].group][stack[i].next - 1] = stack[i + 1].group
    BY DEF StackOK, Linked
  <2> QED  BY <1>4, <2>1, <2>2, <2>3
<1>6. ASSUME NEW i \in 1..L, NEW k \in 1..Len(r[adv[i].group]), k < adv[i].next
      PROVE  \/ r[adv[i].group][k] = Severed \/ state[r[adv[i].group][k]] = "done"
             \/ i < L /\ k = adv[i].next - 1
             \/ i = L /\ adv[i].group = Top.group /\ k = Top.next
  <2>1. CASE i # L
    <3>1. adv[i] = stack[i] /\ stack[i].group # Top.group /\ stack[i].group \in Group /\ i < L
      BY <1>2, <1>4, <2>1
    <3>2. k \in 1..Len(refs[stack[i].group]) /\ r[stack[i].group][k] = refs[stack[i].group][k]
      BY <3>1
    <3> QED  BY <1>6, <3>1, <3>2 DEF StackOK, Passed
  <2>2. CASE i = L
    <3>1. adv[i].group = Top.group /\ k \in 1..Len(refs[Top.group]) /\ k < Top.next + 1
      BY <1>1, <1>2, <1>6, <2>2
    <3>2. CASE k = Top.next
      BY <2>2, <3>1, <3>2
    <3>3. CASE k # Top.next
      <4>1. k < Top.next /\ r[Top.group][k] = refs[Top.group][k]
        BY <1>1, <3>1, <3>3
      <4>2. refs[Top.group][k] = Severed \/ state[refs[Top.group][k]] = "done"
        BY <1>1, <3>1, <4>1 DEF StackOK, Passed
      <4> QED  BY <3>1, <4>1, <4>2
    <3> QED  BY <3>2, <3>3
  <2> QED  BY <2>1, <2>2
<1>7. adv # << >> /\ adv[Len(adv)].group = Top.group /\ adv[Len(adv)].next = Top.next + 1
  BY <1>1, <1>2
<1>8. PassedOrNext(adv, state, r)
  <2>1. (Top.next + 1) - 1 = Top.next
    BY <1>1
  <2> QED  BY <1>1, <1>2, <1>6, <2>1 DEF PassedOrNext
<1>9. r[Top.group][Top.next] = Severed \/ state[r[Top.group][Top.next]] = "done" => Passed(adv, state, r)
  BY <1>2, <1>6 DEF Passed
<1> QED  BY <1>3, <1>5, <1>7, <1>8, <1>9 DEF adv

(* A group is pushed: the first, or one that the newest frame leads to.    *)
LEMMA PushGroup ==
    ASSUME NEW stk, NEW st, Searching(stk, st), NEW r, Linked(stk, r), PassedOrNext(stk, st, r),
           NEW h \in Group, st[h] = "new",
           stk # << >> => LET f == stk[Len(stk)]
                          IN  f.next - 1 \in 1..Len(r[f.group]) /\ r[f.group][f.next - 1] = h
    PROVE  LET new == Append(stk, [group |-> h, next |-> 1])
               st2 == [st EXCEPT ![h] = "onStack"]
           IN  Searching(new, st2) /\ Linked(new, r) /\ Passed(new, st2, r)
<1> DEFINE f == [group |-> h, next |-> 1]
           new == Append(stk, f)
           st2 == [st EXCEPT ![h] = "onStack"]
           L == Len(stk)
<1>1. /\ stk \in Seq(GroupFrame) /\ L \in Nat /\ st \in [Group -> {"new", "onStack", "done"}]
      /\ f \in GroupFrame /\ f.group = h /\ f.next = 1
  BY DEF Searching, GroupFrame
<1> HIDE DEF f
<1>2. /\ new \in Seq(GroupFrame) /\ Len(new) = L + 1 /\ new[L + 1] = f
      /\ \A i \in 1..L : new[i] = stk[i]
  BY <1>1
<1>3. /\ st2 \in [Group -> {"new", "onStack", "done"}] /\ st2[h] = "onStack"
      /\ \A g \in Group : g # h => st2[g] = st[g]
      /\ \A g : g \in Group /\ st[g] = "done" => st2[g] = "done"
  BY <1>1
<1> HIDE DEF new, st2
<1>4. \A i \in 1..Len(new) : i \in 1..L \/ i = L + 1
  BY <1>1, <1>2
<1>5. ASSUME NEW i \in 1..L PROVE stk[i].group \in Group /\ stk[i].group # h /\ i \in 1..Len(new)
  <2>1. stk[i] \in GroupFrame
    BY <1>1, ElementOfSeq
  <2> QED  BY <1>1, <1>2, <2>1 DEF Searching, GroupFrame
<1>6. Searching(new, st2)
  <2>1. \A i, j \in 1..Len(new) : i # j => new[i].group # new[j].group
    BY <1>1, <1>2, <1>4, <1>5 DEF Searching
  <2>2. \A i \in 1..Len(new) : st2[new[i].group] = "onStack"
    BY <1>1, <1>2, <1>3, <1>4, <1>5 DEF Searching
  <2>3. ASSUME NEW g \in Group, st2[g] = "onStack" PROVE \E i \in 1..Len(new) : new[i].group = g
    <3>1. CASE g = h
      BY <1>1, <1>2, <3>1
    <3>2. CASE g # h
      <4>1. PICK i \in 1..L : stk[i].group = g
        BY <1>3, <2>3, <3>2 DEF Searching
      <4> QED  BY <1>2, <1>5, <4>1
    <3> QED  BY <3>1, <3>2
  <2> QED  BY <1>2, <1>3, <2>1, <2>2, <2>3 DEF Searching
<1>7. Linked(new, r)
  <2> SUFFICES ASSUME NEW i \in 1..L
               PROVE  /\ new[i].next - 1 \in 1..Len(r[new[i].group])
                      /\ r[new[i].group][new[i].next - 1] = new[i + 1].group
    <3>1. Len(new) - 1 = L
      BY <1>1, <1>2
    <3> QED  BY <3>1 DEF Linked
  <2>1. CASE i = L
    <3>1. stk # << >> /\ new[i] = stk[L] /\ new[i + 1] = f
      BY <1>1, <1>2, <2>1
    <3> QED  BY <1>1, <3>1
  <2>2. CASE i # L
    <3>1. i \in 1..(L - 1) /\ i + 1 \in 1..L
      BY <1>1, <2>2
    <3>2. new[i] = stk[i] /\ new[i + 1] = stk[i + 1]
      BY <1>2, <3>1
    <3> QED  BY <3>1, <3>2 DEF Linked
  <2> QED  BY <2>1, <2>2
<1>8. Passed(new, st2, r)
  <2> SUFFICES ASSUME NEW i \in 1..Len(new), NEW k \in 1..Len(r[new[i].group]), k < new[i].next
               PROVE  \/ r[new[i].group][k] = Severed \/ st2[r[new[i].group][k]] = "done"
                      \/ i < Len(new) /\ k = new[i].next - 1
    BY DEF Passed
  <2>1. CASE i = L + 1
    BY <1>1, <1>2, <2>1
  <2>2. CASE i \in 1..L
    <3>1. new[i] = stk[i] /\ i < Len(new)
      BY <1>1, <1>2, <2>2
    <3>2. \/ r[stk[i].group][k] = Severed \/ st[r[stk[i].group][k]] = "done" \/ k = stk[i].next - 1
      BY <2>2, <3>1 DEF PassedOrNext
    <3>3. \A x : st[x] = "done" => st2[x] = "done"
      BY <1>1, <1>3 DEF st2
    <3> QED  BY <3>1, <3>2, <3>3
  <2> QED  BY <1>4, <2>1, <2>2
<1> QED  BY <1>6, <1>7, <1>8 DEF new, st2, f

(* The newest group is left: it is done, and what led to it is passed.     *)
LEMMA PopGroup ==
    ASSUME NEW stk, NEW st, Searching(stk, st), NEW r, Linked(stk, r), Passed(stk, st, r), stk # << >>
    PROVE  LET rest == SubSeq(stk, 1, Len(stk) - 1)
               st2 == [st EXCEPT ![stk[Len(stk)].group] = "done"]
           IN  Searching(rest, st2) /\ Linked(rest, r) /\ Passed(rest, st2, r)
<1> DEFINE L == Len(stk)
           g == stk[L].group
           rest == SubSeq(stk, 1, Len(stk) - 1)
           st2 == [st EXCEPT ![g] = "done"]
<1>1. stk \in Seq(GroupFrame) /\ L \in Nat \ {0} /\ L \in 1..L /\ st \in [Group -> {"new", "onStack", "done"}]
  BY DEF Searching
<1>2. stk[L] \in GroupFrame
  BY <1>1, ElementOfSeq
<1>3. g \in Group
  BY <1>2 DEF GroupFrame
<1>4. rest \in Seq(GroupFrame) /\ Len(rest) = L - 1 /\ \A i \in 1..Len(rest) : rest[i] = stk[i]
  BY ONLY <1>1, stk # << >>, Popped
<1>5. /\ st2 \in [Group -> {"new", "onStack", "done"}] /\ st2[g] = "done"
      /\ \A x \in Group : x # g => st2[x] = st[x]
      /\ \A x : st[x] = "done" => st2[x] = "done"
  BY <1>1, <1>3
<1> HIDE DEF rest, st2
<1>6. ASSUME NEW i \in 1..Len(rest)
      PROVE  i \in 1..L /\ i # L /\ rest[i] = stk[i] /\ stk[i].group \in Group /\ stk[i].group # g /\ i \in 1..(L - 1)
  <2>1. i \in 1..L /\ i # L /\ rest[i] = stk[i] /\ i \in 1..(L - 1)
    BY <1>1, <1>4
  <2>2. stk[i] \in GroupFrame
    BY <1>1, <2>1, ElementOfSeq
  <2> QED  BY <1>1, <2>1, <2>2 DEF Searching, GroupFrame
<1>7. Searching(rest, st2)
  <2>1. \A i, j \in 1..Len(rest) : i # j => rest[i].group # rest[j].group
    BY <1>6 DEF Searching
  <2>2. \A i \in 1..Len(rest) : st2[rest[i].group] = "onStack"
    BY <1>5, <1>6 DEF Searching
  <2>3. ASSUME NEW x \in Group, st2[x] = "onStack" PROVE \E i \in 1..Len(rest) : rest[i].group = x
    <3>1. x # g /\ st[x] = "onStack"
      BY <1>5, <2>3
    <3>2. PICK i \in 1..L : stk[i].group = x
      BY <3>1 DEF Searching
    <3>3. i \in 1..Len(rest)
      BY <1>1, <1>4, <3>1, <3>2
    <3> QED  BY <1>6, <3>2, <3>3
  <2> QED  BY <1>4, <1>5, <2>1, <2>2, <2>3 DEF Searching
<1>8. Linked(rest, r)
  <2> SUFFICES ASSUME NEW i \in 1..(Len(rest) - 1)
               PROVE  /\ rest[i].next - 1 \in 1..Len(r[rest[i].group])
                      /\ r[rest[i].group][rest[i].next - 1] = rest[i + 1].group
    BY DEF Linked
  <2>1. i \in 1..Len(rest) /\ i + 1 \in 1..Len(rest) /\ i \in 1..(L - 1)
    BY <1>1, <1>4
  <2>2. rest[i] = stk[i] /\ rest[i + 1] = stk[i + 1]
    BY <1>4, <2>1
  <2> QED  BY <2>1, <2>2 DEF Linked
<1>9. Passed(rest, st2, r)
  <2> SUFFICES ASSUME NEW i \in 1..Len(rest), NEW k \in 1..Len(r[rest[i].group]), k < rest[i].next
               PROVE  \/ r[rest[i].group][k] = Severed \/ st2[r[rest[i].group][k]] = "done"
                      \/ i < Len(rest) /\ k = rest[i].next - 1
    BY DEF Passed
  <2>1. rest[i] = stk[i] /\ i \in 1..L /\ i \in 1..(L - 1)
    BY <1>6
  <2>2. \/ r[stk[i].group][k] = Severed \/ st[r[stk[i].group][k]] = "done" \/ k = stk[i].next - 1
    BY <2>1 DEF Passed
  <2>3. CASE k = stk[i].next - 1 /\ i = Len(rest)
    <3>1. i + 1 = L
      BY <1>1, <1>4, <2>3
    <3>2. r[stk[i].group][k] = g
      BY <2>1, <2>3, <3>1 DEF Linked
    <3> QED  BY <1>5, <2>1, <3>2
  <2>4. CASE k = stk[i].next - 1 /\ i # Len(rest)
    BY <1>1, <1>4, <2>1, <2>4
  <2> QED  BY <1>5, <2>1, <2>2, <2>3, <2>4
<1> QED  BY <1>7, <1>8, <1>9 DEF rest, st2

-----------------------------------------------------------------------------
(* Severing keeps what ends.                                               *)
Severs(r, r2) ==
    \A g \in Group : DOMAIN r2[g] = DOMAIN r[g] /\ \A i \in DOMAIN r[g] : r2[g][i] \in {r[g][i], Severed}

LEMMA SeveredEnds ==
    ASSUME NEW r, NEW r2, Severs(r, r2), NEW g, Ends(RefSets(r), g)
    PROVE  Ends(RefSets(r2), g)
<1>1. \A x \in Group : RefSets(r2)[x] \subseteq RefSets(r)[x]
  BY DEF RefSets, Severs
<1>2. DOMAIN RefSets(r) = Group /\ DOMAIN RefSets(r2) = Group
  BY DEF RefSets
<1> QED  BY <1>1, <1>2, EndsWithFewer

LEMMA GroupReachSpreads ==
    ASSUME NEW r, RefSets(r) \in [Group -> SUBSET Group], NEW g \in Group
    PROVE  \E c : /\ Spreads(RefSets(r), RefSets(r)[g], Cardinality(Group), c)
                  /\ GroupReaches(r, g) = c[Cardinality(Group)]
<1> DEFINE N == Cardinality(Group)
           Refs(h) == {r[h][i] : i \in DOMAIN r[h]} \ {Severed}
           Is(c) == c = [n \in 0..N |-> IF n = 0 THEN Refs(g)
                                        ELSE c[n - 1] \cup UNION {Refs(h) : h \in c[n - 1]}]
           G == RefSets(r)
           d == CHOOSE c : Is(c)
<1>1. N \in Nat
  BY ComponentsAssumption, FS_CardinalityType
<1>2. GroupReaches(r, g) = d[N]
  BY DEF GroupReaches
<1>3. \A h \in Group : Refs(h) = G[h]
  BY DEF RefSets
<1>4. DOMAIN G = Group /\ \A h \in Group : G[h] \subseteq Group
  OBVIOUS
<1> HIDE DEF N, Refs, G
<1>5. PICK c : Spreads(G, G[g], N, c) /\ c = [n \in 0..N |-> c[n]]
  BY <1>1, SpreadExists
<1>6. \A n \in 0..N : c[n] \subseteq Group
  <2>1. G[g] \subseteq Group /\ \A v \in Group \cap DOMAIN G : G[v] \subseteq Group
    BY <1>4
  <2> QED  BY ONLY <1>1, <1>5, <2>1, SpreadWithin
<1>7. ASSUME NEW n \in 0..N
      PROVE  c[n] = IF n = 0 THEN Refs(g) ELSE c[n - 1] \cup UNION {Refs(h) : h \in c[n - 1]}
  <2>1. CASE n = 0
    BY <1>3, <1>5, <2>1 DEF Spreads
  <2>2. CASE n # 0
    <3>1. n \in 1..N /\ n - 1 \in 0..N
      BY <1>1, <2>2
    <3>2. c[n] = c[n - 1] \cup UNION {G[h] : h \in c[n - 1] \cap Group} /\ c[n - 1] \subseteq Group
      BY <1>4, <1>5, <1>6, <3>1 DEF Spreads, Onward
    <3>3. UNION {G[h] : h \in c[n - 1] \cap Group} = UNION {Refs(h) : h \in c[n - 1]}
      BY <1>3, <3>2
    <3> QED  BY <2>2, <3>2, <3>3
  <2> QED  BY <2>1, <2>2
<1>8. Is(c)
  BY <1>5, <1>7
<1>9. Is(d)
  BY <1>8
<1> HIDE DEF d
<1>10. DOMAIN d = 0..N /\ d[0] = Refs(g)
  BY <1>1, <1>9
<1>11. \A n \in 1..N : d[n] = d[n - 1] \cup UNION {Refs(h) : h \in d[n - 1]}
  <2>1. \A n \in 1..N : n \in 0..N /\ n # 0
    BY <1>1
  <2> QED  BY <1>9, <2>1
<1> HIDE DEF Is
<1>12. \A n \in 0..N : d[n] \subseteq Group
  <2> DEFINE S == {n \in Nat : n \in 0..N => d[n] \subseteq Group}
  <2>1. 0 \in S
    BY <1>3, <1>4, <1>10
  <2>2. ASSUME NEW n \in Nat, n \in S PROVE n + 1 \in S
    <3> SUFFICES ASSUME n + 1 \in 0..N PROVE d[n + 1] \subseteq Group
      OBVIOUS
    <3>1. n \in 0..N /\ n + 1 \in 1..N /\ (n + 1) - 1 = n
      BY <1>1
    <3>2. d[n + 1] = d[n] \cup UNION {Refs(h) : h \in d[n]} /\ d[n] \subseteq Group
      BY <1>11, <2>2, <3>1
    <3> QED  BY <1>3, <1>4, <3>2
  <2>3. Nat \subseteq S
    BY <2>1, <2>2, InductionOnNat
  <2> QED  BY <2>3, <1>1
<1>13. ASSUME NEW n \in 1..N PROVE d[n] = Onward(G, d[n - 1])
  <2>1. n - 1 \in 0..N
    BY <1>1
  <2>2. d[n - 1] \subseteq Group
    BY <1>12, <2>1
  <2>3. UNION {G[h] : h \in d[n - 1] \cap Group} = UNION {Refs(h) : h \in d[n - 1]}
    BY <1>3, <2>2
  <2> QED  BY <1>4, <1>11, <2>3 DEF Onward
<1>14. Spreads(G, G[g], N, d)
  BY <1>3, <1>10, <1>13 DEF Spreads
<1> QED  BY <1>2, <1>14 DEF N, G

(* A group that ends is not reached from itself.                           *)
LEMMA EndsNotReached ==
    ASSUME NEW r, RefSets(r) \in [Group -> SUBSET Group], NEW g \in Group, Ends(RefSets(r), g)
    PROVE  g \notin GroupReaches(r, g)
<1> DEFINE G == RefSets(r)
           N == Cardinality(Group)
<1>1. N \in Nat
  BY ComponentsAssumption, FS_CardinalityType
<1>2. PICK c : Spreads(G, G[g], N, c) /\ GroupReaches(r, g) = c[N]
  BY GroupReachSpreads
<1> HIDE DEF G, N
<1>3. ASSUME g \in c[N] PROVE IsBelow(G, g, g)
  <2> SUFFICES ASSUME NEW K \in SUBSET DOMAIN G, G[g] \subseteq K, ClosedUnder(G, K) PROVE g \in K
    BY DEF IsBelow
  <2>1. \A v \in K \cap DOMAIN G : G[v] \subseteq K
    BY DEF ClosedUnder
  <2>2. \A n \in 0..N : c[n] \subseteq K
    BY <1>1, <1>2, <2>1, SpreadWithin
  <2> QED  BY <1>1, <1>3, <2>2
<1>4. ~IsBelow(G, g, g)
  BY EndsNotBelowItself DEF G
<1> QED  BY <1>2, <1>3, <1>4

-----------------------------------------------------------------------------
(* The stack is a path of declared references, no longer than there are    *)
(* groups; a reference back into it closes a cycle.                        *)
DeclaredRefs == RefSets(declared.refs)

LEMMA DeclaredTyped ==
    ASSUME PassOK
    PROVE  DeclaredRefs \in [Group -> SUBSET Group]
<1>1. declared.refs \in [Group -> Seq(Group)]
  BY DefinitionsAssumption DEF PassOK
<1>2. \A g \in Group : \A i \in DOMAIN declared.refs[g] : declared.refs[g][i] \in Group
  BY <1>1, ElementOfSeq
<1> QED  BY <1>2 DEF DeclaredRefs, RefSets

LEMMA StackIsPath ==
    ASSUME PassOK, RefsOK, StackOK
    PROVE  /\ Len(stack) \in Nat /\ Len(stack) <= Cardinality(Group)
           /\ \A i \in 1..Len(stack) : stack[i].group \in Group
           /\ \A i \in 1..(Len(stack) - 1) : stack[i + 1].group \in DeclaredRefs[stack[i].group]
<1> DEFINE L == Len(stack)
           f == [i \in 1..L |-> stack[i].group]
<1>1. stack \in Seq(GroupFrame) /\ L \in Nat /\ \A i, j \in 1..L : i # j => stack[i].group # stack[j].group
  BY DEF StackOK, Searching
<1>2. \A i \in 1..L : stack[i].group \in Group
  <2> TAKE i \in 1..L
  <2>1. stack[i] \in GroupFrame
    BY <1>1, ElementOfSeq
  <2> QED  BY <2>1 DEF GroupFrame
<1>3. L <= Cardinality(Group)
  <2>1. f \in [1..L -> Group] /\ \A i, j \in 1..L : i # j => f[i] # f[j]
    BY <1>1, <1>2
  <2>2. IsFiniteSet(1..L) /\ Cardinality(1..L) = L /\ IsFiniteSet(Group) /\ Cardinality(Group) \in Nat
    <3> HIDE DEF L
    <3>1. IsFiniteSet(1..L) /\ Cardinality(1..L) = (IF 1 > L THEN 0 ELSE L - 1 + 1)
      BY <1>1, FS_Interval
    <3> QED  BY <1>1, <3>1, ComponentsAssumption, FS_CardinalityType
  <2>3. ~(Cardinality(Group) < Cardinality(1..L))
    <3> HIDE DEF f, L
    <3> QED  BY <2>1, <2>2, FS_PigeonHole
  <2> QED  BY <1>1, <2>2, <2>3
<1>4. ASSUME NEW i \in 1..(L - 1) PROVE stack[i + 1].group \in DeclaredRefs[stack[i].group]
  <2> DEFINE g == stack[i].group
             k == stack[i].next - 1
  <2>1. i \in 1..L /\ i + 1 \in 1..L
    BY <1>1
  <2>2. k \in 1..Len(refs[g]) /\ refs[g][k] = stack[i + 1].group
    BY DEF StackOK, Linked
  <2>3. g \in Group /\ stack[i + 1].group \in Group
    BY <1>2, <2>1
  <2> HIDE DEF g, k
  <2>4. refs[g][k] # Severed /\ refs[g][k] = declared.refs[g][k] /\ Len(refs[g]) = Len(declared.refs[g])
    BY <2>2, <2>3, ComponentsAssumption DEF RefsOK
  <2>5. declared.refs[g] \in Seq(Group)
    BY <2>3, DefinitionsAssumption DEF PassOK
  <2>6. k \in DOMAIN declared.refs[g]
    BY <2>2, <2>4, <2>5
  <2>7. refs[g][k] \in DeclaredRefs[g]
    BY <2>3, <2>4, <2>6 DEF DeclaredRefs, RefSets
  <2> QED  BY <2>2, <2>7 DEF g
<1> QED  BY <1>1, <1>2, <1>3, <1>4

LEMMA BackEdgeCloses ==
    ASSUME PassOK, RefsOK, StackOK, stack # << >>, Top.next \in 1..Len(refs[Top.group]),
           refs[Top.group][Top.next] # Severed, state[refs[Top.group][Top.next]] = "onStack"
    PROVE  OnCycle(Top.group, declared.refs[Top.group][Top.next])
<1> DEFINE L == Len(stack)
           g == Top.group
           h == declared.refs[g][Top.next]
           N == Cardinality(Group)
           D == DeclaredRefs
<1>1. L \in 1..L /\ L \in Nat /\ g = stack[L].group /\ g \in Group
  BY TopFrame
<1>2. h = refs[g][Top.next] /\ Len(refs[g]) = Len(declared.refs[g]) /\ declared.refs[g] \in Seq(Group)
  BY <1>1, DefinitionsAssumption DEF RefsOK, PassOK
<1>3. h \in Group /\ h \in D[g]
  <2>1. Top.next \in DOMAIN declared.refs[g] /\ h # Severed
    BY <1>2
  <2>2. h \in Group
    BY <1>2, <2>1, ElementOfSeq
  <2> QED  BY <1>1, <2>1, <2>2 DEF DeclaredRefs, RefSets
<1>4. PICK p \in 1..L : stack[p].group = h
  BY <1>2, <1>3 DEF StackOK, Searching
<1>5. N \in Nat /\ L <= N /\ \A i \in 1..(L - 1) : stack[i + 1].group \in D[stack[i].group]
  BY StackIsPath, ComponentsAssumption, FS_CardinalityType
<1>6. D \in [Group -> SUBSET Group] /\ \A i \in 1..L : stack[i].group \in Group
  BY DeclaredTyped, StackIsPath
<1>7. PICK c : Spreads(D, D[h], N, c) /\ GroupReaches(declared.refs, h) = c[N]
  BY <1>3, <1>6, GroupReachSpreads DEF DeclaredRefs
<1> HIDE DEF L, g, h, N, D
<1>8. \A m \in 0..N : c[m] \subseteq c[N]
  <2> TAKE m \in 0..N
  <2>1. \A n \in m..N : c[m] \subseteq c[n]
    BY <1>5, <1>7, SpreadGrows
  <2> QED  BY <1>5, <2>1
<1> DEFINE S == {q \in Nat : p + 1 + q <= L => stack[p + 1 + q].group \in c[q]}
<1>9. 0 \in S
  <2> SUFFICES ASSUME p + 1 <= L PROVE stack[p + 1].group \in c[0]
    BY <1>1
  <2>1. p \in 1..(L - 1) /\ p + 1 + 0 = p + 1
    BY <1>1
  <2> QED  BY <2>1, <1>4, <1>5, <1>7 DEF Spreads
<1>10. ASSUME NEW q \in Nat, q \in S PROVE q + 1 \in S
  <2> SUFFICES ASSUME p + 1 + (q + 1) <= L PROVE stack[p + 1 + (q + 1)].group \in c[q + 1]
    OBVIOUS
  <2> DEFINE i == p + 1 + q
  <2>1. i \in 1..(L - 1) /\ i \in 1..L /\ i + 1 = p + 1 + (q + 1) /\ i <= L /\ q + 1 \in 1..N /\ (q + 1) - 1 = q
    BY <1>1, <1>5
  <2>2. stack[i].group \in c[q]
    BY <1>10, <2>1
  <2> HIDE DEF i
  <2>3. stack[i + 1].group \in D[stack[i].group] /\ stack[i].group \in DOMAIN D
    BY <1>5, <1>6, <2>1
  <2>4. stack[i + 1].group \in c[q + 1]
    <3> DEFINE m == q + 1
    <3>1. m \in 1..N /\ m - 1 = q
      BY <2>1
    <3> HIDE DEF m
    <3>2. c[m] = Onward(D, c[m - 1])
      BY ONLY <1>7, <3>1 DEF Spreads
    <3>3. stack[i + 1].group \in c[m]
      BY ONLY <2>2, <2>3, <3>1, <3>2 DEF Onward
    <3> QED  BY <3>3 DEF m
  <2> QED  BY <2>1, <2>4
<1>11. Nat \subseteq S
  BY <1>9, <1>10, InductionOnNat
<1>12. CASE p = L
  <2>1. h \in c[0] /\ g = h
    BY <1>1, <1>3, <1>4, <1>7, <1>12 DEF Spreads
  <2>2. 0 \in 0..N
    BY <1>5
  <2> QED  BY <1>7, <1>8, <2>1, <2>2 DEF OnCycle, g, h
<1>13. CASE p # L
  <2> DEFINE q == L - p - 1
  <2>1. q \in Nat /\ p + 1 + q = L /\ q \in 0..N /\ q + 1 \in 1..N /\ q + 1 \in 0..N /\ (q + 1) - 1 = q
    BY <1>1, <1>5, <1>13
  <2> HIDE DEF q
  <2>2. g \in c[q]
    BY <1>1, <1>11, <2>1, SMTT(20)
  <2>3. h \in c[q + 1]
    <3> DEFINE m == q + 1
    <3>1. m \in 1..N /\ m - 1 = q
      BY <2>1
    <3>2. g \in DOMAIN D
      BY <1>1, <1>6
    <3> HIDE DEF m
    <3>3. c[m] = Onward(D, c[m - 1])
      BY ONLY <1>7, <3>1 DEF Spreads
    <3>4. h \in c[m]
      BY ONLY <1>3, <2>2, <3>1, <3>2, <3>3 DEF Onward
    <3> QED  BY <3>4 DEF m
  <2> QED  BY <1>7, <1>8, <2>1, <2>2, <2>3 DEF OnCycle, g, h
<1> QED  BY <1>12, <1>13

-----------------------------------------------------------------------------
(* The steps of the search.                                                *)
LEMMA ReportsGrow ==
    ASSUME SeveredOK, NEW x \in Type \cup Group \cup Element \cup Simple, reports' = Append(reports, x)
    PROVE  reports' \in Seq(Type \cup Group \cup Element \cup Simple) /\ Reported' = Reported \cup {x}
<1> DEFINE C == Type \cup Group \cup Element \cup Simple
<1>1. reports \in Seq(C) /\ x \in C
  BY DEF SeveredOK
<1> HIDE DEF C
<1>2. reports' \in Seq(C)
  BY <1>1
<1>3. Len(reports) \in Nat /\ DOMAIN reports = 1..Len(reports) /\ DOMAIN reports' = 1..(Len(reports) + 1)
  BY <1>1
<1>4. reports'[Len(reports) + 1] = x /\ \A i \in 1..Len(reports) : reports'[i] = reports[i]
  BY <1>1
<1>5. 1..(Len(reports) + 1) = 1..Len(reports) \cup {Len(reports) + 1}
  BY <1>3
<1>6. Reported' = Reported \cup {x}
  BY <1>3, <1>4, <1>5 DEF Reported
<1> QED  BY <1>2, <1>6 DEF C

LEMMA VisitOK ==
    ASSUME PassOK, SearchOK, NEW g \in Group, VisitGroup(g)
    PROVE  SearchOK'
<1>1. /\ phase = "groups" /\ stack = << >> /\ todo' = todo \ {g}
      /\ UNCHANGED <<declared, refs, schema, phase, reports>>
  BY DEF VisitGroup
<1>2. RefsOK'
  BY <1>1 DEF SearchOK, RefsOK
<1>3. SeveredOK'
  BY <1>1 DEF SearchOK, SeveredOK, OnCycle, Reported
<1>4. PendingGroups' = PendingGroups
  BY <1>1, AheadMoves DEF PendingGroups
<1>5. CASE state[g] = "new"
  <2>1. state' = [state EXCEPT ![g] = "onStack"] /\ stack' = Append(stack, [group |-> g, next |-> 1])
    BY <1>5 DEF VisitGroup, Push
  <2>2. Searching(stack, state) /\ Linked(stack, refs) /\ PassedOrNext(stack, state, refs)
    BY <1>1 DEF SearchOK, StackOK, PassedOrNext
  <2>3. Searching(stack', state') /\ Linked(stack', refs) /\ Passed(stack', state', refs)
    BY <1>1, <1>5, <2>1, <2>2, PushGroup
  <2>4. StackOK'
    BY <1>1, <2>3 DEF StackOK
  <2>5. state'[g] = "onStack" /\ \A x \in Group : x # g => state'[x] = state[x]
    BY <2>1, <2>2 DEF Searching
  <2>6. GroupsOK'
    BY <1>1, <1>4, <2>5 DEF SearchOK, GroupsOK
  <2> QED  BY <1>2, <1>3, <2>4, <2>6 DEF SearchOK
<1>6. CASE state[g] # "new"
  <2>1. UNCHANGED <<state, stack>>
    BY <1>6 DEF VisitGroup
  <2>2. StackOK'
    BY <1>1, <2>1 DEF SearchOK, StackOK
  <2>3. GroupsOK'
    BY <1>1, <1>4, <1>6, <2>1 DEF SearchOK, GroupsOK
  <2> QED  BY <1>2, <1>3, <2>2, <2>3 DEF SearchOK
<1> QED  BY <1>5, <1>6

LEMMA FollowOK ==
    ASSUME PassOK, SearchOK, FollowReference
    PROVE  SearchOK'
<1> DEFINE g == Top.group
           n == Top.next
           h == refs[g][n]
<1>1. /\ phase = "groups" /\ stack # << >> /\ n <= Len(refs[g])
      /\ UNCHANGED <<declared, schema, phase, todo>>
  BY DEF FollowReference
<1>2. g \in Group /\ n \in Nat \ {0}
  BY <1>1, TopFrame DEF SearchOK
<1>3. refs[g] \in Seq(Group \cup {Severed}) /\ n \in 1..Len(refs[g])
  BY <1>1, <1>2 DEF SearchOK, RefsOK
<1>4. h \in Group \cup {Severed}
  BY <1>3, ElementOfSeq
<1>5. PendingGroups' = PendingGroups
  BY <1>1, AheadMoves DEF PendingGroups
<1>6. state \in [Group -> {"new", "onStack", "done"}]
  BY DEF SearchOK, StackOK, Searching
<1>7. /\ Searching(Advanced, state) /\ Linked(Advanced, refs) /\ PassedOrNext(Advanced, state, refs)
      /\ h = Severed \/ state[h] = "done" => Passed(Advanced, state, refs)
      /\ Advanced # << >> /\ Advanced[Len(Advanced)].group = g /\ Advanced[Len(Advanced)].next = n + 1
  BY <1>1, <1>3, PassReference DEF SearchOK
<1>8. CASE UNCHANGED <<refs, state, reports>> /\ stack' = Advanced /\ (h = Severed \/ state[h] = "done")
  <2>1. RefsOK' /\ SeveredOK'
    BY <1>1, <1>8 DEF SearchOK, RefsOK, SeveredOK, OnCycle, Reported
  <2>2. StackOK'
    BY <1>1, <1>7, <1>8 DEF StackOK
  <2>3. GroupsOK'
    BY <1>1, <1>5, <1>8 DEF SearchOK, GroupsOK
  <2> QED  BY <2>1, <2>2, <2>3 DEF SearchOK
<1>9. CASE h # Severed /\ state[h] = "onStack"
  <2>1. reports' = Append(reports, h) /\ refs' = [refs EXCEPT ![g][n] = Severed] /\ stack' = Advanced /\ state' = state
    BY <1>9 DEF FollowReference, BackEdge
  <2>2. /\ refs' \in [Group -> Seq(Group \cup {Severed})]
        /\ \A x \in Group : /\ Len(refs'[x]) = Len(refs[x]) /\ DOMAIN refs'[x] = 1..Len(refs[x])
                            /\ \A i \in 1..Len(refs[x]) :
                                 refs'[x][i] = IF x = g /\ i = n THEN Severed ELSE refs[x][i]
    <3> DEFINE f == [refs[g] EXCEPT ![n] = Severed]
    <3>1. /\ f \in Seq(Group \cup {Severed}) /\ Len(f) = Len(refs[g]) /\ DOMAIN f = 1..Len(refs[g])
          /\ \A i \in 1..Len(refs[g]) : f[i] = IF i = n THEN Severed ELSE refs[g][i]
      <4> DEFINE s == refs[g]
                 D == Group \cup {Severed}
      <4>1. s \in Seq(D) /\ Severed \in D /\ n \in 1..Len(s)
        BY <1>3
      <4> HIDE DEF s, D
      <4> QED  BY <4>1 DEF s, D
    <3>2. refs' = [refs EXCEPT ![g] = f]
      BY <2>1
    <3> HIDE DEF f
    <3>3. /\ refs \in [Group -> Seq(Group \cup {Severed})]
          /\ \A x \in Group : DOMAIN refs[x] = 1..Len(refs[x])
      BY DEF SearchOK, RefsOK
    <3>4. refs'[g] = f /\ \A x \in Group : x # g => refs'[x] = refs[x]
      BY <1>2, <3>2, <3>3
    <3>5. refs' \in [Group -> Seq(Group \cup {Severed})]
      BY <1>2, <3>1, <3>2, <3>3
    <3> QED  BY <3>1, <3>3, <3>4, <3>5
  <2>3. refs'[g][n] = Severed
    BY <1>2, <1>3, <2>2
  <2>4. RefsOK'
    BY <1>1, <2>2 DEF SearchOK, RefsOK
  <2>5. Searching(Advanced, state) /\ Linked(Advanced, refs') /\ Passed(Advanced, state, refs')
    <3> DEFINE r == refs'
    <3>1. /\ \A x \in Group : Len(r[x]) = Len(refs[x])
          /\ \A x \in Group : \A i \in 1..Len(refs[x]) :
               r[x][i] = (IF x = Top.group /\ i = Top.next THEN r[Top.group][Top.next] ELSE refs[x][i])
      BY <2>2, <2>3
    <3>2. RefsOK /\ StackOK /\ stack # << >> /\ Top.next \in 1..Len(refs[Top.group])
      BY <1>1, <1>3 DEF SearchOK
    <3>3. r[Top.group][Top.next] = Severed
      BY <2>3
    <3> HIDE DEF r
    <3>4. Searching(Advanced, state) /\ Linked(Advanced, r) /\ Passed(Advanced, state, r)
      BY <3>1, <3>2, <3>3, PassReference
    <3> QED  BY <3>4 DEF r
  <2>6. StackOK'
    BY <1>1, <2>1, <2>5 DEF StackOK
  <2>7. GroupsOK'
    <3>1. Severs(refs, refs')
      BY <2>2, SMTT(20) DEF Severs, SearchOK, RefsOK
    <3>2. \A x \in Group : Ends(RefSets(refs), x) => Ends(RefSets(refs'), x)
      BY <3>1, SeveredEnds
    <3> QED  BY <1>1, <1>5, <2>1, <3>2 DEF SearchOK, GroupsOK
  <2>8. SeveredOK'
    <3>1. h \in Group
      BY <1>4, <1>9
    <3>2. reports' \in Seq(Type \cup Group \cup Element \cup Simple) /\ Reported' = Reported \cup {h}
      BY <2>1, <3>1, ReportsGrow DEF SearchOK
    <3>3. OnCycle(g, declared.refs[g][n])
      BY <1>1, <1>3, <1>9, BackEdgeCloses DEF SearchOK
    <3>4. ASSUME NEW x \in Group, NEW i \in 1..Len(refs'[x]), refs'[x][i] = Severed
          PROVE  OnCycle(x, declared.refs[x][i])
      <4>1. CASE x = g /\ i = n
        BY <3>3, <4>1
      <4>2. CASE ~(x = g /\ i = n)
        <5>1. i \in 1..Len(refs[x]) /\ refs[x][i] = Severed
          BY <2>2, <3>4, <4>2
        <5> QED  BY <5>1 DEF SearchOK, SeveredOK
      <4> QED  BY <4>1, <4>2
    <3>5. \E x \in Group : \E i \in 1..Len(refs'[x]) : refs'[x][i] = Severed
      BY <1>2, <1>3, <2>2, <2>3
    <3>6. \A x \in Group : \A i \in 1..Len(refs'[x]) : refs'[x][i] = Severed => OnCycle(x, declared.refs[x][i])'
      BY <1>1, <3>4 DEF OnCycle
    <3> QED  BY <1>1, <3>1, <3>2, <3>5, <3>6 DEF SeveredOK
  <2> QED  BY <2>4, <2>6, <2>7, <2>8 DEF SearchOK
<1>10. CASE h # Severed /\ state[h] = "new"
  <2>1. /\ state' = [state EXCEPT ![h] = "onStack"] /\ stack' = Append(Advanced, [group |-> h, next |-> 1])
        /\ refs' = refs /\ reports' = reports
    BY <1>10 DEF FollowReference, BackEdge
  <2>2. h \in Group
    BY <1>4, <1>10
  <2>3. RefsOK' /\ SeveredOK'
    BY <1>1, <2>1 DEF SearchOK, RefsOK, SeveredOK, OnCycle, Reported
  <2>4. Searching(stack', state') /\ Linked(stack', refs) /\ Passed(stack', state', refs)
    <3>1. (n + 1) - 1 = n /\ refs[g][n] = h
      BY <1>2
    <3> DEFINE adv == Advanced
               hh == h
    <3>2. adv[Len(adv)].next - 1 \in 1..Len(refs[adv[Len(adv)].group]) /\ refs[adv[Len(adv)].group][adv[Len(adv)].next - 1] = hh
      BY <1>3, <1>7, <3>1
    <3>3. Searching(adv, state) /\ Linked(adv, refs) /\ PassedOrNext(adv, state, refs) /\ hh \in Group /\ state[hh] = "new"
      BY <1>7, <1>10, <2>2
    <3>4. state' = [state EXCEPT ![hh] = "onStack"] /\ stack' = Append(adv, [group |-> hh, next |-> 1])
      BY <2>1
    <3> HIDE DEF adv, hh
    <3> QED  BY ONLY <3>2, <3>3, <3>4, PushGroup
  <2>5. StackOK'
    BY <1>1, <2>1, <2>4 DEF StackOK
  <2>6. state'[h] = "onStack" /\ \A x \in Group : x # h => state'[x] = state[x]
    BY <1>6, <2>1, <2>2
  <2>7. GroupsOK'
    <3> HIDE DEF h
    <3> QED  BY <1>1, <1>5, <2>1, <2>6 DEF SearchOK, GroupsOK
  <2> QED  BY <2>3, <2>5, <2>7 DEF SearchOK
<1>11. h = Severed \/ state[h] \in {"new", "onStack", "done"}
  BY <1>4, <1>6
<1>12. h = Severed \/ state[h] = "done" => UNCHANGED <<refs, state, reports>> /\ stack' = Advanced
  BY DEF FollowReference, BackEdge
<1> QED  BY <1>8, <1>9, <1>10, <1>11, <1>12

LEMMA LeaveOK ==
    ASSUME PassOK, SearchOK, LeaveGroup
    PROVE  SearchOK'
<1> DEFINE g == Top.group
<1>1. /\ phase = "groups" /\ stack # << >> /\ Top.next > Len(refs[g])
      /\ state' = [state EXCEPT ![g] = "done"] /\ stack' = SubSeq(stack, 1, Len(stack) - 1)
      /\ UNCHANGED <<declared, refs, schema, phase, todo, reports>>
  BY DEF LeaveGroup
<1>2. /\ g \in Group /\ Top.next \in Nat /\ Top = stack[Len(stack)]
      /\ Len(stack) \in Nat /\ Len(stack) \in 1..Len(stack)
  BY <1>1, TopFrame DEF SearchOK
<1>3. RefsOK' /\ SeveredOK'
  BY <1>1 DEF SearchOK, RefsOK, SeveredOK, OnCycle, Reported
<1>4. Searching(stack', state') /\ Linked(stack', refs) /\ Passed(stack', state', refs)
  BY <1>1, <1>2, PopGroup DEF SearchOK, StackOK
<1>5. StackOK'
  BY <1>1, <1>4 DEF StackOK
<1>6. Ends(RefSets(refs), g)
  <2>1. refs[g] \in Seq(Group \cup {Severed}) /\ Len(refs[g]) \in Nat /\ DOMAIN refs[g] = 1..Len(refs[g])
    BY <1>2 DEF SearchOK, RefsOK
  <2>2. ASSUME NEW k \in 1..Len(refs[g]), refs[g][k] # Severed PROVE Ends(RefSets(refs), refs[g][k])
    <3>1. refs[g][k] \in Group
      BY <2>1, <2>2, ElementOfSeq
    <3>2. k < Top.next
      BY <1>1, <1>2, <2>1
    <3>3. state[refs[g][k]] = "done"
      BY <1>2, <2>2, <3>2 DEF SearchOK, StackOK, Passed
    <3> QED  BY <3>1, <3>3 DEF SearchOK, GroupsOK
  <2>3. g \in DOMAIN RefSets(refs) /\ \A x \in RefSets(refs)[g] : \E k \in 1..Len(refs[g]) : x = refs[g][k] /\ x # Severed
    BY <1>2, <2>1 DEF RefSets
  <2>4. \A x \in RefSets(refs)[g] : Ends(RefSets(refs), x)
    BY <2>2, <2>3
  <2> HIDE DEF g
  <2> QED  BY <2>3, <2>4, EndsByParts
<1>7. state'[g] = "done" /\ \A x \in Group : x # g => state'[x] = state[x]
  BY <1>1, <1>2 DEF SearchOK, StackOK, Searching
<1>8. PendingGroups' = PendingGroups
  BY <1>1, AheadMoves DEF PendingGroups
<1> HIDE DEF g
<1>9. GroupsOK'
  BY <1>1, <1>6, <1>7, <1>8 DEF SearchOK, GroupsOK
<1> QED  BY <1>3, <1>5, <1>9 DEF SearchOK

LEMMA NextSearch == PassOK /\ SimpleOK /\ SearchOK /\ [Next]_vars => SearchOK'
<1> SUFFICES ASSUME PassOK, SimpleOK, SearchOK, [Next]_vars PROVE SearchOK'
  OBVIOUS
<1> USE DEF SearchOK
<1>1. CASE \E g \in Group : VisitGroup(g)
  BY <1>1, VisitOK
<1>2. CASE FollowReference
  BY <1>2, FollowOK
<1>3. CASE LeaveGroup
  BY <1>3, LeaveOK
<1>4. ASSUME UNCHANGED <<declared, refs, state, stack>>, StackOK', GroupsOK',
             \/ reports' = reports
             \/ \E x \in Type \cup Element \cup Simple : reports' = Append(reports, x)
      PROVE  SearchOK'
  <2>1. reports' \in Seq(Type \cup Group \cup Element \cup Simple) /\ Reported' \cap Group = Reported \cap Group
    <3>1. CASE reports' = reports
      BY <3>1 DEF SeveredOK, Reported
    <3>2. ASSUME NEW x \in Type \cup Element \cup Simple, reports' = Append(reports, x)
          PROVE  reports' \in Seq(Type \cup Group \cup Element \cup Simple) /\ Reported' \cap Group = Reported \cap Group
      BY <3>2, ReportsGrow, ComponentsAssumption
    <3> QED  BY <1>4, <3>1, <3>2
  <2>2. RefsOK' /\ SeveredOK'
    BY <1>4, <2>1 DEF RefsOK, SeveredOK, OnCycle
  <2> QED  BY <1>4, <2>2
<1>5. ASSUME UNCHANGED <<declared, refs, schema, phase, state, stack>>, phase = "groups" => UNCHANGED todo,
             \/ reports' = reports
             \/ \E x \in Type \cup Element \cup Simple : reports' = Append(reports, x)
      PROVE  SearchOK'
  <2>1. StackOK'
    BY <1>5 DEF StackOK
  <2>2. GroupsOK'
    BY <1>5, AheadMoves DEF GroupsOK, PendingGroups
  <2> QED  BY <1>4, <1>5, <2>1, <2>2
<1>6. CASE ShellsBuilt
  <2>1. /\ phase = "simple" /\ phase' = "types" /\ schema' = schema /\ schema = 1
        /\ UNCHANGED <<declared, refs, state, stack, reports>>
    BY <1>6 DEF ShellsBuilt, PassOK
  <2>2. PendingGroups = Group /\ Group \subseteq PendingGroups'
    BY <2>1, AheadMoves DEF PendingGroups
  <2>3. StackOK' /\ GroupsOK'
    BY <2>1, <2>2 DEF StackOK, GroupsOK
  <2> QED  BY <1>4, <2>1, <2>3
<1>7. CASE TypesChecked
  <2>1. /\ phase = "types" /\ phase' = "groups" /\ schema' = schema /\ todo' = Schemas[schema] \cap Group
        /\ state' = [g \in Group |-> "new"] /\ UNCHANGED <<declared, refs, stack, reports>> /\ stack = << >>
    BY <1>7 DEF TypesChecked, StackOK
  <2>2. PendingGroups' = PendingGroups
    BY <2>1, AheadMoves DEF PendingGroups
  <2>3. StackOK'
    BY <2>1 DEF StackOK, Searching, Linked, Passed
  <2>4. GroupsOK'
    BY <2>1, <2>2 DEF GroupsOK
  <2>5. RefsOK' /\ SeveredOK'
    BY <2>1 DEF RefsOK, SeveredOK, OnCycle, Reported
  <2> QED  BY <2>3, <2>4, <2>5
<1>8. CASE GroupsChecked
  <2>1. /\ phase = "groups" /\ stack = << >> /\ todo = {} /\ UNCHANGED <<declared, refs, state, stack, reports>>
        /\ phase' \in {"types", "substitution"}
    BY <1>8 DEF GroupsChecked
  <2>2. \A g \in Schemas[schema] \cap Group : Ends(RefSets(refs), g)
    <3>1. \A g \in Group : state[g] \in {"new", "onStack", "done"} /\ state[g] # "onStack"
      BY <2>1 DEF StackOK, Searching
    <3> QED  BY <2>1, <3>1 DEF GroupsOK
  <2>3. \A g \in Group : g \notin PendingGroups' => g \notin Ahead
    <3>1. CASE schema < Len(Schemas)
      BY <1>8, <3>1, AheadMoves DEF GroupsChecked, PendingGroups
    <3>2. CASE ~(schema < Len(Schemas))
      <4>1. schema = Len(Schemas)
        BY <3>2, SchemasAssumption DEF PassOK
      <4> QED  BY <4>1, AheadMoves
    <3> QED  BY <3>1, <3>2
  <2>4. PendingGroups = Schemas[schema] \cup Ahead
    BY <2>1 DEF PendingGroups
  <2>5. StackOK' /\ GroupsOK'
    BY <2>1, <2>2, <2>3, <2>4 DEF StackOK, GroupsOK
  <2> QED  BY <1>4, <2>1, <2>5
<1>9. CASE Finish
  <2>1. /\ phase = "substitution" /\ phase' = "done" /\ UNCHANGED <<declared, refs, state, stack, reports>>
    BY <1>9 DEF Finish
  <2>2. PendingGroups = {}
    BY <2>1 DEF PendingGroups
  <2>3. StackOK' /\ GroupsOK'
    BY <2>1, <2>2 DEF StackOK, GroupsOK
  <2> QED  BY <1>4, <2>1, <2>3
<1>10. CASE \E s \in Simple : BuildSimple(s)
  BY <1>5, <1>10 DEF BuildSimple
<1>11. CASE ResolvePart
  <2> DEFINE s == Sources[Len(Frame.parts) + 1]
  <2>1. IsBuilding(s) => s \in Simple /\ ~Ready(s)
    <3>1. Frames(building, built) /\ DOMAIN building = 1..Len(building)
      BY DEF SimpleOK, BuildingOK, Frames
    <3>2. \A i \in 1..Len(building) : building[i].type \in Simple \ DOMAIN built
      BY <3>1, BuildingTyped
    <3> QED  BY <3>1, <3>2 DEF IsBuilding, Ready
  <2>2. reports' = reports \/ (s \in Simple /\ reports' = Append(reports, s))
    BY <1>11, <2>1 DEF ResolvePart
  <2>3. UNCHANGED <<declared, refs, schema, phase, state, stack, todo>>
    BY <1>11 DEF ResolvePart
  <2> HIDE DEF s
  <2> QED  BY <1>5, <2>2, <2>3
<1>12. CASE CompleteSimple
  BY <1>5, <1>12 DEF CompleteSimple
<1>13. CASE \E t \in Type : CheckType(t)
  <2>1. PICK t \in Type : CheckType(t)
    BY <1>13
  <2>2. reports' = reports \/ \E x \in Type : reports' = Append(reports, x)
    BY <2>1 DEF CheckType, Break, MetAgain
  <2> QED  BY <1>5, <2>1, <2>2 DEF CheckType
<1>14. CASE \E e \in Element : CheckElement(e)
  BY <1>5, <1>14 DEF CheckElement
<1>15. CASE UNCHANGED vars
  BY <1>5, <1>15 DEF vars
<1> QED
  BY <1>1, <1>2, <1>3, <1>6, <1>7, <1>8, <1>9, <1>10, <1>11, <1>12, <1>13, <1>14, <1>15 DEF Next

-----------------------------------------------------------------------------
(* A group that is reached from itself does not end, so something on every *)
(* cycle was severed; and what was severed lies on one.                    *)
LEMMA CyclesSevered ==
    ASSUME PassOK, SearchOK, phase = "done"
    PROVE  GroupsEnd
<1>1. \A g \in Group : Ends(RefSets(refs), g)
  BY DEF SearchOK, GroupsOK, PendingGroups
<1>2. /\ \A g \in Group : refs[g] \in Seq(Group \cup {Severed}) /\ DOMAIN refs[g] = 1..Len(refs[g])
      /\ declared.refs \in [Group -> Seq(Group)]
      /\ \A g \in Group : DOMAIN declared.refs[g] = 1..Len(declared.refs[g])
  BY DefinitionsAssumption DEF SearchOK, RefsOK, PassOK
<1>3. RefSets(refs) \in [Group -> SUBSET Group]
  <2>1. \A g \in Group : \A i \in DOMAIN refs[g] : refs[g][i] \in Group \cup {Severed}
    BY <1>2, ElementOfSeq
  <2> QED  BY <2>1 DEF RefSets
<1>4. \A g \in Group : g \notin GroupReaches(refs, g)
  BY <1>1, <1>3, EndsNotReached
<1>5. ASSUME NEW g \in Group, NEW i \in DOMAIN refs[g], refs[g][i] = Severed
      PROVE  OnCycle(g, declared.refs[g][i]) /\ declared.refs[g][i] \in Group
  <2>1. i \in 1..Len(refs[g]) /\ i \in DOMAIN declared.refs[g]
    BY <1>2, <1>5 DEF SearchOK, RefsOK
  <2>2. declared.refs[g][i] \in Group
    BY <1>2, <2>1, ElementOfSeq
  <2> QED  BY <1>5, <2>1, <2>2 DEF SearchOK, SeveredOK
<1>6. ASSUME \A g \in Group : \A i \in DOMAIN refs[g] : refs[g][i] # Severed
      PROVE  \A g \in Group : g \notin GroupReaches(declared.refs, g)
  <2>1. \A g \in Group : RefSets(refs)[g] = RefSets(declared.refs)[g]
    <3> TAKE g \in Group
    <3>1. DOMAIN refs[g] = DOMAIN declared.refs[g] /\ \A i \in DOMAIN refs[g] : refs[g][i] = declared.refs[g][i]
      BY <1>2, <1>6 DEF SearchOK, RefsOK
    <3> QED  BY <3>1 DEF RefSets
  <2>2. RefSets(refs) = RefSets(declared.refs)
    BY <2>1 DEF RefSets
  <2> QED  BY <1>1, <1>3, <2>2, EndsNotReached
<1>7. ASSUME Reported \cap Group # {} PROVE \E g \in Group : g \in GroupReaches(declared.refs, g)
  <2>1. PICK g \in Group : \E i \in DOMAIN refs[g] : refs[g][i] = Severed
    BY <1>2, <1>7 DEF SearchOK, SeveredOK
  <2> QED  BY <1>5, <2>1 DEF OnCycle
<1>8. ASSUME Reported \cap Group = {} PROVE \A g \in Group : g \notin GroupReaches(declared.refs, g)
  BY <1>2, <1>6, <1>8 DEF SearchOK, SeveredOK
<1> QED  BY <1>4, <1>5, <1>7, <1>8 DEF GroupsEnd, OnCycle

(* Whatever the references and the order they are followed in: when the    *)
(* groups are checked none contains itself any more, only references on a  *)
(* cycle were severed, and an error was reported exactly when there was a  *)
(* cycle (checkGroupCycles: "sever the back-edge so later walks terminate"). *)
THEOREM GroupsAlwaysEnd == Spec => []GroupsEnd
<1>1. Init => PassOK /\ SimpleOK /\ SearchOK
  BY InitTypes, InitSimple, InitSearch
<1>2. (PassOK /\ SimpleOK /\ SearchOK) /\ [Next]_vars => (PassOK /\ SimpleOK /\ SearchOK)'
  BY NextPass, NextSimple, NextSearch
<1>3. PassOK /\ SimpleOK /\ SearchOK => GroupsEnd
  BY CyclesSevered DEF GroupsEnd
<1> QED  BY <1>1, <1>2, <1>3, PTL DEF Spec

-----------------------------------------------------------------------------
(* The derivation cycles: types that are below each other.                 *)
LEMMA ParentsTyped ==
    ASSUME NEW b \in Base
    PROVE  Parents(b) \in [Type -> SUBSET Type] /\ \A x, y \in Type : y \in Parents(b)[x] <=> b[x] = y
<1>1. \A x \in Type : b[x] \in Type \cup {AnyType}
  BY DEF Base
<1> QED  BY <1>1, AnyTypeAssumption DEF Parents

(* What a climb comes by is below the type it began at.                    *)
LEMMA ClimbIsBelow ==
    ASSUME NEW b \in Base, NEW t \in Type, NEW c, Climb(b, t, c), NEW m \in 0..Cardinality(Type), c[m] \in Type,
           NEW n \in 0..Cardinality(Type), m < n, c[n] \in Type
    PROVE  IsBelow(Parents(b), c[n], c[m])
<1> DEFINE N == Cardinality(Type)
           P == Parents(b)
           S == {k \in Nat : m + k + 1 <= N /\ c[m + k + 1] \in Type => IsBelow(P, c[m + k + 1], c[m])}
<1>1. N \in Nat
  BY ComponentsAssumption, FS_CardinalityType
<1>2. ASSUME NEW k \in 1..N, c[k] \in Type PROVE c[k - 1] \in Type /\ c[k] \in P[c[k - 1]]
  <2>1. k - 1 \in 0..N
    BY <1>1
  <2>2. c[k - 1] \in Type \cup {AnyType} /\ c[k] = IF c[k - 1] = AnyType THEN AnyType ELSE b[c[k - 1]]
    BY <2>1 DEF Climb
  <2> QED  BY <1>2, <2>2, AnyTypeAssumption, ParentsTyped
<1>3. P \in [Type -> SUBSET Type]
  BY ParentsTyped
<1> HIDE DEF N, P
<1>4. 0 \in S
  <2> SUFFICES ASSUME m + 0 + 1 <= N, c[m + 0 + 1] \in Type PROVE IsBelow(P, c[m + 0 + 1], c[m])
    OBVIOUS
  <2>1. m + 0 + 1 \in 1..N /\ (m + 0 + 1) - 1 = m
    BY <1>1 DEF N
  <2> QED  BY <1>2, <2>1, PartIsBelow
<1>5. ASSUME NEW k \in Nat, k \in S PROVE k + 1 \in S
  <2> DEFINE j == m + (k + 1) + 1
             i == m + k + 1
  <2> SUFFICES ASSUME j <= N, c[j] \in Type PROVE IsBelow(P, c[j], c[m])
    OBVIOUS
  <2>1. j \in 1..N /\ j - 1 = i /\ i <= N
    BY <1>1 DEF N
  <2> HIDE DEF i, j
  <2>2. c[i] \in Type /\ c[j] \in P[c[i]]
    BY <1>2, <2>1
  <2>3. IsBelow(P, c[i], c[m])
    BY <1>5, <2>1, <2>2 DEF i
  <2>4. IsBelow(P, c[j], c[i])
    BY <2>2, PartIsBelow
  <2> QED  BY <1>3, <2>2, <2>3, <2>4, BelowBelow
<1>6. Nat \subseteq S
  BY <1>4, <1>5, InductionOnNat
<1> DEFINE k == n - m - 1
<1>7. k \in Nat /\ m + k + 1 = n /\ n <= N
  BY <1>1 DEF N
<1> HIDE DEF k
<1> QED  BY <1>6, <1>7 DEF P

LEMMA MetAgainCloses ==
    ASSUME NEW b \in Base, NEW t \in Type, NEW u \in MetAgain(b, t)
    PROVE  u \in Type /\ IsBelow(Parents(b), u, u)
<1> DEFINE c == Chain(b, t)
<1>1. Climb(b, t, c)
  BY ChainClimbs
<1>2. u \in Type
  BY DEF MetAgain
<1>3. PICK n \in 1..Cardinality(Type) : c[n] = u /\ \E m \in 0..(n - 1) : c[m] = u
  BY DEF MetAgain
<1>4. PICK m \in 0..(n - 1) : c[m] = u
  BY <1>3
<1> HIDE DEF c
<1>5. m \in 0..Cardinality(Type) /\ n \in 0..Cardinality(Type) /\ m < n
  BY ComponentsAssumption, FS_CardinalityType
<1> QED  BY <1>1, <1>2, <1>3, <1>4, <1>5, ClimbIsBelow

(* On a cycle that is still inherited no base has been reset.                  *)
LEMMA WholeCycle ==
    ASSUME NEW d \in Base, NEW b \in Base, NEW R, \A t \in Type : b[t] = IF t \in R THEN AnyType ELSE d[t],
           NEW u \in Type, IsBelow(Parents(b), u, u)
    PROVE  u \notin R /\ \A v \in Type : IsBelow(Parents(d), v, u) => v \notin R
<1> DEFINE B == Parents(b)
           D == Parents(d)
           K == {x \in Type : IsBelow(B, u, x)}
<1>1. /\ B \in [Type -> SUBSET Type] /\ D \in [Type -> SUBSET Type]
      /\ \A x, y \in Type : y \in B[x] <=> b[x] = y
      /\ \A x, y \in Type : y \in D[x] <=> d[x] = y
  BY ParentsTyped
<1> HIDE DEF B, D
<1>2. ASSUME NEW x \in K PROVE x \notin R /\ D[x] \subseteq K
  <2>1. PICK w \in B[x] : w = u \/ IsBelow(B, u, w)
    BY <1>1, BelowUnfolds
  <2>2. w \in Type /\ x \in Type /\ b[x] = w
    BY <1>1, <2>1
  <2>3. x \notin R /\ d[x] = w
    BY <2>2, AnyTypeAssumption
  <2>4. IsBelow(B, u, w)
    BY <2>1 DEF B
  <2> QED  BY <1>1, <2>2, <2>3, <2>4
<1>3. K \in SUBSET DOMAIN D /\ ClosedUnder(D, K) /\ u \in K
  BY <1>1, <1>2 DEF ClosedUnder, B
<1>4. ASSUME NEW v \in Type, IsBelow(D, v, u) PROVE v \in K
  <2> HIDE DEF K
  <2>1. D[u] \subseteq K
    BY <1>3 DEF ClosedUnder
  <2> QED  BY <1>3, <1>4, <2>1 DEF IsBelow
<1> QED  BY <1>2, <1>3, <1>4 DEF D

(* A declared cycle from which a climb ends now has a base that was reset. *)
LEMMA BrokenCycle ==
    ASSUME NEW d \in Base, NEW b \in Base, NEW R, \A t \in Type : b[t] = IF t \in R THEN AnyType ELSE d[t],
           NEW t \in Type, IsBelow(Parents(d), t, t), Ends(Parents(b), t)
    PROVE  \E v \in Type \cap R : IsBelow(Parents(d), v, t) /\ IsBelow(Parents(d), t, v)
<1> DEFINE B == Parents(b)
           D == Parents(d)
<1>1. B \in [Type -> SUBSET Type] /\ D \in [Type -> SUBSET Type]
  BY ParentsTyped
<1>2. \A x \in Type : x \notin R => B[x] = D[x]
  BY DEF Parents
<1> HIDE DEF B, D
<1> SUFFICES ASSUME \A v \in Type : IsBelow(D, v, t) /\ IsBelow(D, t, v) => v \notin R PROVE FALSE
  BY DEF D
<1>3. IsBelow(B, t, t)
  <2> SUFFICES ASSUME NEW K \in SUBSET Type, B[t] \subseteq K, ClosedUnder(B, K) PROVE t \in K
    BY <1>1 DEF IsBelow
  <2> DEFINE L == {x \in Type : IsBelow(D, x, t) /\ (IsBelow(D, t, x) => x \in K)}
  <2>1. ASSUME NEW x \in D[t] PROVE x \in L
    <3>1. x \in Type /\ IsBelow(D, x, t)
      BY <1>1, PartIsBelow
    <3>2. D[t] = B[t]
      BY <1>2 DEF D
    <3> QED  BY <3>1, <3>2
  <2>2. ASSUME NEW x \in L, NEW y \in D[x] PROVE y \in L
    <3>1. x \in Type /\ y \in Type /\ IsBelow(D, x, t) /\ IsBelow(D, y, x)
      BY <1>1, PartIsBelow
    <3>2. IsBelow(D, y, t)
      BY <1>1, <3>1, BelowBelow
    <3>3. ASSUME IsBelow(D, t, y) PROVE y \in K
      <4>1. IsBelow(D, t, x)
        BY <1>1, <3>1, <3>3, BelowBelow
      <4>2. x \in K /\ D[x] = B[x]
        BY <1>2, <3>1, <4>1
      <4> QED  BY <4>2 DEF ClosedUnder
    <3> QED  BY <3>1, <3>2, <3>3
  <2>3. L \in SUBSET DOMAIN D /\ ClosedUnder(D, L) /\ D[t] \subseteq L
    BY <1>1, <2>1, <2>2 DEF ClosedUnder
  <2>4. IsBelow(D, t, t)
    BY DEF D
  <2>5. t \in L
    <3> HIDE DEF L
    <3> QED  BY <2>3, <2>4 DEF IsBelow
  <2> QED  BY <2>4, <2>5
<1> QED  BY <1>1, <1>3, EndsNotBelowItself DEF B

(* What is below a type on a cycle is reached in as many steps as there    *)
(* are types, or fewer.                                                    *)
LEMMA CycleSteps ==
    ASSUME NEW b \in Base, NEW t \in Type, IsBelow(Parents(b), t, t), NEW u \in Type, IsBelow(Parents(b), u, t)
    PROVE  \E n \in 1..Cardinality(Type) : Chain(b, t)[n] = u
<1> DEFINE N == Cardinality(Type)
           P == Parents(b)
           c == Chain(b, t)
<1>1. N \in Nat
  BY ComponentsAssumption, FS_CardinalityType
<1>2. P \in [Type -> SUBSET Type] /\ \A x, y \in Type : y \in P[x] <=> b[x] = y
  BY ParentsTyped
<1>3. c[0] = t /\ \A n \in 1..N : c[n] = IF c[n - 1] = AnyType THEN AnyType ELSE b[c[n - 1]]
  BY ChainClimbs DEF Climb
<1> HIDE DEF N, P, c
<1>4. PICK n \in 1..N : \E p : Walk(P, p, n, t, t)
  <2>1. IsBelow(P, t, t) /\ IsFiniteSet(Type)
    BY ComponentsAssumption DEF P
  <2> QED  BY <1>2, <2>1, ShortWalk DEF N
<1>5. PICK p : Walk(P, p, n, t, t)
  BY <1>4
<1>6. p \in [0..n -> Type] /\ p[0] = t /\ p[n] = t /\ \A i \in 1..n : p[i] \in P[p[i - 1]]
  BY <1>2, <1>5 DEF Walk
<1> DEFINE S == {i \in Nat : i <= n => c[i] = p[i]}
<1>7. 0 \in S
  BY <1>3, <1>6
<1>8. ASSUME NEW i \in Nat, i \in S PROVE i + 1 \in S
  <2> SUFFICES ASSUME i + 1 <= n PROVE c[i + 1] = p[i + 1]
    OBVIOUS
  <2>1. i + 1 \in 1..n /\ i + 1 \in 1..N /\ (i + 1) - 1 = i /\ i \in 0..n /\ i + 1 \in 0..n /\ i <= n
    BY <1>1
  <2>2. p[i] \in Type /\ p[i + 1] \in Type /\ p[i + 1] \in P[p[i]] /\ c[i] = p[i]
    BY <1>6, <1>8, <2>1
  <2>3. b[p[i]] = p[i + 1] /\ p[i] # AnyType
    BY <1>2, <2>2, AnyTypeAssumption
  <2>4. c[i + 1] = IF c[i] = AnyType THEN AnyType ELSE b[c[i]]
    BY <1>3, <2>1
  <2> QED  BY <2>2, <2>3, <2>4
<1>9. Nat \subseteq S
  BY <1>7, <1>8, InductionOnNat
<1> DEFINE K == {p[i] : i \in 1..n}
<1>10. ASSUME NEW i \in 0..n PROVE P[p[i]] \subseteq K
  <2>1. PICK j \in 0..(n - 1) : p[i] = p[j]
    <3>1. CASE i = n
      BY <1>6, <3>1
    <3>2. CASE i # n
      BY <3>2
    <3> QED  BY <3>1, <3>2
  <2>2. j + 1 \in 1..n /\ (j + 1) - 1 = j /\ j \in 0..n /\ j + 1 \in 0..n
    OBVIOUS
  <2>3. p[j] \in Type /\ p[j + 1] \in Type /\ p[j + 1] \in P[p[j]]
    BY <1>6, <2>2
  <2>4. P[p[j]] = {p[j + 1]}
    BY <1>2, <2>3
  <2> QED  BY <2>1, <2>2, <2>4
<1>11. K \in SUBSET DOMAIN P /\ ClosedUnder(P, K) /\ P[t] \subseteq K
  <2>1. \A i \in 1..n : i \in 0..n /\ p[i] \in Type
    BY <1>6
  <2> QED  BY <1>2, <1>6, <1>10, <2>1 DEF ClosedUnder
<1>12. u \in K
  <2> HIDE DEF K
  <2> QED  BY <1>11 DEF IsBelow, P
<1>13. PICK i \in 1..n : u = p[i]
  BY <1>12
<1>14. i \in 1..N /\ c[i] = u
  BY <1>1, <1>9, <1>13
<1> QED  BY <1>14 DEF N, c

LEMMA CycleOfIs ==
    ASSUME PassOK, NEW t \in Type
    PROVE  CycleOf(t) = {u \in Type : IsBelow(Parents(declared.base), u, t) /\ IsBelow(Parents(declared.base), t, u)}
<1> DEFINE d == declared.base
           P == Parents(d)
           N == Cardinality(Type)
<1>1. d \in Base
  BY DefinitionsAssumption DEF PassOK, Base
<1> HIDE DEF d
<1>2. P \in [Type -> SUBSET Type] /\ N \in Nat
  BY <1>1, ParentsTyped, ComponentsAssumption, FS_CardinalityType
<1>3. ASSUME NEW x \in Type, NEW y \in Type, NEW n \in 1..N, Chain(d, x)[n] = y PROVE IsBelow(P, y, x)
  <2>1. 0 \in 0..N /\ n \in 0..N /\ 0 < n
    BY <1>2
  <2>2. Climb(d, x, Chain(d, x))
    BY <1>1, ChainClimbs
  <2>3. Chain(d, x)[0] = x
    BY <2>2 DEF Climb
  <2> QED  BY <1>1, <1>3, <2>1, <2>2, <2>3, ClimbIsBelow
<1>4. ASSUME NEW u \in Type, IsBelow(P, u, t), IsBelow(P, t, u)
      PROVE  \E n, m \in 1..N : Chain(d, t)[n] = u /\ Chain(d, u)[m] = t
  <2>1. IsBelow(P, t, t) /\ IsBelow(P, u, u)
    BY <1>2, <1>4, BelowBelow
  <2>2. PICK n \in 1..N : Chain(d, t)[n] = u
    BY <1>1, <1>4, <2>1, CycleSteps
  <2>3. PICK m \in 1..N : Chain(d, u)[m] = t
    BY <1>1, <1>4, <2>1, CycleSteps
  <2> QED  BY <2>2, <2>3
<1>5. CycleOf(t) = {u \in Type : \E n, m \in 1..N : Chain(d, t)[n] = u /\ Chain(d, u)[m] = t}
  BY DEF CycleOf, d
<1>6. ASSUME NEW u \in Type
      PROVE  (\E n, m \in 1..N : Chain(d, t)[n] = u /\ Chain(d, u)[m] = t) <=> (IsBelow(P, u, t) /\ IsBelow(P, t, u))
  BY <1>3, <1>4
<1> QED  BY <1>5, <1>6 DEF d

-----------------------------------------------------------------------------
(* How often something is reported.                                        *)
LEMMA TimesGrow ==
    ASSUME SeveredOK
    PROVE  /\ \A y : Times(y) \in Nat /\ (y \notin Reported => Times(y) = 0)
           /\ \A x \in Type \cup Group \cup Element \cup Simple : reports' = Append(reports, x) =>
                \A y : Times(y)' = (IF y = x THEN Times(y) + 1 ELSE Times(y))
<1> DEFINE C == Type \cup Group \cup Element \cup Simple
           L == Len(reports)
           At(y) == {i \in 1..L : reports[i] = y}
<1>1. reports \in Seq(C) /\ L \in Nat /\ DOMAIN reports = 1..L
  BY DEF SeveredOK
<1> HIDE DEF C, L
<1>2. \A y : Times(y) = Cardinality(At(y))
  BY <1>1 DEF Times
<1>3. \A y : IsFiniteSet(At(y)) /\ Cardinality(At(y)) \in Nat
  <2> TAKE y
  <2>1. IsFiniteSet(1..L)
    BY <1>1, FS_Interval
  <2>2. At(y) \subseteq 1..L
    OBVIOUS
  <2> HIDE DEF At
  <2> QED  BY <2>1, <2>2, FS_Subset, FS_CardinalityType
<1>4. ASSUME NEW y, y \notin Reported PROVE Times(y) = 0
  <2>1. At(y) = {}
    BY <1>1, <1>4 DEF Reported
  <2> QED  BY <1>2, <2>1, FS_EmptySet
<1>5. ASSUME NEW x \in C, reports' = Append(reports, x), NEW y
      PROVE  Times(y)' = (IF y = x THEN Times(y) + 1 ELSE Times(y))
  <2> DEFINE At2 == {i \in 1..(L + 1) : reports'[i] = y}
  <2>1. /\ DOMAIN reports' = 1..(L + 1) /\ reports'[L + 1] = x
        /\ \A i \in 1..L : reports'[i] = reports[i]
    BY <1>1, <1>5 DEF L
  <2>2. 1..(L + 1) = 1..L \cup {L + 1} /\ L + 1 \notin 1..L
    BY <1>1
  <2>3. Times(y)' = Cardinality(At2)
    BY <2>1 DEF Times
  <2>4. At2 = (IF y = x THEN At(y) \cup {L + 1} ELSE At(y)) /\ L + 1 \notin At(y)
    BY <2>1, <2>2
  <2> HIDE DEF At, At2
  <2>5. Cardinality(At(y) \cup {L + 1}) = Cardinality(At(y)) + 1
    BY <1>3, <2>4, FS_AddElement
  <2> QED  BY <1>2, <2>3, <2>4, <2>5
<1> QED  BY <1>2, <1>3, <1>4, <1>5 DEF C

(* A type is reported when its base is reset, once, and only types that    *)
(* are on a declared cycle on which no other was; an element when it is    *)
(* found circular.                                                         *)
PendingElements ==
    CASE phase \in {"simple", "types", "groups"} -> Element
      [] phase = "substitution" -> todo
      [] OTHER -> {}

CountOK ==
    \A e \in Element : Times(e) = IF e \notin PendingElements /\ Circular(e) THEN 1 ELSE 0

OnOneCycle(v, w) == IsBelow(Parents(declared.base), v, w) /\ IsBelow(Parents(declared.base), w, v)

BrokenOK ==
    /\ \A t \in Type : base[t] = IF t \in Reported THEN AnyType ELSE declared.base[t]
    /\ \A t \in Type : Times(t) = IF t \in Reported THEN 1 ELSE 0
    /\ \A t \in Type \cap Reported : OnOneCycle(t, t)
    /\ \A v, w \in Type \cap Reported : OnOneCycle(v, w) => v = w

LEMMA InitBroken == Init => CountOK /\ BrokenOK
<1> SUFFICES ASSUME Init PROVE CountOK /\ BrokenOK
  OBVIOUS
<1>1. reports = << >> /\ phase = "simple" /\ base = declared.base
  BY DEF Init
<1>2. Reported = {} /\ PendingElements = Element
  BY <1>1 DEF Reported, PendingElements
<1>3. \A y : Times(y) = 0
  <2> TAKE y
  <2>1. {i \in DOMAIN reports : reports[i] = y} = {}
    BY <1>1
  <2> QED  BY <2>1, FS_EmptySet DEF Times
<1> QED  BY <1>1, <1>2, <1>3 DEF CountOK, BrokenOK

LEMMA NextBroken ==
    PassOK /\ TypesOK /\ SimpleOK /\ SearchOK /\ CountOK /\ BrokenOK /\ [Next]_vars => CountOK' /\ BrokenOK'
<1> SUFFICES ASSUME PassOK, TypesOK, SimpleOK, SearchOK, CountOK, BrokenOK, [Next]_vars PROVE CountOK' /\ BrokenOK'
  OBVIOUS
<1>1. SeveredOK
  BY DEF SearchOK
<1> DEFINE Stays == \A e \in Element : e \in PendingElements' <=> e \in PendingElements
<1>2. ASSUME UNCHANGED <<declared, base, reports>>, Stays PROVE CountOK' /\ BrokenOK'
  <2>3. \A y : Times(y)' = Times(y)
    BY <1>2 DEF Times
  <2>4. \A e \in Element : Circular(e)' <=> Circular(e)
    BY <1>2 DEF Circular, Reached
  <2>1. CountOK'
    BY <1>2, <2>3, <2>4 DEF CountOK
  <2>2. BrokenOK'
    BY <1>2, <2>3 DEF BrokenOK, Reported, OnOneCycle
  <2> QED  BY <2>1, <2>2
<1>3. ASSUME UNCHANGED <<declared, base>>, Stays, NEW x \in Simple \cup Group, reports' = Append(reports, x)
      PROVE  CountOK' /\ BrokenOK'
  <2>1. x \notin Type /\ x \notin Element
    BY ComponentsAssumption
  <2>2. Reported' = Reported \cup {x} /\ \A y : y # x => Times(y)' = Times(y)
    BY <1>1, <1>3, ReportsGrow, TimesGrow
  <2>3. \A e \in Element : Times(e)' = Times(e)
    BY <2>1, <2>2
  <2>4. CountOK'
    BY <1>3, <2>3 DEF CountOK, Circular, Reached
  <2>5. \A t \in Type : Times(t)' = Times(t) /\ (t \in Reported' <=> t \in Reported)
    BY <2>1, <2>2
  <2>6. BrokenOK'
    BY <1>3, <2>5 DEF BrokenOK, OnOneCycle
  <2> QED  BY <2>4, <2>6
<1>4. ASSUME NEW t \in Type, CheckType(t) PROVE CountOK' /\ BrokenOK'
  <2>1. phase = "types" /\ UNCHANGED <<declared, phase>>
    BY <1>4 DEF CheckType
  <2>2. Stays
    BY <2>1 DEF PendingElements
  <2>3. CASE MetAgain(base, t) = {}
    <3>1. UNCHANGED <<base, reports>>
      BY <1>4, <2>3 DEF CheckType
    <3> QED  BY <1>2, <2>1, <2>2, <3>1
  <2>4. CASE MetAgain(base, t) # {}
    <3>1. PICK u \in MetAgain(base, t) : base' = [base EXCEPT ![u] = AnyType] /\ reports' = Append(reports, u)
      BY <1>4, <2>4 DEF CheckType, Break, ResetBase
    <3>2. base \in Base /\ declared.base \in Base
      BY DefinitionsAssumption DEF TypesOK, PassOK, Base
    <3>3. u \in Type /\ IsBelow(Parents(base), u, u)
      BY <3>2, MetAgainCloses
    <3>4. u \notin Reported /\ \A v \in Type : IsBelow(Parents(declared.base), v, u) => v \notin Reported
      <4>1. \A x \in Type : base[x] = IF x \in Reported THEN AnyType ELSE declared.base[x]
        BY DEF BrokenOK
      <4> QED  BY <3>2, <3>3, <4>1, WholeCycle
    <3>5. IsBelow(Parents(declared.base), u, u)
      <4>1. \A x \in Type : Parents(base)[x] \subseteq Parents(declared.base)[x]
        BY DEF BrokenOK, Parents
      <4>2. DOMAIN Parents(base) = Type /\ DOMAIN Parents(declared.base) = Type
        BY DEF Parents
      <4> QED  BY <3>3, <4>1, <4>2, BelowWithMore
    <3>6. /\ Reported' = Reported \cup {u}
          /\ \A y : Times(y)' = (IF y = u THEN Times(y) + 1 ELSE Times(y))
      BY <1>1, <3>1, <3>3, ReportsGrow, TimesGrow
    <3>7. \A x \in Type : base'[x] = IF x = u THEN AnyType ELSE base[x]
      BY <3>1, <3>2 DEF Base
    <3>8. \A x \in Type : base'[x] = IF x \in Reported' THEN AnyType ELSE declared.base[x]
      BY <3>6, <3>7 DEF BrokenOK
    <3>9. \A x \in Type : Times(x)' = IF x \in Reported' THEN 1 ELSE 0
      BY <3>4, <3>6 DEF BrokenOK
    <3>10. \A x \in Type \cap Reported' : OnOneCycle(x, x)
      BY <3>5, <3>6 DEF BrokenOK, OnOneCycle
    <3>11. \A v, w \in Type \cap Reported' : OnOneCycle(v, w) => v = w
      BY <3>4, <3>6 DEF BrokenOK, OnOneCycle
    <3>12. BrokenOK'
      BY <2>1, <3>8, <3>9, <3>10, <3>11 DEF BrokenOK, OnOneCycle
    <3>13. \A e \in Element : Times(e)' = Times(e)
      BY <3>3, <3>6, ComponentsAssumption
    <3>14. CountOK'
      BY <2>1, <2>2, <3>13 DEF CountOK, Circular, Reached
    <3> QED  BY <3>12, <3>14
  <2> QED  BY <2>3, <2>4
<1>5. ASSUME NEW e \in Element, CheckElement(e) PROVE CountOK' /\ BrokenOK'
  <2>1. /\ phase = "substitution" /\ e \in todo /\ todo' = todo \ {e} /\ UNCHANGED <<declared, base, phase>>
        /\ reports' = IF Circular(e) THEN Append(reports, e) ELSE reports
    BY <1>5 DEF CheckElement
  <2>2. PendingElements = todo /\ PendingElements' = todo \ {e}
    BY <2>1 DEF PendingElements
  <2>3. \A x \in Element : Circular(x)' <=> Circular(x)
    BY <2>1 DEF Circular, Reached
  <2>4. CASE Circular(e)
    <3>1. /\ Reported' = Reported \cup {e}
          /\ \A y : Times(y)' = (IF y = e THEN Times(y) + 1 ELSE Times(y))
      BY <1>1, <2>1, <2>4, ReportsGrow, TimesGrow
    <3>2. Times(e) = 0
      BY <2>1, <2>2 DEF CountOK
    <3>3. CountOK'
      <4>1. ASSUME NEW x \in Element PROVE Times(x)' = IF x \notin PendingElements' /\ Circular(x) THEN 1 ELSE 0
        <5>1. CASE x = e
          <6>1. Times(x)' = 1
            BY <3>1, <3>2, <5>1
          <6> QED  BY <2>2, <2>4, <5>1, <6>1
        <5>2. CASE x # e
          <6>1. Times(x)' = Times(x) /\ (x \in PendingElements' <=> x \in PendingElements)
            BY <2>2, <3>1, <5>2
          <6> QED  BY <6>1 DEF CountOK
        <5> QED  BY <5>1, <5>2
      <4> QED  BY <2>3, <4>1 DEF CountOK
    <3>4. \A t \in Type : Times(t)' = Times(t) /\ (t \in Reported' <=> t \in Reported)
      BY <3>1, ComponentsAssumption
    <3>5. BrokenOK'
      BY <2>1, <3>4 DEF BrokenOK, OnOneCycle
    <3> QED  BY <3>3, <3>5
  <2>5. CASE ~Circular(e)
    <3>1. reports' = reports
      BY <2>1, <2>5
    <3>2. CountOK'
      BY <2>2, <2>3, <2>5, <3>1 DEF CountOK, Times
    <3>3. BrokenOK'
      BY <2>1, <3>1 DEF BrokenOK, Times, Reported, OnOneCycle
    <3> QED  BY <3>2, <3>3
  <2> QED  BY <2>4, <2>5
<1>6. CASE GroupsChecked
  <2>1. phase = "groups" /\ UNCHANGED <<declared, base, reports>>
    BY <1>6 DEF GroupsChecked
  <2>2. phase' = "types" \/ (phase' = "substitution" /\ todo' = Element)
    BY <1>6 DEF GroupsChecked
  <2>3. Stays
    BY <2>1, <2>2 DEF PendingElements
  <2> QED  BY <1>2, <2>1, <2>3
<1>7. CASE Finish
  <2>1. phase = "substitution" /\ todo = {} /\ phase' = "done" /\ UNCHANGED <<declared, base, reports>>
    BY <1>7 DEF Finish
  <2>2. Stays
    BY <2>1 DEF PendingElements
  <2> QED  BY <1>2, <2>1, <2>2
<1>8. CASE ShellsBuilt \/ TypesChecked
  <2>1. phase \in {"simple", "types"} /\ phase' \in {"types", "groups"} /\ UNCHANGED <<declared, base, reports>>
    BY <1>8 DEF ShellsBuilt, TypesChecked
  <2>2. Stays
    BY <2>1 DEF PendingElements
  <2> QED  BY <1>2, <2>1, <2>2
<1>9. CASE (\E s \in Simple : BuildSimple(s)) \/ CompleteSimple \/ (\E g \in Group : VisitGroup(g)) \/ LeaveGroup
  <2>1. phase \in {"simple", "groups"} /\ UNCHANGED <<phase, declared, base, reports>>
    BY <1>9 DEF BuildSimple, CompleteSimple, VisitGroup, LeaveGroup
  <2>2. Stays
    BY <2>1 DEF PendingElements
  <2> QED  BY <1>2, <2>1, <2>2
<1>10. CASE FollowReference
  <2>1. phase = "groups" /\ UNCHANGED <<phase, declared, base>> /\ stack # << >> /\ Top.next <= Len(refs[Top.group])
    BY <1>10 DEF FollowReference
  <2>2. Stays
    BY <2>1 DEF PendingElements
  <2> DEFINE h == refs[Top.group][Top.next]
  <2>3. h \in Group \cup {Severed}
    <3>1. Top.group \in Group /\ Top.next \in Nat \ {0}
      BY <2>1, TopFrame DEF SearchOK
    <3>2. refs[Top.group] \in Seq(Group \cup {Severed}) /\ Top.next \in 1..Len(refs[Top.group])
      BY <2>1, <3>1 DEF SearchOK, RefsOK
    <3> QED  BY <3>2, ElementOfSeq
  <2>4. reports' = reports \/ (h # Severed /\ reports' = Append(reports, h))
    BY <1>10 DEF FollowReference
  <2> HIDE DEF h
  <2> QED  BY <1>2, <1>3, <2>1, <2>2, <2>3, <2>4
<1>11. CASE ResolvePart
  <2> DEFINE s == Sources[Len(Frame.parts) + 1]
  <2>1. IsBuilding(s) => s \in Simple /\ ~Ready(s)
    <3>1. Frames(building, built) /\ DOMAIN building = 1..Len(building)
      BY DEF SimpleOK, BuildingOK, Frames
    <3>2. \A i \in 1..Len(building) : building[i].type \in Simple \ DOMAIN built
      BY <3>1, BuildingTyped
    <3> QED  BY <3>1, <3>2 DEF IsBuilding, Ready
  <2>2. reports' = reports \/ (s \in Simple /\ reports' = Append(reports, s))
    BY <1>11, <2>1 DEF ResolvePart
  <2>3. phase = "simple" /\ UNCHANGED <<phase, declared, base>>
    BY <1>11 DEF ResolvePart
  <2>4. Stays
    BY <2>3 DEF PendingElements
  <2> HIDE DEF s
  <2> QED  BY <1>2, <1>3, <2>2, <2>3, <2>4
<1>12. CASE UNCHANGED vars
  <2>1. UNCHANGED <<declared, base, reports, phase, todo>>
    BY <1>12 DEF vars
  <2>2. Stays
    BY <2>1 DEF PendingElements
  <2> QED  BY <1>2, <2>1, <2>2
<1> QED
  BY <1>4, <1>5, <1>6, <1>7, <1>8, <1>9, <1>10, <1>11, <1>12 DEF Next

(* Of each cycle exactly one type is reported: two would be the same, and  *)
(* none would leave the climb without an end.                              *)
LEMMA OneOfEachCycle ==
    ASSUME PassOK, TypesOK, BrokenOK, phase = "done"
    PROVE  OneReportPerCycle
<1> DEFINE D == Parents(declared.base)
<1>1. base \in Base /\ declared.base \in Base /\ \A t \in Type : Ends(Parents(base), t)
  BY DefinitionsAssumption DEF TypesOK, PendingTypes, PassOK, Base
<1>2. D \in [Type -> SUBSET Type]
  BY <1>1, ParentsTyped
<1>3. \A t, u \in Type : u \in CycleOf(t) <=> OnOneCycle(u, t)
  BY CycleOfIs DEF OnOneCycle
<1>4. \A t \in Type : CycleOf(t) \subseteq Type
  BY DEF CycleOf
<1>5. ASSUME NEW x \in Type, NEW y \in Type, NEW z \in Type, OnOneCycle(x, y), OnOneCycle(y, z) PROVE OnOneCycle(x, z)
  <2>1. IsBelow(D, x, z)
    BY <1>2, <1>5, BelowBelow DEF OnOneCycle
  <2>2. IsBelow(D, z, x)
    BY <1>2, <1>5, BelowBelow DEF OnOneCycle
  <2> QED  BY <2>1, <2>2 DEF OnOneCycle
<1>6. ASSUME NEW t \in Type, CycleOf(t) # {} PROVE Cardinality(CycleOf(t) \cap Reported) = 1 /\ Times(t) <= 1
  <2>1. PICK u \in Type : OnOneCycle(u, t)
    BY <1>3, <1>4, <1>6
  <2>2. OnOneCycle(t, u)
    BY <2>1 DEF OnOneCycle
  <2>3. OnOneCycle(t, t)
    BY <1>5, <2>1, <2>2
  <2>4. PICK v \in Type \cap Reported : OnOneCycle(v, t)
    <3>1. \A x \in Type : base[x] = IF x \in Reported THEN AnyType ELSE declared.base[x]
      BY DEF BrokenOK
    <3>2. IsBelow(Parents(declared.base), t, t) /\ Ends(Parents(base), t)
      BY <1>1, <2>3 DEF OnOneCycle
    <3>3. \E v \in Type \cap Reported : IsBelow(D, v, t) /\ IsBelow(D, t, v)
      BY <1>1, <3>1, <3>2, BrokenCycle
    <3> QED  BY <3>3 DEF OnOneCycle
  <2>5. ASSUME NEW w \in Type \cap Reported, OnOneCycle(w, t) PROVE w = v
    <3>1. OnOneCycle(t, v)
      BY <2>4 DEF OnOneCycle
    <3>2. OnOneCycle(w, v)
      BY <1>5, <2>5, <3>1
    <3> QED  BY <3>2 DEF BrokenOK
  <2>6. CycleOf(t) \cap Reported = {v}
    BY <1>3, <1>4, <2>4, <2>5
  <2>7. Times(t) <= 1
    BY DEF BrokenOK
  <2> QED  BY <2>6, <2>7, FS_Singleton
<1>7. ASSUME NEW t \in Type, base[t] # declared.base[t] PROVE t \in CycleOf(t)
  BY <1>3, <1>7 DEF BrokenOK
<1> QED  BY <1>6, <1>7 DEF OneReportPerCycle

-----------------------------------------------------------------------------
(* An element is circular as the code finds it when a path leads from it   *)
(* through heads back to it.                                               *)
LEMMA ReachedSpreads ==
    ASSUME NEW e \in Element, declared.heads \in [Element -> SUBSET Element]
    PROVE  \E c : /\ Spreads(declared.heads, declared.heads[e], Cardinality(Element), c)
                  /\ Reached(e) = c[Cardinality(Element)]
<1> DEFINE G == declared.heads
           N == Cardinality(Element)
           Is(c) == c = [n \in 0..N |-> IF n = 0 THEN G[e] ELSE c[n - 1] \cup UNION {G[h] : h \in c[n - 1]}]
           d == CHOOSE c : Is(c)
<1>1. N \in Nat
  BY ComponentsAssumption, FS_CardinalityType
<1>2. Reached(e) = d[N]
  BY DEF Reached
<1>3. DOMAIN G = Element /\ \A h \in Element : G[h] \subseteq Element
  OBVIOUS
<1> HIDE DEF N, G
<1>4. PICK c : Spreads(G, G[e], N, c) /\ c = [n \in 0..N |-> c[n]]
  BY ONLY <1>1, SpreadExists
<1>5. \A n \in 0..N : c[n] \subseteq Element
  <2>1. G[e] \subseteq Element /\ \A v \in Element \cap DOMAIN G : G[v] \subseteq Element
    BY <1>3
  <2> QED  BY ONLY <1>1, <1>4, <2>1, SpreadWithin
<1>6. ASSUME NEW S \in SUBSET Element PROVE Onward(G, S) = S \cup UNION {G[h] : h \in S}
  BY <1>3 DEF Onward
<1>7. ASSUME NEW n \in 0..N
      PROVE  c[n] = IF n = 0 THEN G[e] ELSE c[n - 1] \cup UNION {G[h] : h \in c[n - 1]}
  <2>1. CASE n = 0
    BY <1>4, <2>1 DEF Spreads
  <2>2. CASE n # 0
    <3>1. n \in 1..N /\ n - 1 \in 0..N
      BY <1>1, <2>2
    <3>2. c[n] = Onward(G, c[n - 1]) /\ c[n - 1] \subseteq Element
      BY <1>4, <1>5, <3>1 DEF Spreads
    <3> QED  BY <1>6, <2>2, <3>2
  <2> QED  BY <2>1, <2>2
<1>8. Is(d)
  <2>1. Is(c)
    BY <1>4, <1>7
  <2> QED  BY <2>1
<1> HIDE DEF d
<1>9. DOMAIN d = 0..N /\ d[0] = G[e] /\ \A n \in 1..N : d[n] = d[n - 1] \cup UNION {G[h] : h \in d[n - 1]}
  <2>1. 0 \in 0..N /\ \A n \in 1..N : n \in 0..N /\ n # 0
    BY <1>1
  <2> QED  BY <1>8, <2>1
<1> HIDE DEF Is
<1>10. \A n \in 0..N : d[n] \subseteq Element
  <2> DEFINE S == {n \in Nat : n \in 0..N => d[n] \subseteq Element}
  <2>1. 0 \in S
    BY <1>3, <1>9
  <2>2. ASSUME NEW n \in Nat, n \in S PROVE n + 1 \in S
    <3> SUFFICES ASSUME n + 1 \in 0..N PROVE d[n + 1] \subseteq Element
      OBVIOUS
    <3>1. n \in 0..N /\ n + 1 \in 1..N /\ (n + 1) - 1 = n
      BY <1>1
    <3>2. d[n + 1] = d[n] \cup UNION {G[h] : h \in d[n]} /\ d[n] \subseteq Element
      BY <1>9, <2>2, <3>1
    <3> QED  BY <1>3, <3>2
  <2>3. Nat \subseteq S
    BY <2>1, <2>2, InductionOnNat
  <2> QED  BY <2>3, <1>1
<1>11. ASSUME NEW n \in 1..N PROVE d[n] = Onward(G, d[n - 1])
  <2>1. n - 1 \in 0..N
    BY <1>1
  <2> QED  BY <1>6, <1>9, <1>10, <2>1
<1>12. Spreads(G, G[e], N, d)
  BY <1>9, <1>11 DEF Spreads
<1> QED  BY <1>2, <1>12 DEF N, G

LEMMA CircularIsOnPath ==
    ASSUME PassOK, NEW e \in Element
    PROVE  Circular(e) <=> OnPath(e)
<1> DEFINE G == declared.heads
           N == Cardinality(Element)
<1>1. G \in [Element -> SUBSET Element] /\ IsFiniteSet(Element) /\ N \in Nat
  BY DefinitionsAssumption, ComponentsAssumption, FS_CardinalityType DEF PassOK
<1>2. PICK c : Spreads(G, G[e], N, c) /\ Reached(e) = c[N]
  BY <1>1, ReachedSpreads
<1>3. OnPath(e) <=> \E n \in 1..N : \E p : Walk(G, p, n, e, e)
  BY <1>1 DEF OnPath, Walk
<1> HIDE DEF G, N
<1>4. ASSUME e \in c[N] PROVE OnPath(e)
  <2>1. IsBelow(G, e, e)
    <3> SUFFICES ASSUME NEW K \in SUBSET DOMAIN G, G[e] \subseteq K, ClosedUnder(G, K) PROVE e \in K
      BY DEF IsBelow
    <3>1. \A v \in K \cap DOMAIN G : G[v] \subseteq K
      BY DEF ClosedUnder
    <3>2. \A n \in 0..N : c[n] \subseteq K
      BY <1>1, <1>2, <3>1, SpreadWithin
    <3> QED  BY <1>1, <1>4, <3>2
  <2>2. \E n \in 1..Cardinality(Element) : \E p : Walk(G, p, n, e, e)
    BY <1>1, <2>1, ShortWalk
  <2> QED  BY <1>3, <2>2 DEF N
<1>5. ASSUME NEW n \in 1..N, NEW p, Walk(G, p, n, e, e) PROVE e \in c[N]
  BY <1>1, <1>2, <1>5, WalkSpreads
<1> QED  BY <1>2, <1>3, <1>4, <1>5 DEF Circular

(* Whatever the definitions, the schemas and the order of the checks: of   *)
(* each derivation cycle one type is reported, once, and only types on a   *)
(* cycle lose their base; and an element is reported, once, exactly when   *)
(* heads lead from it back to it (checkTypeCycles: "Cycles are reported    *)
(* once", checkSubstitutionCycles).                                        *)
THEOREM ReportsAlwaysExact == Spec => []ReportsExact
<1> DEFINE Inv == PassOK /\ TypesOK /\ SimpleOK /\ SearchOK /\ CountOK /\ BrokenOK
<1>1. Init => Inv
  BY InitTypes, InitSimple, InitSearch, InitBroken
<1>2. Inv /\ [Next]_vars => Inv'
  BY NextPass, NextTypes, NextSimple, NextSearch, NextBroken
<1>3. Inv => ReportsExact
  <2>1. Inv /\ phase = "done" => SubstitutionExact
    <3> SUFFICES ASSUME Inv, phase = "done", NEW e \in Element PROVE Times(e) = (IF OnPath(e) THEN 1 ELSE 0)
      BY DEF SubstitutionExact
    <3>1. PendingElements = {}
      BY DEF PendingElements
    <3>2. Circular(e) <=> OnPath(e)
      BY CircularIsOnPath
    <3> QED  BY <3>1, <3>2 DEF CountOK
  <2>2. phase # "done" => OneReportPerCycle /\ SubstitutionExact
    BY DEF OneReportPerCycle, SubstitutionExact
  <2> QED  BY <2>1, <2>2, OneOfEachCycle DEF ReportsExact
<1> HIDE DEF Inv
<1> QED  BY <1>1, <1>2, <1>3, PTL DEF Spec

-----------------------------------------------------------------------------
(* Simple types: what the documents say of them, as a relation.            *)
PartsIn(d) == [s \in Simple |-> {d.simple[s].of[i] : i \in DOMAIN d.simple[s].of}]
SimpleIn(d) == [s \in Simple |-> PartsIn(d)[s] \cap Simple]
KeptIn(d, R) == [s \in Simple |-> SimpleIn(d)[s] \ R]

(* What PartsReach finds among the simple types is what is below the type. *)
LEMMA ReachIsAllBelow ==
    ASSUME NEW P, DOMAIN P = Simple, NEW Q, Q = [u \in Simple |-> P[u] \cap Simple],
           NEW s \in Simple, NEW v \in Simple
    PROVE  v \in PartsReach(P, s) <=> IsBelow(Q, v, s)
<1> DEFINE N == Cardinality(Simple)
<1>1. N \in Nat
  BY ComponentsAssumption, FS_CardinalityType
<1>2. PICK c : Spreads(P, P[s], N, c) /\ PartsReach(P, s) = c[N]
  BY ReachSpreads
<1>3. Q \in [Simple -> SUBSET Simple] /\ \A x \in Simple : Q[x] = P[x] \cap Simple
  OBVIOUS
<1>4. ASSUME v \in PartsReach(P, s) PROVE IsBelow(Q, v, s)
  <2> DEFINE W == UNION {P[u] : u \in Simple}
  <2> SUFFICES ASSUME NEW K \in SUBSET Simple, Q[s] \subseteq K, ClosedUnder(Q, K) PROVE v \in K
    BY <1>3 DEF IsBelow
  <2> DEFINE L == K \cup (W \ Simple)
  <2>1. P[s] \subseteq L
    BY <1>3
  <2>2. \A x \in L \cap DOMAIN P : P[x] \subseteq L
    BY <1>3 DEF ClosedUnder
  <2> HIDE DEF L, N
  <2>3. \A n \in 0..N : c[n] \subseteq L
    BY <1>1, <1>2, <2>1, <2>2, SpreadWithin
  <2> QED  BY <1>1, <1>2, <1>4, <2>3 DEF L
<1>5. ASSUME IsBelow(Q, v, s) PROVE v \in PartsReach(P, s)
  <2>1. PICK n \in 1..N : \E p : Walk(Q, p, n, s, v)
    BY <1>3, <1>5, ComponentsAssumption, ShortWalk
  <2>2. PICK p : Walk(Q, p, n, s, v)
    BY <2>1
  <2>3. DOMAIN Q = DOMAIN P /\ \A x \in DOMAIN P : Q[x] \subseteq P[x]
    BY <1>3
  <2>4. s \in DOMAIN P
    OBVIOUS
  <2> HIDE DEF N
  <2> QED  BY ONLY <1>1, <1>2, <2>1, <2>2, <2>3, <2>4, WalkSpreads
<1> QED  BY <1>4, <1>5

LEMMA PartsTyped ==
    ASSUME NEW d \in Definitions, NEW s \in Simple
    PROVE  /\ d.simple[s].by \in {"restriction", "list", "union"} /\ d.simple[s].of \in Seq(Part)
           /\ d.simple[s].by # "union" => Len(d.simple[s].of) = 1
           /\ PartsIn(d)[s] = {d.simple[s].of[k] : k \in 1..Len(d.simple[s].of)}
           /\ PartsIn(d)[s] \subseteq Part
           /\ \A k \in 1..Len(d.simple[s].of) : d.simple[s].of[k] \in Simple => d.simple[s].of[k] \in SimpleIn(d)[s]
           /\ SimpleIn(d) \in [Simple -> SUBSET Simple]
<1>1. d.simple[s] \in Derived
  BY DefinitionsAssumption
<1>2. d.simple[s].by \in {"restriction", "list", "union"} /\ d.simple[s].of \in Seq(Part)
  BY <1>1 DEF Derived, Part
<1>3. d.simple[s].by # "union" => Len(d.simple[s].of) = 1
  BY <1>2, DefinitionsAssumption
<1>4. DOMAIN d.simple[s].of = 1..Len(d.simple[s].of) /\ \A k \in 1..Len(d.simple[s].of) : d.simple[s].of[k] \in Part
  BY <1>2, ElementOfSeq
<1>5. PartsIn(d)[s] = {d.simple[s].of[k] : k \in 1..Len(d.simple[s].of)}
  BY <1>4 DEF PartsIn
<1>6. SimpleIn(d)[s] = PartsIn(d)[s] \cap Simple /\ SimpleIn(d) \in [Simple -> SUBSET Simple]
  BY DEF SimpleIn
<1> QED  BY <1>2, <1>3, <1>4, <1>5, <1>6

-----------------------------------------------------------------------------
(* The frames follow the documents: a part is the source it stands for, or *)
(* stands in for one of those reported, R; the source a frame waits for is *)
(* the type of the next frame.                                             *)
SimpleFrame == [type : Simple, parts : Seq(Part)]

Follows(d, stk, R) ==
    \A i \in 1..Len(stk) :
        LET of == d.simple[stk[i].type].of
            n  == Len(stk[i].parts)
        IN  /\ n <= Len(of)
            /\ \A k \in 1..n : stk[i].parts[k] = of[k] \/ of[k] \in R
            /\ i < Len(stk) => n < Len(of) /\ of[n + 1] = stk[i + 1].type

LEMMA PartGiven ==
    ASSUME NEW stk \in Seq(SimpleFrame), stk # << >>, NEW p \in Part, NEW n, n = Len(stk)
    PROVE  /\ WithPart(stk, p) \in Seq(SimpleFrame) /\ Len(WithPart(stk, p)) = n
           /\ WithPart(stk, p)[n].type = stk[n].type /\ WithPart(stk, p)[n].parts = Append(stk[n].parts, p)
           /\ \A i \in 1..(n - 1) : WithPart(stk, p)[i] = stk[i]
           /\ n \in Nat \ {0} /\ stk[n].type \in Simple /\ stk[n].parts \in Seq(Part)
<1> DEFINE f == [stk[n] EXCEPT !.parts = Append(@, p)]
           new == [stk EXCEPT ![n] = f]
<1>1. n \in 1..n /\ n \in Nat \ {0}
  OBVIOUS
<1>2. stk[n] \in SimpleFrame
  BY ONLY <1>1, stk \in Seq(SimpleFrame), n = Len(stk), ElementOfSeq
<1>3. f \in SimpleFrame /\ f.type = stk[n].type /\ f.parts = Append(stk[n].parts, p)
  <2>1. stk[n].parts \in Seq(Part) /\ stk[n] \in SimpleFrame /\ p \in Part
    BY <1>2 DEF SimpleFrame
  <2>2. Append(stk[n].parts, p) \in Seq(Part)
    BY ONLY <2>1
  <2> QED  BY ONLY <2>1, <2>2 DEF SimpleFrame
<1>4. WithPart(stk, p) = new
  BY DEF WithPart
<1> HIDE DEF f
<1>5. /\ new \in Seq(SimpleFrame) /\ Len(new) = n /\ new[n] = f
      /\ \A i \in 1..(n - 1) : new[i] = stk[i]
  BY <1>1, <1>3
<1> HIDE DEF new
<1> QED  BY <1>1, <1>2, <1>3, <1>4, <1>5 DEF SimpleFrame

LEMMA FollowsPart ==
    ASSUME NEW d \in Definitions, NEW stk \in Seq(SimpleFrame), stk # << >>, NEW R, Follows(d, stk, R),
           NEW n, n = Len(stk), NEW m, m = Len(stk[n].parts) + 1, m <= Len(d.simple[stk[n].type].of),
           NEW p \in Part, NEW R2, R \subseteq R2,
           p = d.simple[stk[n].type].of[m] \/ d.simple[stk[n].type].of[m] \in R2
    PROVE  Follows(d, WithPart(stk, p), R2)
<1> DEFINE new == WithPart(stk, p)
           of  == d.simple[stk[n].type].of
<1>1. /\ Len(new) = n /\ new[n].type = stk[n].type /\ new[n].parts = Append(stk[n].parts, p)
      /\ \A i \in 1..(n - 1) : new[i] = stk[i]
      /\ n \in Nat \ {0} /\ stk[n].type \in Simple /\ stk[n].parts \in Seq(Part)
  <2>1. /\ Len(WithPart(stk, p)) = n
        /\ WithPart(stk, p)[n].type = stk[n].type /\ WithPart(stk, p)[n].parts = Append(stk[n].parts, p)
        /\ \A i \in 1..(n - 1) : WithPart(stk, p)[i] = stk[i]
        /\ n \in Nat \ {0} /\ stk[n].type \in Simple /\ stk[n].parts \in Seq(Part)
    <3>1. Len(WithPart(stk, p)) = n /\ WithPart(stk, p)[n].type = stk[n].type
      BY PartGiven
    <3>2. WithPart(stk, p)[n].parts = Append(stk[n].parts, p)
      BY PartGiven
    <3>3. \A i \in 1..(n - 1) : WithPart(stk, p)[i] = stk[i]
      BY PartGiven
    <3>4. n \in Nat \ {0} /\ stk[n].type \in Simple /\ stk[n].parts \in Seq(Part)
      BY PartGiven
    <3> QED  BY <3>1, <3>2, <3>3, <3>4
  <2> QED  BY <2>1
<1> HIDE DEF new
<1>2. /\ Len(new[n].parts) = m /\ m \in Nat \ {0} /\ new[n].parts[m] = p
      /\ \A k \in 1..(m - 1) : new[n].parts[k] = stk[n].parts[k]
  BY <1>1
<1>3. \A k \in 1..m : k = m \/ k \in 1..(m - 1)
  BY <1>2
<1>4. \A k \in 1..(m - 1) : stk[n].parts[k] = of[k] \/ of[k] \in R
  BY <1>1 DEF Follows
<1>5. \A k \in 1..m : new[n].parts[k] = of[k] \/ of[k] \in R2
  BY <1>2, <1>3, <1>4
<1>6. \A i \in 1..(n - 1) : i \in 1..n /\ i < n /\ new[i + 1].type = stk[i + 1].type
  <2>1. \A i \in 1..(n - 1) : i \in 1..n /\ i < n /\ (i + 1 = n \/ i + 1 \in 1..(n - 1))
    BY <1>1
  <2> QED  BY <1>1, <2>1
<1>7. ASSUME NEW i \in 1..(n - 1)
      PROVE  LET o == d.simple[new[i].type].of
                 l == Len(new[i].parts)
             IN  /\ l <= Len(o) /\ \A k \in 1..l : new[i].parts[k] = o[k] \/ o[k] \in R2
                 /\ l < Len(o) /\ o[l + 1] = new[i + 1].type
  BY <1>1, <1>6 DEF Follows
<1>8. \A i \in 1..Len(new) : i = n \/ i \in 1..(n - 1)
  BY <1>1
<1> HIDE DEF of
<1>9. \A i \in 1..Len(new) : i < Len(new) => i \in 1..(n - 1)
  BY <1>1
<1>10. ASSUME NEW i \in 1..Len(new)
       PROVE  LET o == d.simple[new[i].type].of
                  l == Len(new[i].parts)
              IN  /\ l <= Len(o) /\ \A k \in 1..l : new[i].parts[k] = o[k] \/ o[k] \in R2
                  /\ i < Len(new) => l < Len(o) /\ o[l + 1] = new[i + 1].type
  <2>1. CASE i \in 1..(n - 1)
    BY <1>7, <2>1
  <2>2. CASE i = n
    <3>1. m \in Nat /\ m <= Len(of) /\ d.simple[new[n].type].of = of /\ ~(n < Len(new))
      BY <1>1, <1>2 DEF of
    <3> QED  BY ONLY <1>2, <1>5, <2>2, <3>1
  <2> QED  BY <1>8, <2>1, <2>2
<1> QED  BY <1>10 DEF Follows, new

LEMMA FollowsEnter ==
    ASSUME NEW d \in Definitions, NEW stk \in Seq(SimpleFrame), NEW R, Follows(d, stk, R), NEW s \in Simple,
           NEW n, n = Len(stk),
           n > 0 => /\ Len(stk[n].parts) < Len(d.simple[stk[n].type].of)
                    /\ d.simple[stk[n].type].of[Len(stk[n].parts) + 1] = s
    PROVE  Follows(d, Append(stk, [type |-> s, parts |-> << >>]), R)
<1> DEFINE f == [type |-> s, parts |-> << >>]
           new == Append(stk, f)
<1>1. n \in Nat /\ Len(new) = n + 1 /\ new[n + 1] = f /\ \A i \in 1..n : new[i] = stk[i]
  OBVIOUS
<1> HIDE DEF new
<1>2. f.type = s /\ f.parts = << >> /\ Len(d.simple[s].of) \in Nat
  <2>1. d.simple[s].of \in Seq(Part)
    BY PartsTyped
  <2> QED  BY <2>1
<1> HIDE DEF f
<1>3. ASSUME NEW i \in 1..n
      PROVE  LET o == d.simple[new[i].type].of
                 l == Len(new[i].parts)
             IN  /\ l <= Len(o) /\ \A k \in 1..l : new[i].parts[k] = o[k] \/ o[k] \in R
                 /\ l < Len(o) /\ o[l + 1] = new[i + 1].type
  <2>1. CASE i = n
    <3>1. n > 0
      BY <1>1, <2>1
    <3> QED  BY <1>1, <1>2, <2>1, <3>1 DEF Follows
  <2>2. CASE i # n
    <3>1. i < n /\ i + 1 \in 1..n
      BY <1>1, <2>2
    <3> QED  BY <1>1, <3>1 DEF Follows
  <2> QED  BY <2>1, <2>2
<1>4. \A i \in 1..Len(new) : i \in 1..n \/ (i = n + 1 /\ ~(i < Len(new)))
  BY <1>1
<1>5. ASSUME NEW i \in 1..Len(new)
       PROVE  LET o == d.simple[new[i].type].of
                  l == Len(new[i].parts)
              IN  /\ l <= Len(o) /\ \A k \in 1..l : new[i].parts[k] = o[k] \/ o[k] \in R
                  /\ i < Len(new) => l < Len(o) /\ o[l + 1] = new[i + 1].type
  <2>1. CASE i \in 1..n
    BY <1>3, <2>1
  <2>2. CASE i = n + 1
    BY <1>1, <1>2, <1>4, <2>2
  <2> QED  BY <1>4, <2>1, <2>2
<1> QED  BY <1>5 DEF Follows, new, f

(* The types being built are parts of each other, from last to first.      *)
LEMMA FollowsDown ==
    ASSUME NEW d \in Definitions, NEW stk \in Seq(SimpleFrame), NEW R, Follows(d, stk, R),
           NEW i \in 1..Len(stk), NEW j \in (i + 1)..Len(stk)
    PROVE  IsBelow(SimpleIn(d), stk[j].type, stk[i].type)
<1> DEFINE L == Len(stk)
           D == SimpleIn(d)
           S == {k \in Nat : i + 1 + k <= L => IsBelow(D, stk[i + 1 + k].type, stk[i].type)}
<1>1. L \in Nat /\ \A k \in 1..L : stk[k].type \in Simple
  <2>1. \A k \in 1..L : stk[k] \in SimpleFrame
    BY ElementOfSeq
  <2> QED  BY <2>1 DEF SimpleFrame
<1>2. D \in [Simple -> SUBSET Simple]
  BY DEF SimpleIn
<1>3. ASSUME NEW k \in 1..L, k < L PROVE stk[k + 1].type \in D[stk[k].type]
  <2> DEFINE of == d.simple[stk[k].type].of
             m  == Len(stk[k].parts) + 1
  <2>1. m <= Len(of) /\ of[m] = stk[k + 1].type
    <3>1. stk[k].parts \in Seq(Part)
      <4>1. stk[k] \in SimpleFrame
        BY ElementOfSeq
      <4> QED  BY <4>1 DEF SimpleFrame
    <3>2. of \in Seq(Part)
      BY <1>1, PartsTyped
    <3> QED  BY <1>3, <3>1, <3>2 DEF Follows
  <2>2. m \in 1..Len(of)
    <3>1. stk[k] \in SimpleFrame
      BY ElementOfSeq
    <3>2. Len(stk[k].parts) \in Nat
      BY <3>1 DEF SimpleFrame
    <3> QED  BY <2>1, <3>2
  <2>3. k + 1 \in 1..L
    BY <1>1, <1>3
  <2> HIDE DEF m
  <2> QED  BY <1>1, <2>1, <2>2, <2>3, PartsTyped
<1> HIDE DEF L, D
<1>4. 0 \in S
  <2> SUFFICES ASSUME i + 1 + 0 <= L PROVE IsBelow(D, stk[i + 1 + 0].type, stk[i].type)
    OBVIOUS
  <2>1. i < L /\ i + 1 + 0 = i + 1 /\ i \in 1..L
    BY <1>1 DEF L
  <2> QED  BY <1>3, <2>1, PartIsBelow
<1>5. ASSUME NEW k \in Nat, k \in S PROVE k + 1 \in S
  <2> DEFINE m == i + 1 + k
  <2> SUFFICES ASSUME i + 1 + (k + 1) <= L PROVE IsBelow(D, stk[i + 1 + (k + 1)].type, stk[i].type)
    OBVIOUS
  <2>1. i + 1 + (k + 1) = m + 1 /\ m \in 1..L /\ m < L /\ m + 1 \in 1..L /\ i \in 1..L /\ i + 1 + k <= L
    BY <1>1 DEF L
  <2>2. IsBelow(D, stk[m].type, stk[i].type)
    BY <1>5, <2>1
  <2> HIDE DEF m
  <2>3. IsBelow(D, stk[m + 1].type, stk[m].type)
    BY <1>3, <2>1, PartIsBelow
  <2>4. stk[i].type \in Simple /\ stk[m].type \in Simple /\ stk[m + 1].type \in Simple
    BY <1>1, <2>1
  <2> QED  BY <1>2, <2>1, <2>2, <2>3, <2>4, BelowBelow
<1>6. Nat \subseteq S
  BY <1>4, <1>5, InductionOnNat
<1> DEFINE k == j - (i + 1)
<1>7. k \in Nat /\ i + 1 + k = j /\ j <= L
  BY <1>1 DEF L
<1> HIDE DEF k
<1>8. IsBelow(D, stk[j].type, stk[i].type)
  BY <1>6, <1>7
<1> QED  BY <1>8 DEF D


(* The newest frame is left; the one below waits for its type.             *)
LEMMA FollowsLeave ==
    ASSUME NEW d \in Definitions, NEW stk \in Seq(SimpleFrame), stk # << >>, NEW R, Follows(d, stk, R),
           NEW n, n = Len(stk), NEW rest, rest = SubSeq(stk, 1, n - 1)
    PROVE  /\ rest \in Seq(SimpleFrame) /\ Len(rest) = n - 1 /\ n \in Nat \ {0}
           /\ Follows(d, rest, R)
           /\ rest # << >> => /\ Len(rest[n - 1].parts) < Len(d.simple[rest[n - 1].type].of)
                              /\ d.simple[rest[n - 1].type].of[Len(rest[n - 1].parts) + 1] = stk[n].type
<1>1. n \in Nat \ {0}
  OBVIOUS
<1>2. rest \in Seq(SimpleFrame) /\ Len(rest) = n - 1
  BY Popped
<1>3. \A i \in 1..Len(rest) : rest[i] = stk[i]
  BY Popped
<1>4. \A i \in 1..(n - 1) : i \in 1..n /\ i < n
  BY <1>1
<1>5. \A i \in 1..(n - 1) : i < n - 1 => i + 1 \in 1..(n - 1)
  BY <1>1
<1>6. Follows(d, rest, R)
  <2> SUFFICES ASSUME NEW i \in 1..Len(rest)
               PROVE  /\ Len(rest[i].parts) <= Len(d.simple[rest[i].type].of)
                      /\ \A k \in 1..Len(rest[i].parts) :
                            \/ rest[i].parts[k] = d.simple[rest[i].type].of[k]
                            \/ d.simple[rest[i].type].of[k] \in R
                      /\ i < Len(rest) =>
                            /\ Len(rest[i].parts) < Len(d.simple[rest[i].type].of)
                            /\ d.simple[rest[i].type].of[Len(rest[i].parts) + 1] = rest[i + 1].type
    BY DEF Follows
  <2>1. rest[i] = stk[i] /\ i \in 1..Len(stk) /\ i < Len(stk)
    BY ONLY <1>2, <1>3, <1>4, n = Len(stk), i \in 1..Len(rest)
  <2>2. i < Len(rest) => rest[i + 1] = stk[i + 1]
    BY ONLY <1>2, <1>3, <1>5, i \in 1..Len(rest)
  <2>3. /\ Len(stk[i].parts) <= Len(d.simple[stk[i].type].of)
        /\ \A k \in 1..Len(stk[i].parts) :
              \/ stk[i].parts[k] = d.simple[stk[i].type].of[k]
              \/ d.simple[stk[i].type].of[k] \in R
        /\ Len(stk[i].parts) < Len(d.simple[stk[i].type].of)
        /\ d.simple[stk[i].type].of[Len(stk[i].parts) + 1] = stk[i + 1].type
    BY ONLY <2>1, Follows(d, stk, R) DEF Follows
  <2> QED  BY ONLY <2>1, <2>2, <2>3
<1>7. ASSUME rest # << >>
      PROVE  /\ Len(rest[n - 1].parts) < Len(d.simple[rest[n - 1].type].of)
             /\ d.simple[rest[n - 1].type].of[Len(rest[n - 1].parts) + 1] = stk[n].type
  <2>1. n - 1 \in 1..(n - 1) /\ (n - 1) + 1 = n
    <3>1. Len(rest) # 0
      BY <1>2, <1>7
    <3> QED  BY <1>1, <1>2, <3>1
  <2>2. rest[n - 1] = stk[n - 1] /\ n - 1 \in 1..n /\ n - 1 < n
    BY <1>2, <1>3, <1>4, <2>1
  <2> QED  BY <2>1, <2>2 DEF Follows
<1> QED  BY <1>1, <1>2, <1>6, <1>7

-----------------------------------------------------------------------------
(* What is reported is on a cycle, and without the types reported, what is *)
(* built ends.                                                             *)
SimpleReported == Reported \cap Simple

SourcesOK ==
    /\ Follows(declared, building, SimpleReported)
    /\ \A s \in SimpleReported : IsBelow(SimpleIn(declared), s, s)
    /\ \A x \in DOMAIN built : Ends(KeptIn(declared, SimpleReported), x)

LEMMA InitSources == Init => SourcesOK
  BY DEF Init, SourcesOK, Follows, SimpleReported, Reported

LEMMA FramesTyped ==
    ASSUME SimpleOK
    PROVE  building \in Seq(SimpleFrame)
  BY DEF SimpleOK, BuildingOK, Frames, SimpleFrame

LEMMA KeptWithMore ==
    ASSUME NEW d, NEW R, NEW R2, R \subseteq R2, NEW x, Ends(KeptIn(d, R), x)
    PROVE  Ends(KeptIn(d, R2), x)
<1>1. /\ DOMAIN KeptIn(d, R) = Simple /\ DOMAIN KeptIn(d, R2) = Simple
      /\ \A v \in Simple : KeptIn(d, R2)[v] \subseteq KeptIn(d, R)[v]
  BY DEF KeptIn
<1> QED  BY <1>1, EndsWithFewer

LEMMA ResolveSources ==
    ASSUME PassOK, SimpleOK, SeveredOK, SourcesOK, ResolvePart
    PROVE  SourcesOK'
<1>1. PICK d, stk, R, n : d = declared /\ stk = building /\ R = SimpleReported /\ n = Len(stk)
  OBVIOUS
<1>2. PICK m : m = Len(stk[n].parts) + 1
  OBVIOUS
<1>3. PICK s : s = d.simple[stk[n].type].of[m]
  OBVIOUS
<1>4. /\ d \in Definitions /\ stk \in Seq(SimpleFrame) /\ stk # << >> /\ n \in Nat \ {0}
      /\ UNCHANGED <<declared, built>> /\ Follows(d, stk, R)
  BY <1>1, FramesTyped DEF ResolvePart, PassOK, SourcesOK
<1>5. /\ Frame = stk[n] /\ Sources = d.simple[stk[n].type].of /\ s = Sources[Len(Frame.parts) + 1]
      /\ stk[n].type \in Simple /\ stk[n].parts \in Seq(Part) /\ d.simple[stk[n].type].of \in Seq(Part)
  <2>1. Frame = stk[n] /\ Sources = d.simple[stk[n].type].of
    BY <1>1 DEF Frame, Sources
  <2>2. stk[n] \in SimpleFrame
    <3>1. n \in 1..Len(stk)
      BY <1>1, <1>4
    <3> QED  BY <1>4, <3>1, ElementOfSeq
  <2>3. stk[n].type \in Simple /\ stk[n].parts \in Seq(Part)
    BY <2>2 DEF SimpleFrame
  <2> QED  BY <1>2, <1>3, <1>4, <2>1, <2>3, PartsTyped
<1>6. m \in 1..Len(d.simple[stk[n].type].of) /\ m <= Len(d.simple[stk[n].type].of) /\ s \in Part
  <2>1. Len(Frame.parts) < Len(Sources)
    BY DEF ResolvePart
  <2>2. m \in 1..Len(d.simple[stk[n].type].of) /\ m <= Len(d.simple[stk[n].type].of)
    <3> DEFINE k == Len(stk[n].parts)
               j == Len(d.simple[stk[n].type].of)
    <3>1. k \in Nat /\ j \in Nat
      BY <1>5, LenProperties
    <3>2. k < j /\ m = k + 1
      BY <1>2, <1>5, <2>1
    <3> HIDE DEF k, j
    <3>3. m \in 1..j /\ m <= j
      BY ONLY <3>1, <3>2
    <3> QED  BY <3>3 DEF j
  <2> DEFINE of == d.simple[stk[n].type].of
  <2>3. of \in Seq(Part) /\ m \in 1..Len(of) /\ s = of[m]
    BY ONLY <1>3, <1>5, <2>2
  <2> HIDE DEF of
  <2>4. s \in Part
    BY ONLY <2>3, ElementOfSeq
  <2> QED  BY ONLY <2>2, <2>4
<1>7. CASE Ready(s)
  <2>1. ~IsBuilding(s)
    <3>1. Frames(building, built)
      BY DEF SimpleOK, BuildingOK
    <3>2. \A i \in 1..Len(building) : building[i].type \in Simple \ DOMAIN built
      BY <3>1, BuildingTyped
    <3>3. DOMAIN building = 1..Len(building)
      BY <3>1 DEF Frames
    <3> QED  BY <3>2, <3>3, <1>7 DEF Ready, IsBuilding
  <2>2. building' = WithPart(stk, s) /\ reports' = reports
    BY <1>1, <1>5, <1>7, <2>1 DEF ResolvePart
  <2>3. SimpleReported' = R
    BY <1>1, <2>2 DEF SimpleReported, Reported
  <2>4. Follows(d, WithPart(stk, s), R)
    BY <1>1, <1>2, <1>3, <1>4, <1>6, FollowsPart
  <2> QED  BY <1>1, <1>4, <2>2, <2>3, <2>4 DEF SourcesOK
<1>8. CASE ~Ready(s) /\ IsBuilding(s)
  <2>1. building' = WithPart(stk, AnySimpleType) /\ reports' = Append(reports, s)
    BY <1>1, <1>5, <1>8 DEF ResolvePart, StandIn
  <2>2. s \in Simple
    BY <1>8 DEF Ready
  <2>3. SimpleReported' = R \cup {s}
    <3>1. Reported' = Reported \cup {s}
      BY <2>1, <2>2, ReportsGrow
    <3> QED  BY <1>1, <2>2, <3>1 DEF SimpleReported
  <2>4. Follows(d, WithPart(stk, AnySimpleType), R \cup {s})
    <3>1. AnySimpleType \in Part /\ R \subseteq R \cup {s} /\ d.simple[stk[n].type].of[m] \in R \cup {s}
      BY <1>3 DEF Part
    <3> QED  BY <1>1, <1>2, <1>4, <1>6, <3>1, FollowsPart
  <2>5. IsBelow(SimpleIn(d), s, s)
    <3>1. PICK i \in 1..n : stk[i].type = s
      <4>1. DOMAIN stk = 1..n
        BY <1>1, <1>4
      <4> QED  BY <1>1, <1>8, <4>1 DEF IsBuilding
    <3>2. s \in SimpleIn(d)[stk[n].type] /\ SimpleIn(d) \in [Simple -> SUBSET Simple]
      <4>1. PICK x \in Simple : x = stk[n].type
        BY <1>5
      <4>2. m \in 1..Len(d.simple[x].of) /\ d.simple[x].of[m] \in Simple /\ s = d.simple[x].of[m]
        BY <1>3, <1>6, <2>2, <4>1
      <4>3. d.simple[x].of[m] \in SimpleIn(d)[x] /\ SimpleIn(d) \in [Simple -> SUBSET Simple]
        BY <1>4, <4>2, PartsTyped
      <4> QED  BY <4>1, <4>2, <4>3
    <3>3. IsBelow(SimpleIn(d), s, stk[n].type)
      BY <3>2, PartIsBelow
    <3>4. CASE i = n
      BY <3>1, <3>3, <3>4
    <3>5. CASE i # n
      <4>1. i \in 1..Len(stk) /\ n \in (i + 1)..Len(stk)
        BY <1>1, <1>4, <3>5
      <4>2. IsBelow(SimpleIn(d), stk[n].type, s)
        BY <1>4, <3>1, <4>1, FollowsDown
      <4> QED  BY <1>5, <2>2, <3>2, <3>3, <4>2, BelowBelow, ZenonT(20)
    <3> QED  BY <3>4, <3>5
  <2>6. \A x \in DOMAIN built : Ends(KeptIn(d, R \cup {s}), x)
    <3>1. \A x \in DOMAIN built : Ends(KeptIn(d, R), x)
      BY <1>1 DEF SourcesOK
    <3>2. R \subseteq R \cup {s}
      OBVIOUS
    <3> QED  BY <3>1, <3>2, KeptWithMore
  <2>7. \A x \in R : IsBelow(SimpleIn(d), x, x)
    BY <1>1 DEF SourcesOK
  <2> QED  BY <1>1, <1>4, <2>1, <2>3, <2>4, <2>5, <2>6, <2>7 DEF SourcesOK
<1>9. CASE ~Ready(s) /\ ~IsBuilding(s)
  <2>1. building' = Append(stk, [type |-> s, parts |-> << >>]) /\ reports' = reports /\ s \in Simple
    BY <1>1, <1>5, <1>9 DEF ResolvePart, Enter, Ready
  <2>2. SimpleReported' = R
    BY <1>1, <2>1 DEF SimpleReported, Reported
  <2>3. Len(stk[n].parts) < Len(d.simple[stk[n].type].of) /\ d.simple[stk[n].type].of[Len(stk[n].parts) + 1] = s
    BY <1>2, <1>3, <1>5, <1>6
  <2>4. Follows(d, Append(stk, [type |-> s, parts |-> << >>]), R)
    BY <1>1, <1>4, <2>1, <2>3, FollowsEnter
  <2> QED  BY <1>1, <1>4, <2>1, <2>2, <2>4 DEF SourcesOK
<1> QED  BY <1>7, <1>8, <1>9

LEMMA CompleteSources ==
    ASSUME PassOK, SimpleOK, SourcesOK, CompleteSimple
    PROVE  SourcesOK'
<1>1. PICK d, stk, R, n : d = declared /\ stk = building /\ R = SimpleReported /\ n = Len(stk)
  OBVIOUS
<1>2. PICK s, rest : s = stk[n].type /\ rest = SubSeq(stk, 1, n - 1)
  OBVIOUS
<1>3. /\ d \in Definitions /\ stk \in Seq(SimpleFrame) /\ stk # << >> /\ n \in Nat \ {0}
      /\ UNCHANGED <<declared, reports>> /\ Follows(d, stk, R)
  BY <1>1, FramesTyped DEF CompleteSimple, PassOK, SourcesOK
<1>4. /\ DOMAIN built' = DOMAIN built \cup {s} /\ building' = (IF rest = << >> THEN rest ELSE WithPart(rest, s))
      /\ Len(stk[n].parts) = Len(d.simple[s].of)
  BY <1>1, <1>2 DEF CompleteSimple, Frame, Sources
<1>5. s \in Simple /\ Frame = stk[n] /\ \A k \in DOMAIN stk[n].parts : Usable(built, stk[n].parts[k])
  <2>1. Frame = stk[n]
    BY <1>1 DEF Frame
  <2> QED  BY <1>1, <1>2, <1>3, <2>1, NewestFrame
<1>6. SimpleReported' = R
  BY <1>1, <1>3 DEF SimpleReported, Reported
<1>7. Follows(d, building', R)
  <2>1. /\ rest \in Seq(SimpleFrame) /\ Len(rest) = n - 1 /\ Follows(d, rest, R)
        /\ rest # << >> => /\ Len(rest[n - 1].parts) < Len(d.simple[rest[n - 1].type].of)
                           /\ d.simple[rest[n - 1].type].of[Len(rest[n - 1].parts) + 1] = s
    <3>1. /\ d \in Definitions /\ stk \in Seq(SimpleFrame) /\ stk # << >> /\ Follows(d, stk, R)
          /\ n = Len(stk) /\ rest = SubSeq(stk, 1, n - 1)
      BY <1>1, <1>2, <1>3
    <3>2. rest \in Seq(SimpleFrame) /\ Len(rest) = n - 1
      BY ONLY <3>1, Popped
    <3>4. Follows(d, rest, R)
      BY ONLY <3>1, FollowsLeave
    <3>3. rest # << >> => /\ Len(rest[n - 1].parts) < Len(d.simple[rest[n - 1].type].of)
                          /\ d.simple[rest[n - 1].type].of[Len(rest[n - 1].parts) + 1] = stk[n].type
      BY ONLY <3>1, FollowsLeave, SMTT(20)
    <3> QED  BY <1>2, <3>2, <3>3, <3>4
  <2>2. CASE rest = << >>
    BY <1>4, <2>1, <2>2
  <2>3. CASE rest # << >>
    <3>1. PICK k, m : k = n - 1 /\ m = Len(rest[k].parts) + 1
      OBVIOUS
    <3>2. m <= Len(d.simple[rest[k].type].of) /\ s = d.simple[rest[k].type].of[m]
      <4>1. rest[k] \in SimpleFrame
        <5>1. k \in 1..Len(rest)
          <6>1. Len(rest) # 0
            BY <2>1, <2>3
          <6> QED  BY <1>3, <2>1, <3>1, <6>1
        <5> QED  BY <2>1, <5>1, ElementOfSeq
      <4>2. Len(rest[k].parts) \in Nat /\ rest[k].type \in Simple
        BY <4>1 DEF SimpleFrame
      <4>3. Len(d.simple[rest[k].type].of) \in Nat
        <5>1. d.simple[rest[k].type].of \in Seq(Part)
          BY <1>3, <4>2, PartsTyped
        <5> QED  BY <5>1
      <4> QED  BY <2>1, <2>3, <3>1, <4>2, <4>3
    <3>3. s \in Part /\ R \subseteq R
      BY <1>5 DEF Part
    <3>4. k = Len(rest)
      BY <2>1, <3>1
    <3>5. Follows(d, WithPart(rest, s), R)
      BY <1>3, <2>1, <2>3, <3>1, <3>2, <3>3, <3>4, FollowsPart
    <3> QED  BY <1>4, <2>3, <3>5
  <2> QED  BY <2>2, <2>3
<1>8. \A x \in DOMAIN built : Ends(KeptIn(d, R), x)
  BY <1>1 DEF SourcesOK
<1>9. Ends(KeptIn(d, R), s)
  <2>1. ASSUME NEW q \in KeptIn(d, R)[s] PROVE Ends(KeptIn(d, R), q)
    <3>1. q \in Simple /\ q \notin R /\ q \in PartsIn(d)[s]
      BY <1>5, <2>1 DEF KeptIn, SimpleIn
    <3>2. PICK k \in 1..Len(d.simple[s].of) : q = d.simple[s].of[k]
      BY <1>3, <1>5, <3>1, PartsTyped
    <3>3. stk[n].parts[k] = q
      <4>1. n \in 1..Len(stk) /\ k \in 1..Len(stk[n].parts)
        BY <1>1, <1>3, <1>4
      <4> QED  BY <1>2, <1>3, <3>1, <3>2, <4>1 DEF Follows
    <3>4. k \in DOMAIN stk[n].parts
      <4>1. stk[n] \in SimpleFrame
        BY <1>1, <1>3, ElementOfSeq
      <4> QED  BY <1>4, <4>1 DEF SimpleFrame
    <3>5. q \in DOMAIN built
      BY <1>5, <3>1, <3>3, <3>4 DEF Usable
    <3> QED  BY <1>8, <3>5
  <2>2. s \in DOMAIN KeptIn(d, R)
    BY <1>5 DEF KeptIn
  <2> QED  BY <2>1, <2>2, EndsByParts
<1>10. \A x \in R : IsBelow(SimpleIn(d), x, x)
  BY <1>1 DEF SourcesOK
<1> QED  BY <1>1, <1>3, <1>4, <1>6, <1>7, <1>8, <1>9, <1>10 DEF SourcesOK


(* The steps that build no simple type.                                    *)
Elsewhere ==
    /\ UNCHANGED <<declared, building, built, refused>>
    /\ reports' = reports \/ \E x \in Type \cup Group \cup Element : reports' = Append(reports, x)

LEMMA ElsewhereReported ==
    ASSUME SeveredOK, Elsewhere
    PROVE  SimpleReported' = SimpleReported
<1>1. CASE reports' = reports
  BY <1>1 DEF SimpleReported, Reported
<1>2. CASE \E x \in Type \cup Group \cup Element : reports' = Append(reports, x)
  <2>1. PICK x \in Type \cup Group \cup Element : reports' = Append(reports, x)
    BY <1>2
  <2>2. Reported' = Reported \cup {x} /\ x \notin Simple
    BY <2>1, ReportsGrow, ComponentsAssumption
  <2> QED  BY <2>2 DEF SimpleReported
<1> QED  BY <1>1, <1>2 DEF Elsewhere

LEMMA StepsOfSimpleTypes ==
    ASSUME SearchOK, Next
    PROVE  Elsewhere \/ (\E s \in Simple : BuildSimple(s)) \/ ResolvePart \/ CompleteSimple
<1>1. CASE \E t \in Type : CheckType(t)
  BY <1>1 DEF CheckType, Break, MetAgain, Elsewhere, simpleVars
<1>2. CASE \E e \in Element : CheckElement(e)
  BY <1>2 DEF CheckElement, Elsewhere, simpleVars
<1>3. CASE FollowReference
  <2>1. phase = "groups" /\ stack # << >> /\ Top.next <= Len(refs[Top.group])
    BY <1>3 DEF FollowReference
  <2> DEFINE h == refs[Top.group][Top.next]
  <2>2. h \in Group \cup {Severed}
    <3>1. Top.group \in Group /\ Top.next \in Nat \ {0}
      BY <2>1, TopFrame DEF SearchOK
    <3>2. refs[Top.group] \in Seq(Group \cup {Severed}) /\ Top.next \in 1..Len(refs[Top.group])
      BY <2>1, <3>1 DEF SearchOK, RefsOK
    <3> QED  BY <3>2, ElementOfSeq
  <2>3. /\ UNCHANGED <<declared, building, built, refused>>
        /\ reports' = reports \/ (h # Severed /\ reports' = Append(reports, h))
    BY <1>3 DEF FollowReference, simpleVars
  <2> HIDE DEF h
  <2> QED  BY <2>2, <2>3 DEF Elsewhere
<1>4. CASE ShellsBuilt \/ TypesChecked \/ GroupsChecked \/ Finish
  BY <1>4 DEF ShellsBuilt, TypesChecked, GroupsChecked, Finish, Elsewhere, simpleVars
<1>5. CASE (\E g \in Group : VisitGroup(g)) \/ LeaveGroup
  BY <1>5 DEF VisitGroup, LeaveGroup, Elsewhere, simpleVars
<1> QED  BY <1>1, <1>2, <1>3, <1>4, <1>5 DEF Next

LEMMA NextSources == PassOK /\ SimpleOK /\ SearchOK /\ SourcesOK /\ [Next]_vars => SourcesOK'
<1> SUFFICES ASSUME PassOK, SimpleOK, SearchOK, SourcesOK, [Next]_vars PROVE SourcesOK'
  OBVIOUS
<1>0. SeveredOK
  BY DEF SearchOK
<1>1. CASE Elsewhere
  <2>1. SimpleReported' = SimpleReported /\ UNCHANGED <<declared, building, built>>
    BY <1>0, <1>1, ElsewhereReported DEF Elsewhere
  <2> QED  BY <2>1 DEF SourcesOK
<1>2. CASE \E s \in Simple : BuildSimple(s)
  <2>1. PICK s \in Simple : BuildSimple(s)
    BY <1>2
  <2>2. building = << >> /\ UNCHANGED <<declared, built, reports>>
    BY <2>1 DEF BuildSimple
  <2>3. PICK d, R, stk : d = declared /\ R = SimpleReported /\ stk = building
    OBVIOUS
  <2>4. SimpleReported' = R
    BY <2>2, <2>3 DEF SimpleReported, Reported
  <2>5. building' = building \/ building' = Append(stk, [type |-> s, parts |-> << >>])
    BY <2>1, <2>3 DEF BuildSimple, Enter
  <2>6. Follows(d, Append(stk, [type |-> s, parts |-> << >>]), R)
    <3>1. d \in Definitions /\ stk \in Seq(SimpleFrame) /\ Follows(d, stk, R) /\ Len(stk) = 0
      BY <2>2, <2>3, FramesTyped DEF PassOK, SourcesOK
    <3>2. PICK n : n = Len(stk)
      OBVIOUS
    <3>3. ~(n > 0)
      BY <3>1, <3>2
    <3> QED  BY ONLY <3>1, <3>2, <3>3, s \in Simple, FollowsEnter
  <2>7. Follows(d, building', R)
    BY <2>3, <2>5, <2>6 DEF SourcesOK
  <2> QED  BY <2>2, <2>3, <2>4, <2>7 DEF SourcesOK
<1>3. CASE ResolvePart
  BY <1>0, <1>3, ResolveSources
<1>4. CASE CompleteSimple
  BY <1>4, CompleteSources
<1>5. CASE UNCHANGED vars
  BY <1>5 DEF vars, simpleVars, SourcesOK, SimpleReported, Reported
<1> QED  BY <1>1, <1>2, <1>3, <1>4, <1>5, StepsOfSimpleTypes

(* Without what is reported nothing leads back: each cycle has a member    *)
(* that is.                                                                *)
LEMMA CycleLosesOne ==
    ASSUME NEW V, NEW D \in [V -> SUBSET V], NEW R, NEW B, B = [x \in V |-> D[x] \ R],
           NEW s \in V, IsBelow(D, s, s), Ends(B, s)
    PROVE  \E u \in V \cap R : IsBelow(D, u, s) /\ IsBelow(D, s, u)
<1>1. B \in [V -> SUBSET V] /\ \A x \in V : B[x] = D[x] \ R
  OBVIOUS
<1> SUFFICES ASSUME \A u \in V : IsBelow(D, u, s) /\ IsBelow(D, s, u) => u \notin R PROVE FALSE
  OBVIOUS
<1>2. IsBelow(B, s, s)
  <2> SUFFICES ASSUME NEW K \in SUBSET V, B[s] \subseteq K, ClosedUnder(B, K) PROVE s \in K
    BY <1>1 DEF IsBelow
  <2> DEFINE L == {x \in V : IsBelow(D, x, s) /\ (IsBelow(D, s, x) => x \in K)}
  <2>1. ASSUME NEW x \in D[s] PROVE x \in L
    <3>1. x \in V /\ IsBelow(D, x, s)
      BY PartIsBelow
    <3> QED  BY <1>1, <3>1
  <2>2. ASSUME NEW x \in L, NEW y \in D[x] PROVE y \in L
    <3>1. x \in V /\ y \in V /\ IsBelow(D, x, s) /\ IsBelow(D, y, x)
      BY PartIsBelow
    <3>2. IsBelow(D, y, s)
      BY <3>1, BelowBelow
    <3>3. ASSUME IsBelow(D, s, y) PROVE y \in K
      <4>1. IsBelow(D, s, x)
        BY <3>1, <3>3, BelowBelow
      <4>2. x \in K /\ y \notin R
        BY <3>1, <3>2, <3>3, <4>1
      <4> QED  BY <1>1, <3>1, <4>2 DEF ClosedUnder
    <3> QED  BY <3>1, <3>2, <3>3
  <2>3. L \in SUBSET DOMAIN D /\ ClosedUnder(D, L) /\ D[s] \subseteq L
    BY <2>1, <2>2 DEF ClosedUnder
  <2>4. s \in L
    <3> HIDE DEF L
    <3> QED  BY <2>3 DEF IsBelow
  <2> QED  BY <2>4
<1> QED  BY <1>1, <1>2, EndsNotBelowItself

LEMMA DeclaredReachIs ==
    ASSUME NEW s \in Simple, NEW v \in Simple
    PROVE  v \in DeclaredReach(s) <=> IsBelow(SimpleIn(declared), v, s)
<1>1. DeclaredParts = PartsIn(declared)
  BY DEF DeclaredParts, PartsIn
<1> DEFINE P == PartsIn(declared)
           Q == SimpleIn(declared)
<1>2. DOMAIN P = Simple /\ Q = [u \in Simple |-> P[u] \cap Simple]
  BY DEF SimpleIn, PartsIn
<1> HIDE DEF P, Q
<1>3. v \in PartsReach(P, s) <=> IsBelow(Q, v, s)
  BY <1>2, ReachIsAllBelow
<1> QED  BY <1>1, <1>3 DEF DeclaredReach, P, Q

LEMMA CyclesReported ==
    ASSUME PassOK, SimpleOK, SourcesOK
    PROVE  SimpleCyclesReported
<1> SUFFICES ASSUME phase = "done"
             PROVE  LET circular == {s \in Simple : s \in DeclaredReach(s)}
                    IN  /\ Reported \cap Simple \subseteq circular
                        /\ \A s \in circular : \E u \in Reported \cap Simple : u \in DeclaredReach(s) /\ s \in DeclaredReach(u)
  BY DEF SimpleCyclesReported
<1>1. PICK d, R, D : d = declared /\ R = SimpleReported /\ D = SimpleIn(d)
  OBVIOUS
<1>2. \A s, v \in Simple : v \in DeclaredReach(s) <=> IsBelow(D, v, s)
  BY <1>1, DeclaredReachIs
<1>3. ASSUME NEW s \in Reported \cap Simple PROVE s \in DeclaredReach(s)
  BY <1>1, <1>2 DEF SourcesOK, SimpleReported
<1>4. ASSUME NEW s \in Simple, s \in DeclaredReach(s)
      PROVE  \E u \in Reported \cap Simple : u \in DeclaredReach(s) /\ s \in DeclaredReach(u)
  <2>1. DOMAIN built = Simple
    BY DEF SimpleOK, SimpleDone
  <2>2. Ends(KeptIn(d, R), s) /\ IsBelow(D, s, s)
    BY <1>1, <1>2, <1>4, <2>1 DEF SourcesOK
  <2>3. D \in [Simple -> SUBSET Simple] /\ KeptIn(d, R) = [x \in Simple |-> D[x] \ R]
    BY <1>1 DEF SimpleIn, KeptIn
  <2>4. PICK B : B = KeptIn(d, R)
    OBVIOUS
  <2>5. PICK u \in Simple \cap R : IsBelow(D, u, s) /\ IsBelow(D, s, u)
    <3>1. Ends(B, s) /\ IsBelow(D, s, s) /\ D \in [Simple -> SUBSET Simple] /\ B = [x \in Simple |-> D[x] \ R]
      BY <2>2, <2>3, <2>4
    <3> QED  BY ONLY <3>1, s \in Simple, CycleLosesOne
  <2> QED  BY <1>1, <1>2, <2>5 DEF SimpleReported
<1> QED  BY <1>3, <1>4

-----------------------------------------------------------------------------
(* Lists.  Whether a type comes down to a list, as the documents say.      *)
FlatIn(d) == [s \in Simple |-> IF d.simple[s].by = "list" THEN {} ELSE SimpleIn(d)[s]]

HoldsList(d, p) ==
    \E u \in Simple : d.simple[u].by = "list" /\ (u = p \/ (p \in Simple /\ IsBelow(FlatIn(d), u, p)))

Entangled(d, s) ==
    \E u \in Simple : (u = s \/ IsBelow(SimpleIn(d), u, s)) /\ IsBelow(SimpleIn(d), u, u)

IsWrong(d, s) ==
    \/ AnySimpleType \in PartsIn(d)[s]
    \/ d.simple[s].by = "list" /\ \E p \in PartsIn(d)[s] : HoldsList(d, p)

LEMMA HoldsListUnfolds ==
    ASSUME NEW d \in Definitions, NEW s \in Simple
    PROVE  /\ d.simple[s].by = "list" => HoldsList(d, s)
           /\ d.simple[s].by # "list" => (HoldsList(d, s) <=> \E q \in PartsIn(d)[s] : HoldsList(d, q))
<1> DEFINE F == FlatIn(d)
<1>1. F \in [Simple -> SUBSET Simple] /\ (d.simple[s].by # "list" => F[s] = PartsIn(d)[s] \cap Simple)
  BY DEF FlatIn, SimpleIn
<1> HIDE DEF F
<1>2. \A p : HoldsList(d, p) <=> \E u \in Simple : d.simple[u].by = "list" /\ (u = p \/ (p \in Simple /\ IsBelow(F, u, p)))
  BY DEF HoldsList, F
<1>3. ASSUME d.simple[s].by # "list", HoldsList(d, s) PROVE \E q \in PartsIn(d)[s] : HoldsList(d, q)
  <2>1. PICK u \in Simple : d.simple[u].by = "list" /\ IsBelow(F, u, s)
    BY <1>2, <1>3
  <2>2. u \in F[s] \/ \E q \in F[s] : IsBelow(F, u, q)
    BY <1>1, <2>1, BelowUnfolds
  <2> QED  BY <1>1, <1>2, <1>3, <2>1, <2>2
<1>4. ASSUME d.simple[s].by # "list", NEW q \in PartsIn(d)[s], HoldsList(d, q) PROVE HoldsList(d, s)
  <2>1. PICK u \in Simple : d.simple[u].by = "list" /\ (u = q \/ (q \in Simple /\ IsBelow(F, u, q)))
    BY <1>2, <1>4
  <2>2. q \in F[s] /\ q \in Simple
    BY <1>1, <1>4, <2>1
  <2>3. IsBelow(F, q, s)
    BY <1>1, <2>2, PartIsBelow
  <2>4. IsBelow(F, u, s)
    BY <1>1, <2>1, <2>2, <2>3, BelowBelow
  <2> QED  BY <1>2, <2>1, <2>4
<1>5. d.simple[s].by = "list" => HoldsList(d, s)
  BY <1>2
<1> QED  BY <1>3, <1>4, <1>5

(* The parts of a type off all cycles are off all cycles.                  *)
LEMMA PartsNotEntangled ==
    ASSUME NEW d \in Definitions, NEW s \in Simple, ~Entangled(d, s), NEW q \in PartsIn(d)[s] \cap Simple
    PROVE  ~Entangled(d, q) /\ ~IsBelow(SimpleIn(d), q, q)
<1>1. SimpleIn(d) \in [Simple -> SUBSET Simple] /\ q \in SimpleIn(d)[s]
  BY DEF SimpleIn
<1>2. IsBelow(SimpleIn(d), q, s)
  BY <1>1, PartIsBelow
<1>3. ASSUME NEW u \in Simple, IsBelow(SimpleIn(d), u, q) PROVE IsBelow(SimpleIn(d), u, s)
  BY <1>1, <1>2, <1>3, BelowBelow
<1> QED  BY <1>2, <1>3 DEF Entangled

(* BasicMembers, which the code finds by recursion: the members, those     *)
(* that are unions replaced by theirs.                                     *)
FlatMembers(F) ==
    /\ \A u \in Simple : F[u] = UNION {IF Variety(m) = "union" THEN F[m] ELSE {m} : m \in Component(u).members}
    /\ \A u \in Part : BasicMembers(u) = IF Variety(u) = "union" THEN F[u] ELSE {}

LEMMA ComponentTyped ==
    ASSUME BuiltOK, NEW p
    PROVE  /\ Component(p) \in Built /\ Variety(p) \in {"atomic", "list", "union"}
           /\ Component(p).members \subseteq Part
           /\ p \notin Simple => Variety(p) = "atomic"
<1>1. Component(p) \in Built
  BY DEF BuiltOK, Component, Built, Part
<1>2. p \notin Simple => Component(p).variety = "atomic"
  BY DEF BuiltOK, Component
<1> QED  BY <1>1, <1>2 DEF Built, Variety

LEMMA MembersFlatten ==
    ASSUME BuiltOK
    PROVE  \E F : FlatMembers(F)
<1> DEFINE M == [u \in Part |-> IF Variety(u) = "union" THEN Component(u).members ELSE {}]
           g(m) == {y \in Part : Variety(y) # "union" /\ IsBelow(M, y, m)}
           f == [u \in Simple |-> UNION {IF Variety(m) = "union" THEN g(m) ELSE {m} : m \in Component(u).members}]
           Is(h) == h = [u \in Simple |-> UNION {IF Variety(m) = "union" THEN h[m] ELSE {m} : m \in Component(u).members}]
           F == CHOOSE h : Is(h)
<1>1. M \in [Part -> SUBSET Part] /\ \A m \in Part : Variety(m) = "union" => m \in Simple /\ M[m] = Component(m).members
  BY ComponentTyped
<1>2. \A m \in Part : Variety(m) # "union" => M[m] = {}
  OBVIOUS
<1> HIDE DEF M
<1>3. ASSUME NEW m \in Part, Variety(m) = "union" PROVE f[m] = g(m)
  <2>1. m \in Simple /\ M[m] = Component(m).members
    BY <1>1, <1>3
  <2>2. f[m] = UNION {IF Variety(w) = "union" THEN g(w) ELSE {w} : w \in M[m]}
    BY <2>1
  <2>3. ASSUME NEW w \in M[m], NEW y \in IF Variety(w) = "union" THEN g(w) ELSE {w} PROVE y \in g(m)
    <3>1. w \in Part /\ IsBelow(M, w, m)
      BY <1>1, <2>3, PartIsBelow
    <3>2. CASE Variety(w) = "union"
      <4>1. y \in Part /\ Variety(y) # "union" /\ IsBelow(M, y, w)
        BY <2>3, <3>2
      <4>2. IsBelow(M, y, m)
        BY <1>1, <3>1, <4>1, BelowBelow
      <4> QED  BY <4>1, <4>2
    <3>3. CASE Variety(w) # "union"
      BY <2>3, <3>1, <3>3
    <3> QED  BY <3>2, <3>3
  <2>4. ASSUME NEW y \in g(m) PROVE \E w \in M[m] : y \in IF Variety(w) = "union" THEN g(w) ELSE {w}
    <3>1. y \in Part /\ Variety(y) # "union" /\ IsBelow(M, y, m)
      BY <2>4
    <3>2. CASE y \in M[m]
      BY <3>1, <3>2
    <3>3. CASE \E w \in M[m] : IsBelow(M, y, w)
      <4>1. PICK w \in M[m] : IsBelow(M, y, w)
        BY <3>3
      <4>2. Variety(w) = "union"
        <5>1. w \in Part
          BY <1>1, <4>1
        <5>2. Variety(w) # "union" => M[w] = {}
          BY <1>2, <5>1
        <5>3. M[w] # {}
          BY <1>1, <3>1, <4>1, <5>1, BelowUnfolds
        <5> QED  BY <5>2, <5>3
      <4>3. y \in g(w)
        BY <3>1, <4>1
      <4> QED  BY <4>1, <4>2, <4>3
    <3> QED  BY <1>1, <3>1, <3>2, <3>3, BelowUnfolds
  <2> HIDE DEF g, f
  <2> QED  BY <2>2, <2>3, <2>4
<1>4. Is(f)
  <2>1. ASSUME NEW u \in Simple
        PROVE  UNION {IF Variety(m) = "union" THEN g(m) ELSE {m} : m \in Component(u).members}
               = UNION {IF Variety(m) = "union" THEN f[m] ELSE {m} : m \in Component(u).members}
    <3>1. Component(u).members \subseteq Part
      BY ComponentTyped
    <3>2. \A m \in Component(u).members : (IF Variety(m) = "union" THEN g(m) ELSE {m}) = (IF Variety(m) = "union" THEN f[m] ELSE {m})
      BY <1>3, <3>1
    <3> HIDE DEF g, f
    <3> QED  BY <3>2
  <2>2. f = [u \in Simple |-> UNION {IF Variety(m) = "union" THEN g(m) ELSE {m} : m \in Component(u).members}]
    OBVIOUS
  <2> HIDE DEF g, f
  <2> QED  BY <2>1, <2>2
<1>5. Is(F)
  <2> HIDE DEF f
  <2> QED  BY <1>4
<1>6. \A u : BasicMembers(u) = IF Variety(u) = "union" THEN F[u] ELSE {}
  BY DEF BasicMembers
<1> HIDE DEF F
<1>7. \A u \in Simple : F[u] = UNION {IF Variety(m) = "union" THEN F[m] ELSE {m} : m \in Component(u).members}
  BY <1>5
<1> QED  BY <1>6, <1>7 DEF FlatMembers

(* A union has a member that is no atomic type when one of its members     *)
(* has, or is a list.                                                      *)
LEMMA UnionNotAtomic ==
    ASSUME BuiltOK, NEW u \in Simple, Variety(u) = "union"
    PROVE  NotAtomic(u) <=> \E m \in Component(u).members : NotAtomic(m)
<1>1. PICK F : FlatMembers(F)
  BY MembersFlatten
<1>2. Component(u).members \subseteq Part /\ \A m \in Part : Variety(m) \in {"atomic", "list", "union"}
  BY ComponentTyped
<1>3. \A m \in Part : NotAtomic(m) <=> Variety(m) = "list" \/ (Variety(m) = "union" /\ \E y \in F[m] : Variety(y) # "atomic")
  BY <1>1 DEF NotAtomic, FlatMembers
<1>4. F[u] = UNION {IF Variety(m) = "union" THEN F[m] ELSE {m} : m \in Component(u).members}
  BY <1>1 DEF FlatMembers
<1>5. (\E y \in F[u] : Variety(y) # "atomic")
      <=> \E m \in Component(u).members : \E y \in IF Variety(m) = "union" THEN F[m] ELSE {m} : Variety(y) # "atomic"
  BY <1>4
<1>6. \A m \in Component(u).members :
        (\E y \in IF Variety(m) = "union" THEN F[m] ELSE {m} : Variety(y) # "atomic") <=> NotAtomic(m)
  BY <1>2, <1>3
<1>7. u \in Part
  BY DEF Part
<1> QED  BY <1>3, <1>5, <1>6, <1>7

(* What is built off all cycles is what the documents say.                 *)
AsDeclaredOK ==
    /\ refused \subseteq DOMAIN built
    /\ \A x \in DOMAIN built : ~Entangled(declared, x) =>
         /\ built[x] = Components(declared.simple[x].by, declared.simple[x].of)
         /\ x \in refused <=> IsWrong(declared, x)

(* The parts of such a type are parts of what was built.                   *)
LEMMA BuiltHasParts ==
    ASSUME BuiltOK, NEW d \in Definitions, NEW x \in DOMAIN built,
           built[x] = Components(d.simple[x].by, d.simple[x].of)
    PROVE  d.simple[x].by # "list" => \A p \in PartsIn(d)[x] : Usable(built, p) /\ p \in PartsOf(built[x])
<1>1. x \in Simple /\ \A p \in PartsOf(built[x]) : Usable(built, p)
  BY DEF BuiltOK
<1>2. PICK of : of = d.simple[x].of
  OBVIOUS
<1>3. of \in Seq(Part) /\ PartsIn(d)[x] = {of[k] : k \in 1..Len(of)} /\ d.simple[x].by \in {"restriction", "list", "union"}
  BY <1>1, <1>2, PartsTyped
<1>4. CASE d.simple[x].by = "restriction"
  <2>1. Len(of) = 1
    BY <1>1, <1>2, <1>4, PartsTyped
  <2>2. PartsIn(d)[x] = {of[1]}
    BY <1>3, <2>1
  <2>3. built[x] = [Component(of[1]) EXCEPT !.base = of[1]] /\ Component(of[1]) \in Built
    BY <1>2, <1>4, ComponentTyped DEF Components
  <2>4. built[x].base = of[1]
    BY <2>3 DEF Built
  <2> QED  BY <1>1, <2>2, <2>4 DEF PartsOf
<1>5. CASE d.simple[x].by = "union"
  <2>1. built[x].members = {of[k] : k \in DOMAIN of} /\ DOMAIN of = 1..Len(of)
    BY <1>2, <1>3, <1>5 DEF Components
  <2> QED  BY <1>1, <1>3, <2>1 DEF PartsOf
<1> QED  BY <1>3, <1>4, <1>5

(* Whether the items of a list are lists, or unions with a list, is seen   *)
(* in what was built.                                                      *)
LEMMA ListsSeen ==
    ASSUME PassOK, BuiltOK, AsDeclaredOK, NEW p, Usable(built, p), p \in Simple => ~Entangled(declared, p)
    PROVE  NotAtomic(p) <=> HoldsList(declared, p)
<1>1. PICK d, B : d = declared /\ B = SimpleParts(built)
  OBVIOUS
<1>2. d \in Definitions
  BY <1>1 DEF PassOK
<1>3. ASSUME NEW q, q \notin Simple PROVE ~NotAtomic(q) /\ ~HoldsList(d, q)
  <2>1. Variety(q) = "atomic"
    BY <1>3, ComponentTyped
  <2> QED  BY <1>3, <2>1 DEF NotAtomic, HoldsList
<1> DEFINE X == {x \in Simple : x \in DOMAIN built /\ ~Entangled(d, x) => (NotAtomic(x) <=> HoldsList(d, x))}
<1>4. ASSUME NEW x \in Simple, B[x] \subseteq X, x \in DOMAIN built, ~Entangled(d, x)
      PROVE  NotAtomic(x) <=> HoldsList(d, x)
  <2>1. PICK of : of = d.simple[x].of
    OBVIOUS
  <2>2. /\ of \in Seq(Part) /\ PartsIn(d)[x] = {of[k] : k \in 1..Len(of)}
        /\ d.simple[x].by \in {"restriction", "list", "union"}
        /\ d.simple[x].by # "union" => Len(of) = 1
    BY <1>2, <2>1, PartsTyped
  <2>3. built[x] = Components(d.simple[x].by, of) /\ Component(x) = built[x]
    BY <1>1, <1>4, <2>1 DEF AsDeclaredOK, Component
  <2>4. ASSUME d.simple[x].by # "list", NEW q \in PartsIn(d)[x] PROVE NotAtomic(q) <=> HoldsList(d, q)
    <3>1. CASE q \notin Simple
      BY <1>3, <3>1
    <3>2. CASE q \in Simple
      <4>1. Usable(built, q) /\ q \in PartsOf(built[x])
        BY <1>2, <1>4, <2>1, <2>3, <2>4, BuiltHasParts
      <4>2. q \in B[x] /\ q \in DOMAIN built
        BY <1>1, <1>4, <3>2, <4>1 DEF SimpleParts, Usable
      <4>3. ~Entangled(d, q)
        BY <1>2, <1>4, <2>4, <3>2, PartsNotEntangled
      <4> QED  BY <1>4, <4>2, <4>3
    <3> QED  BY <3>1, <3>2
  <2>5. CASE d.simple[x].by = "list"
    <3>1. Variety(x) = "list"
      BY <2>3, <2>5 DEF Components, Variety
    <3> QED  BY <1>2, <2>5, <3>1, HoldsListUnfolds DEF NotAtomic
  <2>6. CASE d.simple[x].by = "union"
    <3>1. Variety(x) = "union" /\ Component(x).members = PartsIn(d)[x]
      <4>1. DOMAIN of = 1..Len(of)
        BY <2>2
      <4> QED  BY <2>2, <2>3, <2>6, <4>1 DEF Components, Variety
    <3>2. NotAtomic(x) <=> \E m \in Component(x).members : NotAtomic(m)
      BY <3>1, UnionNotAtomic
    <3> QED  BY <1>2, <2>4, <2>6, <3>1, <3>2, HoldsListUnfolds
  <2>7. CASE d.simple[x].by = "restriction"
    <3>1. PICK q : q = of[1]
      OBVIOUS
    <3>2. PartsIn(d)[x] = {q}
      <4>1. 1..Len(of) = {1}
        <5>1. Len(of) = 1
          BY <2>2, <2>7
        <5> QED  BY ONLY <5>1
      <4> QED  BY <2>2, <3>1, <4>1
    <3>3. Component(x) = [Component(q) EXCEPT !.base = q] /\ Component(q) \in Built
      BY <2>3, <2>7, <3>1, ComponentTyped DEF Components
    <3>4. Variety(x) = Variety(q) /\ Component(x).members = Component(q).members
      BY <3>3 DEF Built, Variety
    <3>5. NotAtomic(x) <=> NotAtomic(q)
      <4>1. CASE Variety(x) = "union"
        <5>1. q \in Simple
          BY <3>4, <4>1, ComponentTyped
        <5> QED  BY <3>4, <4>1, <5>1, UnionNotAtomic
      <4>2. CASE Variety(x) # "union"
        BY <3>4, <4>2 DEF NotAtomic
      <4> QED  BY <4>1, <4>2
    <3> QED  BY <1>2, <2>4, <2>7, <3>2, <3>5, HoldsListUnfolds
  <2> QED  BY <2>2, <2>5, <2>6, <2>7
<1>5. DOMAIN B = Simple
  BY <1>1 DEF SimpleParts
<1>6. X \in SUBSET DOMAIN B /\ Progressive(B, X)
  BY <1>4, <1>5 DEF Progressive
<1>7. CASE p \in Simple
  <2>1. p \in DOMAIN built /\ Ends(B, p)
    BY <1>1, <1>7 DEF Usable, BuiltOK
  <2>2. p \in X
    <3> HIDE DEF X
    <3> QED  BY <1>6, <2>1 DEF Ends
  <2> QED  BY <1>1, <2>1, <2>2
<1> QED  BY <1>1, <1>3, <1>7

(* Components do not change with what is built later.                      *)
LEMMA ComponentsStay ==
    ASSUME NEW s, DOMAIN built' = DOMAIN built \cup {s}, s \in Simple \ DOMAIN built,
           \A u \in DOMAIN built : built'[u] = built[u],
           NEW by \in {"restriction", "list", "union"}, NEW parts, by = "restriction" => Usable(built, parts[1])
    PROVE  Components(by, parts)' = Components(by, parts)
<1>1. CASE by = "restriction"
  <2>1. Component(parts[1])' = Component(parts[1])
    BY <1>1 DEF Component, Usable
  <2> QED  BY <1>1, <2>1 DEF Components
<1> QED  BY <1>1 DEF Components

LEMMA CompleteAsDeclared ==
    ASSUME PassOK, SimpleOK, SourcesOK, AsDeclaredOK, CompleteSimple
    PROVE  AsDeclaredOK'
<1>1. PICK d, s, ps : d = declared /\ s = Frame.type /\ ps = Frame.parts
  OBVIOUS
<1>2. PICK by, of : by = d.simple[s].by /\ of = d.simple[s].of
  OBVIOUS
<1>3. PICK c : c = Components(by, ps)
  OBVIOUS
<1>4. /\ d \in Definitions /\ declared' = declared /\ building # << >> /\ Len(ps) = Len(of)
      /\ built' = [u \in DOMAIN built \cup {s} |-> IF u = s THEN c ELSE built[u]]
      /\ refused' = IF Refused(by, of, ps) THEN refused \cup {s} ELSE refused
  BY <1>1, <1>2, <1>3 DEF CompleteSimple, PassOK, Sources
<1>5. BuiltOK
  BY DEF SimpleOK
<1>6. /\ s \in Simple \ DOMAIN built /\ ps \in Seq(Part) /\ of \in Seq(Part) /\ by \in {"restriction", "list", "union"}
      /\ by # "union" => Len(of) = 1
      /\ \A k \in 1..Len(of) : Usable(built, ps[k])
      /\ PartsIn(d)[s] = {of[k] : k \in 1..Len(of)}
  <2>1. /\ s \in Simple \ DOMAIN built /\ Frame \in [type : Simple, parts : Seq(Part)]
        /\ \A k \in DOMAIN Frame.parts : Usable(built, Frame.parts[k])
    BY <1>1, <1>4, NewestFrame
  <2>2. ps \in Seq(Part) /\ DOMAIN ps = 1..Len(of)
    <3>1. ps \in Seq(Part)
      BY <1>1, <2>1
    <3> QED  BY <1>4, <3>1
  <2>3. of \in Seq(Part) /\ by \in {"restriction", "list", "union"} /\ (by # "union" => Len(of) = 1)
    BY <1>2, <1>4, <2>1, PartsTyped
  <2>4. PartsIn(d)[s] = {of[k] : k \in 1..Len(of)}
    BY <1>2, <1>4, <2>1, PartsTyped
  <2> QED  BY <1>1, <2>1, <2>2, <2>3, <2>4
<1>7. DOMAIN built' = DOMAIN built \cup {s} /\ built'[s] = c /\ \A u \in DOMAIN built : built'[u] = built[u]
  BY <1>4, <1>6
<1>8. refused' \subseteq DOMAIN built'
  BY <1>4, <1>7 DEF AsDeclaredOK
<1>9. ASSUME NEW x \in DOMAIN built, ~Entangled(d, x)
      PROVE  /\ built'[x] = Components(d.simple[x].by, d.simple[x].of)'
             /\ x \in refused' <=> IsWrong(d, x)
  <2>1. PICK v, q : v = d.simple[x].by /\ q = d.simple[x].of
    OBVIOUS
  <2>2. built[x] = Components(v, q) /\ (x \in refused <=> IsWrong(d, x))
    BY <1>1, <1>9, <2>1 DEF AsDeclaredOK
  <2>3. x \in Simple /\ v \in {"restriction", "list", "union"}
    BY <1>4, <1>5, <2>1, PartsTyped DEF BuiltOK
  <2>4. v = "restriction" => Usable(built, q[1])
    <3> SUFFICES ASSUME v = "restriction" PROVE Usable(built, q[1])
      OBVIOUS
    <3>1. Len(q) = 1 /\ PartsIn(d)[x] = {q[k] : k \in 1..Len(q)}
      BY <1>4, <2>1, <2>3, PartsTyped
    <3>2. q[1] \in PartsIn(d)[x]
      BY <3>1
    <3> QED  BY <1>4, <1>5, <2>1, <2>2, <3>2, BuiltHasParts
  <2>5. Components(v, q)' = Components(v, q)
    BY <1>6, <1>7, <2>3, <2>4, ComponentsStay
  <2>6. x # s
    BY <1>6
  <2> QED  BY <1>4, <1>7, <2>1, <2>2, <2>5, <2>6
<1>10. ASSUME ~Entangled(d, s)
       PROVE  /\ built'[s] = Components(by, of)'
              /\ s \in refused' <=> IsWrong(d, s)
  <2>1. ASSUME NEW k \in 1..Len(of) PROVE ps[k] = of[k]
    <3>1. PICK n : n = Len(building)
      OBVIOUS
    <3>2. n \in 1..Len(building) /\ building[n].type = s /\ building[n].parts = ps
      BY <1>1, <1>4, <3>1, NewestFrame DEF Frame
    <3>3. ps[k] = of[k] \/ of[k] \in SimpleReported
      BY <1>1, <1>2, <1>4, <3>2 DEF SourcesOK, Follows
    <3>4. of[k] \notin SimpleReported
      <4> SUFFICES ASSUME of[k] \in SimpleReported PROVE FALSE
        OBVIOUS
      <4>1. of[k] \in PartsIn(d)[s] \cap Simple
        BY <1>6 DEF SimpleReported
      <4>2. IsBelow(SimpleIn(d), of[k], of[k])
        BY <1>1 DEF SourcesOK
      <4> QED  BY <1>4, <1>6, <1>10, <4>1, <4>2, PartsNotEntangled
    <3> QED  BY <3>3, <3>4
  <2>2. ps = of
    BY <1>4, <1>6, <2>1
  <2>3. Components(by, of)' = c
    <3>1. by = "restriction" => Usable(built, of[1])
      BY <1>6, <2>2
    <3>2. Components(by, of)' = Components(by, of)
      BY <1>6, <1>7, <3>1, ComponentsStay
    <3> QED  BY <1>3, <2>2, <3>2
  <2>4. Refused(by, of, ps) <=> IsWrong(d, s)
    <3>1. CASE by = "union"
      <4>1. DOMAIN of = 1..Len(of)
        BY <1>6
      <4> QED  BY <1>2, <1>6, <2>2, <3>1, <4>1 DEF Refused, IsWrong
    <3>2. CASE by # "union"
      <4>1. PartsIn(d)[s] = {of[1]} /\ Usable(built, of[1])
        <5>1. 1..Len(of) = {1}
          <6>1. Len(of) = 1
            BY <1>6, <3>2
          <6> QED  BY ONLY <6>1
        <5>2. PartsIn(d)[s] = {of[1]}
          BY <1>6, <5>1
        <5> QED  BY <1>6, <2>2, <5>1, <5>2
      <4>2. CASE by = "restriction"
        BY <1>2, <2>2, <4>1, <4>2 DEF Refused, IsWrong
      <4>3. CASE by = "list"
        <5>1. of[1] \in Simple => ~Entangled(declared, of[1])
          BY <1>1, <1>4, <1>6, <1>10, <4>1, PartsNotEntangled
        <5>2. NotAtomic(of[1]) <=> HoldsList(d, of[1])
          BY <1>1, <1>5, <4>1, <5>1, ListsSeen
        <5> QED  BY <1>2, <2>2, <4>1, <4>3, <5>2 DEF Refused, IsWrong
      <4> QED  BY <1>6, <3>2, <4>2, <4>3
    <3> QED  BY <3>1, <3>2
  <2>5. s \notin refused
    BY <1>6 DEF AsDeclaredOK
  <2> QED  BY <1>4, <1>7, <2>3, <2>4, <2>5
<1>11. ASSUME NEW x \in DOMAIN built', ~Entangled(d, x)
       PROVE  /\ built'[x] = Components(d.simple[x].by, d.simple[x].of)'
              /\ x \in refused' <=> IsWrong(d, x)
  BY <1>2, <1>7, <1>9, <1>10, <1>11
<1> QED  BY <1>1, <1>4, <1>8, <1>11 DEF AsDeclaredOK

LEMMA NextAsDeclared ==
    PassOK /\ SimpleOK /\ SearchOK /\ SourcesOK /\ AsDeclaredOK /\ [Next]_vars => AsDeclaredOK'
<1> SUFFICES ASSUME PassOK, SimpleOK, SearchOK, SourcesOK, AsDeclaredOK, [Next]_vars PROVE AsDeclaredOK'
  OBVIOUS
<1>1. CASE UNCHANGED <<declared, built, refused>>
  <2>1. ASSUME NEW by, NEW parts PROVE Components(by, parts)' = Components(by, parts)
    BY <1>1 DEF Components, Component
  <2>2. PICK d : d = declared
    OBVIOUS
  <2>3. ASSUME NEW x \in DOMAIN built, ~Entangled(d, x)
        PROVE  /\ built[x] = Components(d.simple[x].by, d.simple[x].of)'
               /\ x \in refused <=> IsWrong(d, x)
    <3>1. PICK by, of : by = d.simple[x].by /\ of = d.simple[x].of
      OBVIOUS
    <3>2. built[x] = Components(by, of) /\ (x \in refused <=> IsWrong(d, x))
      BY <2>2, <2>3, <3>1 DEF AsDeclaredOK
    <3> QED  BY <2>1, <3>1, <3>2
  <2> QED  BY <1>1, <2>2, <2>3 DEF AsDeclaredOK
<1>2. CASE CompleteSimple
  BY <1>2, CompleteAsDeclared
<1>3. Elsewhere \/ UNCHANGED vars => UNCHANGED <<declared, built, refused>>
  BY DEF Elsewhere, vars, simpleVars
<1>4. (\E s \in Simple : BuildSimple(s)) \/ ResolvePart => UNCHANGED <<declared, built, refused>>
  BY DEF BuildSimple, ResolvePart
<1> QED  BY <1>1, <1>2, <1>3, <1>4, StepsOfSimpleTypes

(* What NoListOfLists says of the documents, in these terms.               *)
LEMMA ListsRefused ==
    ASSUME PassOK, SimpleOK, AsDeclaredOK
    PROVE  NoListOfLists
<1> DEFINE By(s) == IF s \in Simple THEN declared.simple[s].by ELSE "atomic"
           flat  == [s \in Simple |-> IF By(s) = "list" THEN {} ELSE DeclaredParts[s]]
           Listed(s) == \E u \in {s} \cup (IF s \in Simple THEN PartsReach(flat, s) ELSE {}) : By(u) = "list"
           Tangled(s) == \E u \in {s} \cup DeclaredReach(s) : u \in Simple /\ u \in DeclaredReach(u)
           Wrong(s) == \/ AnySimpleType \in DeclaredParts[s]
                       \/ By(s) = "list" /\ \E u \in DeclaredParts[s] : Listed(u)
<1>1. DeclaredParts = PartsIn(declared)
  BY DEF DeclaredParts, PartsIn
<1>2. ASSUME NEW p PROVE Listed(p) <=> HoldsList(declared, p)
  <2>1. CASE p \notin Simple
    BY <2>1 DEF HoldsList
  <2>2. CASE p \in Simple
    <3>1. PICK F : F = flat
      OBVIOUS
    <3>2. PICK Q : Q = FlatIn(declared)
      OBVIOUS
    <3>3. DOMAIN F = Simple /\ Q = [u \in Simple |-> F[u] \cap Simple]
      BY <1>1, <3>1, <3>2 DEF FlatIn, SimpleIn
    <3>4. \A u \in Simple : u \in PartsReach(F, p) <=> IsBelow(Q, u, p)
      BY <2>2, <3>3, ReachIsAllBelow
    <3>5. Listed(p) <=> \E u \in Simple : By(u) = "list" /\ (u = p \/ u \in PartsReach(F, p))
      BY <2>2, <3>1
    <3> QED  BY <2>2, <3>2, <3>4, <3>5 DEF HoldsList
  <2> QED  BY <2>1, <2>2
<1>3. ASSUME NEW s \in Simple PROVE Tangled(s) <=> Entangled(declared, s)
  BY DeclaredReachIs DEF Entangled
<1>4. ASSUME NEW s \in Simple PROVE Wrong(s) <=> IsWrong(declared, s)
  <2> HIDE DEF Listed, flat
  <2> QED  BY <1>1, <1>2 DEF IsWrong
<1>5. ASSUME phase = "done", NEW s \in Simple, ~Tangled(s) PROVE s \in refused <=> Wrong(s)
  <2>1. s \in DOMAIN built
    BY <1>5 DEF SimpleOK, SimpleDone
  <2> HIDE DEF Wrong, Tangled
  <2> QED  BY <1>3, <1>4, <1>5, <2>1 DEF AsDeclaredOK
<1>6. NoListOfLists <=> (phase = "done" => \A s \in {u \in Simple : ~Tangled(u)} : s \in refused <=> Wrong(s))
  BY DEF NoListOfLists
<1> HIDE DEF Wrong, Tangled
<1> QED  BY <1>5, <1>6

(* Whatever simple types the documents have and whichever is asked for     *)
(* first: of every cycle one type is reported and nothing else is, and a   *)
(* type that leads to no cycle is refused exactly when the documents make  *)
(* it a list of lists or a part of it xs:anySimpleType (buildTypeDecl,     *)
(* buildSTList).                                                           *)
THEOREM SimpleTypesAlwaysExact == Spec => []SimpleTypesExact
<1> DEFINE Inv == PassOK /\ TypesOK /\ SimpleOK /\ SearchOK /\ SourcesOK /\ AsDeclaredOK
<1>1. Init => Inv
  <2>1. Init => AsDeclaredOK
    BY DEF Init, AsDeclaredOK
  <2> QED  BY <2>1, InitTypes, InitSimple, InitSearch, InitSources
<1>2. Inv /\ [Next]_vars => Inv'
  BY NextPass, NextTypes, NextSimple, NextSearch, NextSources, NextAsDeclared
<1>3. Inv => SimpleTypesExact
  BY CyclesReported, ListsRefused DEF SimpleTypesExact
<1> HIDE DEF Inv
<1> QED  BY <1>1, <1>2, <1>3, PTL DEF Spec

=============================================================================
