------------------------------ MODULE Restriction ------------------------------
(***************************************************************************)
(* The restriction of content models, as the schema builder decides it: a  *)
(* base that is a flat all or sequence group of elements and wildcards     *)
(* against a restriction that is one too, or a choice of such runs.        *)
(* Everything else is given up, and nothing is reported for it.            *)
(*                                                                         *)
(* With at most one wildcard in the base, each particle of the restriction *)
(* is mapped to the slot of the one base particle it restricts, and what   *)
(* each slot receives must lie in its range (slotRun).  With more, names   *)
(* are counted by region (regionRun), over a finite set of representative  *)
(* names.  What is reported is a set of the kinds of violation.            *)
(***************************************************************************)
EXTENDS ContentModels

CONSTANTS DerivedFrom,  \* pairs <<r, b>>: type r is validly derived from b by restriction
          AnyTypeName,  \* xs:anyType
          Generic,      \* namespace -> a name of it that no schema mentions
          FreshName     \* a name in a namespace that no schema mentions

(* flatGroup; a reference, also to a flat group, is not looked through.    *)
Flat(p) == p.term.kind \in {"sequence", "all"} /\ \A q \in ToSet(p.term.particles) : IsLeaf(q.term)

(* A run: the particles of a flat group and the occurrence of the group.   *)
Run(parts, top) == [parts |-> parts, top |-> top]

Once == Particle(1, 1, [kind |-> "none"])
IsOnce(p) == p.min = 1 /\ p.max = 1

(* choiceBranches                                                          *)
ChoiceOfRuns(p) ==
    /\ p.term.kind = "choice" /\ IsOnce(p)
    /\ \A c \in ToSet(p.term.particles) : c.term.kind = "element" \/ (Flat(c) /\ IsOnce(c))

Branch(c) == Run(IF c.term.kind = "element" THEN <<c>> ELSE c.term.particles, Once)

(* forEachRestrictionRun                                                   *)
RestrictionRuns(p) ==
    IF Flat(p) THEN {Run(p.term.particles, p)}
    ELSE IF ChoiceOfRuns(p) THEN {Branch(c) : c \in ToSet(p.term.particles)} ELSE {}

(* The range a particle contributes under the occurrence of its group.     *)
MinIn(top, q) == MulOcc(top.min, q.min)
MaxIn(top, q) == MulOcc(top.max, q.max)

(* The sum of those counts whose index is in S.                            *)
Total(counts, S) ==
    LET upTo[k \in 0..Len(counts)] ==
          IF k = 0 THEN 0 ELSE IF k \in S THEN AddOcc(upTo[k - 1], counts[k]) ELSE upTo[k - 1]
    IN  upTo[Len(counts)]

(* The ranges of the particles of a run.                                   *)
Minima(run) == [k \in DOMAIN run.parts |-> MinIn(run.top, run.parts[k])]
Maxima(run) == [k \in DOMAIN run.parts |-> MaxIn(run.top, run.parts[k])]

-----------------------------------------------------------------------------
(* What a declaration of the restriction owes the one it restricts         *)
TypeDerived(r, b) == <<r, b>> \in DerivedFrom

NameTypeOK(r, b, checkTypeTable) ==
    (IF TypeDerived(r.type, b.type) THEN {} ELSE {"type"})
    \cup (IF r.nillable /\ ~b.nillable THEN {"nillable"} ELSE {})
    \cup (IF checkTypeTable /\ r.table # b.table THEN {"table"} ELSE {})

-----------------------------------------------------------------------------
(* At most one base wildcard.  A slot is the index of a base particle.     *)
WildcardSlots(base) == {i \in DOMAIN base.parts : base.parts[i].term.kind = "wildcard"}

(* Mutant: a member of a substitution group has no slot.                   *)
SlotsOfOwnName(base, d) ==
    {i \in DOMAIN base.parts : base.parts[i].term.kind = "element" /\ d.name = base.parts[i].term.decl.name}

SlotsOf(base, d) ==
    {i \in DOMAIN base.parts : base.parts[i].term.kind = "element" /\ d.name \in Accepted(base.parts[i].term.decl)}

BaseWildcard(base) == base.parts[CHOOSE i \in WildcardSlots(base) : TRUE].term.wildcard

(* The slots a particle is mapped to: none, one, or several (ambiguous).   *)
(* Mutant: an element nothing in the base is named like is let through.    *)
MapsToUnchecked(base, q) ==
    IF q.term.kind = "wildcard" THEN WildcardSlots(base)
    ELSE IF SlotsOf(base, q.term.decl) # {} THEN SlotsOf(base, q.term.decl) ELSE WildcardSlots(base)

MapsTo(base, q) ==
    IF q.term.kind = "wildcard" THEN WildcardSlots(base)
    ELSE IF SlotsOf(base, q.term.decl) # {} THEN SlotsOf(base, q.term.decl)
    ELSE {i \in WildcardSlots(base) : AllowsName(base.parts[i].term.wildcard, q.term.decl.name)}

Ambiguous(base, q) == Cardinality(MapsTo(base, q)) > 1

(* slotRunElement, slotRunWildcard                                         *)
MappingReports(base, q) ==
    IF MapsTo(base, q) = {} THEN {"not allowed"}
    ELSE IF q.term.kind = "wildcard"
    THEN (IF NamespaceConstraintSubset(q.term.wildcard, BaseWildcard(base)) THEN {} ELSE {"wildcard"})
    ELSE UNION {NameTypeOK(q.term.decl, base.parts[i].term.decl, TRUE) : i \in SlotsOf(base, q.term.decl)}

(* slotRunCheckSlots                                                       *)
SlotReports(base, run, i) ==
    LET mapped == {k \in DOMAIN run.parts : i \in MapsTo(base, run.parts[k])}
        slot == base.parts[i]
    IN  IF mapped = {} THEN (IF MinIn(base.top, slot) > 0 THEN {"omits"} ELSE {})
        ELSE (IF Total(Minima(run), mapped) < MinIn(base.top, slot) THEN {"fewer"} ELSE {})
             \cup (IF OccLE(Total(Maxima(run), mapped), MaxIn(base.top, slot)) THEN {} ELSE {"more"})

(* slotRun: at an ambiguous particle the rest is given up, what was found  *)
(* before it stays.                                                        *)
SlotRun(base, run) ==
    LET ambiguous == {k \in DOMAIN run.parts : Ambiguous(base, run.parts[k])}
        before    == {k \in DOMAIN run.parts : \A j \in ambiguous : k < j}
        slots     == {i \in DOMAIN base.parts : ambiguous = {}}
    IN  (UNION {MappingReports(base, run.parts[k]) : k \in before})
        \cup (UNION {SlotReports(base, run, i) : i \in slots})

(* wildcardBoundType: a name bound by a wildcard need not be of type b.    *)
BoundAmiss(w, n, b) ==
    IF w.processContents # Skip /\ n \in DOMAIN Globals THEN ~TypeDerived(Globals[n].type, b)
    ELSE w.processContents # Strict /\ b # AnyTypeName

(* unifiedShadow: in an all group, a base element the restriction drops    *)
(* may be bound by the first of its wildcards that allows the name.        *)
Shadow(base, run) ==
    LET named  == UNION {Accepted(q.term.decl) : q \in {q \in ToSet(run.parts) : q.term.kind = "element"}}
        Takers(n) == SelectSeq(run.parts, LAMBDA q : q.term.kind = "wildcard" /\ AllowsName(q.term.wildcard, n))
        Amiss(d) == /\ d.name \notin named /\ Takers(d.name) # << >>
                    /\ BoundAmiss(Takers(d.name)[1].term.wildcard, d.name, d.type)
    IN  IF \E q \in ToSet(base.parts) : q.term.kind = "element" /\ Amiss(q.term.decl) THEN {"shadow"} ELSE {}

-----------------------------------------------------------------------------
(* Two or more base wildcards: regions of names.                           *)

(* collectReps: one name per behaviour the particles can have.             *)
Representatives(parts) ==
    LET named == {q.term.decl.name : q \in {q \in parts : q.term.kind = "element"}}
        wilds == {q.term.wildcard : q \in {q \in parts : q.term.kind = "wildcard"}}
        names == named \cup UNION {w.notQName : w \in wilds}
        spaces == {""} \cup {NamespaceOf[n] : n \in names} \cup UNION {w.namespaces : w \in wilds}
    IN  names \cup {Generic[ns] : ns \in spaces} \cup {FreshName}

(* The names made up for that are no schema's (their local part is none an *)
(* XML name may have).                                                     *)
ASSUME GenericAssumption ==
    /\ "" \in DOMAIN Generic /\ FreshName \in Name /\ NamespaceOf[FreshName] \notin DOMAIN Generic
    /\ \A ns \in DOMAIN Generic : Generic[ns] \in Name /\ NamespaceOf[Generic[ns]] = ns

MadeUp == {Generic[ns] : ns \in DOMAIN Generic} \cup {FreshName}

NamesApart(p) ==
    /\ \A d \in ElementsOf(p) : Accepted(d) \cap MadeUp = {} /\ NamespaceOf[d.name] \in DOMAIN Generic
    /\ \A w \in WildcardsOf(p) : /\ w.notQName \cap MadeUp = {} /\ w.namespaces \subseteq DOMAIN Generic
                                 /\ \A n \in w.notQName : NamespaceOf[n] \in DOMAIN Generic

(* What a base particle, and what a particle of a restriction, accepts of  *)
(* the representative names.                                               *)
Region(q, reps) ==
    {n \in reps : IF q.term.kind = "element" THEN n \in Accepted(q.term.decl) ELSE AllowsName(q.term.wildcard, n)}

Part(q, reps) ==
    {n \in reps : IF q.term.kind = "element" THEN n = q.term.decl.name ELSE AllowsName(q.term.wildcard, n)}

HasSentinel(parts) == \E q \in ToSet(parts) : q.term.kind = "wildcard" /\ q.term.wildcard.keywords # {}

(* checkRegionCardinality, for one region: at least what can only be in it,*)
(* at most what can be in it.                                              *)
SurelyIn(part, region) == part # {} /\ part \subseteq region

RegionCardinality(base, run, region, slot, reps) ==
    LET surely == {k \in DOMAIN run.parts : SurelyIn(Part(run.parts[k], reps), region)}
        maybe  == {k \in DOMAIN run.parts : Part(run.parts[k], reps) \cap region # {}}
    IN  (IF Total(Minima(run), surely) < MinIn(base.top, slot) THEN {"fewer"} ELSE {})
        \cup (IF OccLE(Total(Maxima(run), maybe), MaxIn(base.top, slot)) THEN {} ELSE {"more"})

(* checkRegionNameType: by name alone, type tables aside.                  *)
RegionNameType(base, run) ==
    UNION {IF q.term.kind = "element" /\ r.term.kind = "element" /\ q.term.decl.name = r.term.decl.name
           THEN NameTypeOK(q.term.decl, r.term.decl, FALSE) ELSE {} :
             q \in ToSet(run.parts), r \in ToSet(base.parts)}

RegionRun(base, run) ==
    LET reps == Representatives(ToSet(base.parts) \cup ToSet(run.parts))
        regions == [i \in DOMAIN base.parts |-> Region(base.parts[i], reps)]
        NSCompat(q) == MaxIn(run.top, q) = 0 \/ Part(q, reps) \subseteq UNION ToSet(regions)
        Disjoint == \A i, j \in DOMAIN regions : i # j => regions[i] \cap regions[j] = {}
    IN  IF HasSentinel(run.parts) THEN {}
        ELSE (IF \E q \in ToSet(run.parts) : ~NSCompat(q) THEN {"not allowed"} ELSE {})
             \cup IF ~Disjoint THEN {}
                  ELSE RegionNameType(base, run)
                       \cup UNION {RegionCardinality(base, run, regions[i], base.parts[i], reps) :
                                     i \in DOMAIN base.parts}

-----------------------------------------------------------------------------
(* particleRestrictUnified, for content without open content.              *)
ManyWildcards(b) == Cardinality(WildcardSlots(Run(b.term.particles, b))) >= 2

ParticleRestrict(r, b) ==
    LET base == Run(b.term.particles, b)
        OfRun(run) == IF ManyWildcards(b) THEN RegionRun(base, run)
                      ELSE SlotRun(base, run) \cup IF b.term.kind = "all" THEN Shadow(base, run) ELSE {}
    IN  IF r = NoParticle \/ b = NoParticle \/ ~Flat(b) THEN {}
        ELSE IF ManyWildcards(b) /\ HasSentinel(base.parts) THEN {}
        ELSE UNION {OfRun(run) : run \in RestrictionRuns(r)}

(* Whether the relation was decided, rather than given up.                 *)
Decided(r, b) ==
    LET base == Run(b.term.particles, b)
        reps(run) == Representatives(ToSet(base.parts) \cup ToSet(run.parts))
    IN  /\ r # NoParticle /\ b # NoParticle /\ Flat(b) /\ RestrictionRuns(r) # {}
        /\ \A run \in RestrictionRuns(r) :
             IF ~ManyWildcards(b) THEN \A q \in ToSet(run.parts) : ~Ambiguous(base, q)
             ELSE /\ ~HasSentinel(base.parts) /\ ~HasSentinel(run.parts)
                  /\ \A i, j \in DOMAIN base.parts :
                       i # j => Region(base.parts[i], reps(run)) \cap Region(base.parts[j], reps(run)) = {}

(* checkRedefineGroupRestrict: the groups as contents that occur once.     *)
RedefineGroup(r, b) ==
    IF ParticleRestrict(Particle(1, 1, r), Particle(1, 1, b)) = {} THEN {} ELSE {"redefine"}

-----------------------------------------------------------------------------
(* Open content                                                            *)
NoOpen == [mode |-> "absent", wildcard |-> NoWildcard]   \* nil
Closed == [mode |-> "none", wildcard |-> NoWildcard]

(* effectiveOpenContent                                                    *)
Effective(o) == IF o.mode \in {"absent", "none"} THEN Closed ELSE o
IsOpen(o) == Effective(o) # Closed

Openness(mode) == CASE mode = "interleave" -> 2 [] mode = "suffix" -> 1 [] OTHER -> 0

AtLeastAsStrict(sub, super) == super.processContents = Skip \/ sub.processContents <= super.processContents

(* checkOpenContentRestrict, of content types [particle, mixed, open].     *)
(* Mutant: the modes are compared the wrong way round.                     *)
MoreOpenSwapped(r, b) == Openness(r.open.mode) < Openness(b.open.mode) /\ MatchesNonEmpty(r.particle)

MoreOpen(r, b) == Openness(r.open.mode) > Openness(b.open.mode) /\ MatchesNonEmpty(r.particle)

OpenContentRestrict(r, b) ==
    IF ~IsOpen(r.open) THEN {}
    ELSE IF ~IsOpen(b.open) THEN (IF HasWildcard(b.particle) THEN {} ELSE {"introduces open"})
    ELSE (IF MoreOpen(r, b) THEN {"more open"} ELSE {})
         \cup (IF NamespaceConstraintSubset(r.open.wildcard, b.open.wildcard) THEN {} ELSE {"wider open"})
         \cup (IF AtLeastAsStrict(r.open.wildcard, b.open.wildcard) THEN {} ELSE {"weaker open"})
=============================================================================
