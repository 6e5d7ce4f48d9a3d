----------------------------- MODULE ContentModels -----------------------------
(***************************************************************************)
(* Content models: the particles that the schema builder compares and the  *)
(* matcher follows, and the simple questions both ask of them.             *)
(*                                                                         *)
(* A particle is [min, max, term], or NoParticle (Go's nil).  A term is    *)
(*   [kind |-> "element", decl |-> d], [kind |-> "wildcard", wildcard |-> w],*)
(*   [kind |-> "sequence" | "choice" | "all", particles |-> seq],          *)
(*   [kind |-> "ref", group |-> t]    a reference to a named group.        *)
(* An element declaration is [name, type, table, nillable, abstract,       *)
(* global]; a type is known by its name, a type table by a value.          *)
(***************************************************************************)
EXTENDS Wildcards, Integers, FiniteSets, SequencesExt

CONSTANTS Globals,     \* name -> global element declaration
          Members,     \* subMembers: the pairs <<member, head>> of declarations
          Elements,    \* the element declarations
          Depth        \* how deep groups may be nested

ASSUME DepthAssumption == Depth \in Nat \ {0}

(* Occurrence counts, and the arithmetic the schema builder does on them    *)
(* when it compares the ranges of two content models.                      *)
Unbounded == -1   \* xsd.UnboundedOccurs

(* n times zero is zero, also for an unbounded n.                          *)
MulOcc(a, b) ==
    IF a = 0 \/ b = 0 THEN 0
    ELSE IF a = Unbounded \/ b = Unbounded THEN Unbounded ELSE a * b

AddOcc(a, b) == IF a = Unbounded \/ b = Unbounded THEN Unbounded ELSE a + b

OccLE(a, b) == b = Unbounded \/ (a # Unbounded /\ a <= b)

(* A particle may occur n times under the maximum m.                       *)
Within(n, m) == m = Unbounded \/ n <= m

-----------------------------------------------------------------------------
Particle(lo, hi, t) == [min |-> lo, max |-> hi, term |-> t]
Group(kind, ps)     == [kind |-> kind, particles |-> ps]

NoParticle == Particle(0, 0, [kind |-> "none"])

IsGroup(t) == t.kind \in {"sequence", "choice", "all"}
IsLeaf(t)  == t.kind \in {"element", "wildcard"}

(* The particles whose groups are nested at most n deep.  A minimum above   *)
(* the maximum is refused before anything is built (checkOccurs).          *)
LeafTerm == [kind : {"element"}, decl : Elements] \cup [kind : {"wildcard"}, wildcard : Wildcard]
GroupsOf(particles) == [kind : {"sequence", "choice", "all"}, particles : Seq(particles)]
TermsOver(groups)   == LeafTerm \cup groups \cup [kind : {"ref"}, group : groups]
ParticlesOf(terms)  == {p \in [min : Nat, max : Nat \cup {Unbounded}, term : terms] : Within(p.min, p.max)}

ParticlesTo[n \in Nat] == ParticlesOf(TermsOver(IF n = 0 THEN {} ELSE GroupsOf(ParticlesTo[n - 1])))

Particles == ParticlesTo[Depth]

(* What the matcher sees: the group a reference stands for, and the empty  *)
(* sequence where there is no particle.                                    *)
Referred(t) == IF t.kind = "ref" THEN t.group ELSE t

Unfolded[p \in Particles] ==
    LET t == Referred(p.term)
    IN  IF IsLeaf(t) THEN p
        ELSE [p EXCEPT !.term = Group(t.kind, [i \in DOMAIN t.particles |-> Unfolded[t.particles[i]]])]

Expanded(p) == IF p = NoParticle THEN Particle(1, 1, Group("sequence", << >>)) ELSE Unfolded[p]

(* The terms of a particle that are not groups, through references.        *)
Leaves[p \in Particles] ==
    LET t == Referred(p.term) IN IF IsLeaf(t) THEN {t} ELSE UNION {Leaves[q] : q \in ToSet(t.particles)}

ElementsOf(p)  == {t.decl : t \in {t \in Leaves[p] : t.kind = "element"}}
WildcardsOf(p) == {t.wildcard : t \in {t \in Leaves[p] : t.kind = "wildcard"}}

-----------------------------------------------------------------------------
(* A declaration with all that is, however indirectly, substitutable for   *)
(* it, by the affiliations alone.                                          *)
Contained(d) ==
    LET within[n \in Nat] ==
          IF n = 0 THEN {d} ELSE within[n - 1] \cup {m[1] : m \in {m \in Members : m[2] \in within[n - 1]}}
    IN  within[Cardinality(Members)]

Accepted(d) == {e.name : e \in Contained(d)}

-----------------------------------------------------------------------------
(* particleEmptiable, mgEmptiable                                          *)
(* Mutant: any optional member makes a group emptiable.                    *)
AnyEmptiable(kind, members) == members = {} \/ TRUE \in members

GroupEmptiable(kind, members) ==
    IF kind = "choice" THEN members = {} \/ TRUE \in members ELSE FALSE \notin members

CanBeEmpty[p \in Particles] ==
    LET t == Referred(p.term)
    IN  \/ p.min = 0
        \/ IsGroup(t) /\ GroupEmptiable(t.kind, {CanBeEmpty[q] : q \in ToSet(t.particles)})

Emptiable(p) == p = NoParticle \/ CanBeEmpty[p]
TermEmptiable(t) == GroupEmptiable(t.kind, {CanBeEmpty[q] : q \in ToSet(t.particles)})

(* particleMatchesNonEmpty: a reference to a group counts for nothing.     *)
CanConsume[p \in Particles] ==
    /\ p.max # 0
    /\ IsLeaf(p.term) \/ (IsGroup(p.term) /\ \E q \in ToSet(p.term.particles) : CanConsume[q])

MatchesNonEmpty(p) == p # NoParticle /\ CanConsume[p]

(* particleHasWildcard: neither does it here.                              *)
Wild[p \in Particles] ==
    \/ p.term.kind = "wildcard"
    \/ IsGroup(p.term) /\ \E q \in ToSet(p.term.particles) : Wild[q]

HasWildcard(p) == p # NoParticle /\ Wild[p]
=============================================================================
