---------------------------- MODULE ContentTypeRules ----------------------------
(***************************************************************************)
(* What the checks of a content type promise about the instances that are  *)
(* matched against it.                                                     *)
(***************************************************************************)
EXTENDS ContentTypes, TLC

CONSTANT Witnesses(_)  \* declared -> children among which a counterexample is looked for

Checked == stage \in {"checked", "matched"}

-----------------------------------------------------------------------------
(* The matcher accepts exactly the words of the language of the content    *)
(* model, open content included: its greedy search with its guard against  *)
(* empty occurrences loses no word and invents none; and the attributions  *)
(* it returns, written and rewritten while backtracking, are one run of    *)
(* the model from the first child to the last.  (Two all groups that are   *)
(* references with a minimum above 1 are merged into one whose maximum is  *)
(* below its minimum; no check refuses that, and it is left out here.)     *)
MatchExact ==
    stage = "matched" /\ Within(content.particle.min, content.particle.max) =>
      \A runs \in {ModelRuns(MatcherOf(content, children))} :
        IF matched = "yes" THEN terms \in runs ELSE runs = {}

FixedCount[p \in Particles] ==
    (p.min = p.max /\ p.max > 1) \/ (IsGroup(p.term) /\ \E q \in ToSet(p.term.particles) : FixedCount[q])

(* What the automaton of a sequence or choice, or the test of an all group *)
(* reports does compete for a child (3.8.4.2), and no way two leaves can   *)
(* compete is missed (3.8.6.4).  The code takes a fixed number of          *)
(* occurrences for any number, wildcards that disallow names for disjoint  *)
(* and nested all groups one by one: of models with the first only the     *)
(* second half is claimed, of models with the others only the first half.  *)
AmbiguityExact ==
    stage = "checked" /\ declared.method = "none" =>
      \A p \in {Expanded(content.particle)} : \A prohibited \in {Prohibited(p)} :
        /\ FixedCount[p] \/ AllUPA(p) \cup SeqChoiceUPA(p) \subseteq prohibited
        /\ \/ "ambiguous" \in reported
           \/ Cardinality({g \in GroupPlaces[p] : TermAt(p, g).kind = "all"}) > 1
           \/ \E w \in WildcardsOf(p) : Disallows(w)
           \/ prohibited = {}

-----------------------------------------------------------------------------
(* What the children of accepted words are attributed to: <<name, term>>.  *)
Attributions ==
    UNION {{<<wm[1][k], wm[2].terms[k]>> : k \in DOMAIN wm[2].terms} : wm \in {<<w, Matching(content, w)>> : w \in Witnesses(declared)}}

(* Where no ambiguity is reported: an inconsistency is reported for two    *)
(* declarations exactly when a child of one name can be given to two of    *)
(* different types; and when none is, no wildcard that is not skip can     *)
(* give a child to a global declaration with another type table than that  *)
(* a declaration of the model gives to a child of the same name (3.8.6.3). *)
ConsistencyExact ==
    stage = "checked" /\ declared.method = "none" /\ "ambiguous" \notin reported =>
      \A seen \in {Attributions} :
      LET elements == {a \in seen : a[2].by = "element"}
          wild == {a \in seen : a[2].by = "wildcard" /\ a[2].what.processContents # Skip /\ a[1] \in DOMAIN Globals}
      IN  /\ "inconsistent" \in reported <=>
                \E a, b \in elements : a[1] = b[1] /\ ~SameType(a[2].what, b[2].what)
          /\ "inconsistent wildcard" \notin reported /\ "inconsistent" \notin reported =>
                \A a \in elements, b \in wild : a[1] = b[1] => Globals[b[1]].table = a[2].what.table

-----------------------------------------------------------------------------
(* The types a child of name n may have when it is given to a term; that   *)
(* of a child nothing is known of is xs:anyType.                           *)
Governing(term, n) ==
    LET global == IF n \in DOMAIN Globals THEN {Globals[n].type} ELSE {}
    IN  IF term.by = "element" THEN {term.what.type}
        ELSE IF term.what.processContents = Skip THEN {AnyTypeName}
        ELSE IF global # {} THEN global
        ELSE IF term.what.processContents = Lax THEN {AnyTypeName} ELSE {}

(* ... in the restriction, against a declaration of the base that takes    *)
(* the same child (content type restricts, 3.4.6.4 clause 2).              *)
Subsumed(term, n, d) ==
    /\ \A t \in Governing(term, n) : TypeDerived(t, d.type)
    /\ term.by = "element" => (term.what.nillable => d.nillable) /\ term.what.table = d.table

(* The children of an instance of the restriction that the base does not   *)
(* accept, or accepts with another declaration of some child.              *)
Counterexample(w) ==
    LET Takes_(k) == UNION {AcceptElement(d, w[k]) : d \in ElementsOf(Expanded(base.particle))}
    IN  \E m \in {Matching(content, w)} :
        /\ m.ok
        /\ \/ ~Accepts(base, w)
           \/ \E k \in DOMAIN w : m.terms[k].by # "open" /\ \E d \in Takes_(k) : ~Subsumed(m.terms[k], w[k], d)

(* A base none of the static checks of its own objects to.                 *)
SoundBase ==
    LET p == Expanded(base.particle) IN UPAReports(p) = {} /\ ElementConsistent(p) = {}

NoKeywords(c) == \A w \in WildcardsOf(Expanded(c.particle)) : w.keywords = {}

(* With one wildcard in the base the slots are taken to be disjoint.       *)
NoOverlap(p) ==
    \A w \in WildcardsOf(p), d \in ElementsOf(p) : \A n \in Accepted(d) : ~AllowsName(w, n)

Particular == {"type", "nillable", "table", "not allowed", "wildcard", "omits", "fewer", "more", "shadow", "redefine"}

(* A violation reported for the particle of a restriction, or of a group   *)
(* redefined, is real: some children are accepted that the original does   *)
(* not accept, or not with those types.  Where the one wildcard of the     *)
(* base admits names of the elements beside it, and where a wildcard has   *)
(* keywords, the code does report valid restrictions.                      *)
ViolationsAreReal ==
    /\ stage = "checked" /\ declared.method \in {"restriction", "redefine"} /\ reported \cap Particular # {}
    /\ SoundBase /\ NoKeywords(base) /\ NoKeywords(content)
    /\ NoOverlap(Expanded(base.particle)) \/ Cardinality(WildcardsOf(Expanded(base.particle))) > 1
    => \E w \in Witnesses(declared) : Counterexample(w)

Reorderings(w) == {[i \in DOMAIN w |-> w[f[i]]] : f \in Bijection(DOMAIN w, DOMAIN w)}

(* A name that no declaration of the base stands for.                      *)
OnlyByWildcard(q) == q \notin UNION {Accepted(d) : d \in ElementsOf(base.particle)}

(* The check goes by the names that affiliations to substitution groups    *)
(* give a declaration.  It is right to do so when the declaration of the   *)
(* base then takes the children that come under that name: it may be       *)
(* abstract, or block them, or be a local one of the same name as a head   *)
(* of others; and a child only the wildcard of the base takes may have     *)
(* substitutes that it does not admit.                                     *)
NamesKept ==
    LET Takes_(d, n) == AcceptElement(d, n) # {}
    IN  /\ \A d \in ElementsOf(content.particle), n \in Name : Takes_(d, n) =>
             IF OnlyByWildcard(d.name) THEN n = d.name
             ELSE \A e \in ElementsOf(base.particle) : d.name \in Accepted(e) => Takes_(e, n)
        /\ ManyWildcards(base.particle) =>
             \A w \in WildcardsOf(content.particle), e \in ElementsOf(base.particle) :
               \A n \in Accepted(e) : AllowsName(w, n) => Takes_(e, n)

(* A restriction the relation decided and found nothing amiss with allows  *)
(* no children the base does not, the order aside, which it does not look  *)
(* at: each base particle gets as many as its range allows.  Of a base     *)
(* that may occur other than once only the totals are compared.            *)
AcceptedRestricts ==
    /\ stage = "matched" /\ declared.method \in {"restriction", "redefine"} /\ matched = "yes"
    /\ reported = {} /\ Decided(content.particle, base.particle) /\ IsOnce(base.particle)
    /\ content.open = NoOpen /\ base.open = NoOpen
    /\ NoKeywords(base) /\ NoKeywords(content) /\ NamesKept
    => \E w \in Reorderings(children) : Accepts(base, w)

-----------------------------------------------------------------------------
(* Children the base does not accept, or assesses more strictly.           *)
Looser(w) ==
    \E m \in {Matching(content, w)}, b \in {Matching(base, w)} :
      /\ m.ok
      /\ b.ok => \E k \in DOMAIN w : /\ m.terms[k].by = "open" /\ b.terms[k].by = "open"
                                     /\ ~AtLeastAsStrict(m.terms[k].what, b.terms[k].what)

(* Open content of a restriction that keeps the particle of its base, one  *)
(* without wildcards: nothing is reported only if all children accepted    *)
(* are accepted by the base, and assessed as strictly; and what is         *)
(* reported is real.  Where the base's open content admits elements of its *)
(* own model, the code does report a valid change of the mode; where the   *)
(* model is a reference to a group, it does not report an invalid one.     *)
OpenContentExact ==
    /\ stage = "checked" /\ declared.method = "restriction" /\ own.particle = base.particle
    /\ WildcardsOf(Expanded(base.particle)) = {} /\ "ambiguous" \notin reported /\ IsOpen(content.open)
    /\ base.particle \in {NoParticle, Expanded(base.particle)}
    =>
    LET absorbs == IsOpen(base.open) /\ \E d \in ElementsOf(Expanded(base.particle)) : AllowsName(base.open.wildcard, d.name)
    IN  \A refuted \in {\E w \in Witnesses(declared) : Looser(w)} :
        /\ refuted => reported # {}
        /\ reported # {} /\ (absorbs => reported # {"more open"}) => refuted

-----------------------------------------------------------------------------
(* No choice without a member, which the matcher never matches, and in an  *)
(* all group no group of another kind, which it does not look into (and    *)
(* which the builder reports, checkAllLimited).                            *)
WellGrouped[p \in Particles] ==
    \/ IsLeaf(p.term)
    \/ /\ IsGroup(p.term) /\ (p.term.kind = "choice" => p.term.particles # << >>)
       /\ \A q \in ToSet(p.term.particles) :
            WellGrouped[q] /\ (p.term.kind = "all" => IsLeaf(q.term) \/ q.term.kind = "all")

(* What the extension adds can be left out: then what the base accepts,    *)
(* its open content included, the extension accepts too.                   *)
AddsOptional ==
    /\ WellGrouped[Expanded(own.particle)]
    /\ IF AllGroup(own.particle) # {} /\ AllGroup(base.particle) # {}
       THEN TermEmptiable(CHOOSE g \in AllGroup(own.particle) : TRUE) ELSE Emptiable(own.particle)

(* What the extension adds may be excluded by a ##definedSibling of the    *)
(* base.                                                                   *)
ExcludesSiblings(c) ==
    \/ \E w \in WildcardsOf(Expanded(c.particle)) : "##definedSibling" \in w.keywords
    \/ IsOpen(c.open) /\ "##definedSibling" \in c.open.wildcard.keywords

(* An extension nothing is reported for keeps the instances of its base    *)
(* that add nothing: neither the merged all groups, nor the sequence, nor  *)
(* the union of the open contents loses one.  (An all group that occurs    *)
(* more than once, which a reference to it may, is merged into one that    *)
(* does not.)                                                              *)
ExtensionKeepsContent ==
    ( /\ stage = "matched" /\ declared.method = "extension" /\ reported = {} /\ AddsOptional
      /\ ~ExcludesSiblings(base)
      /\ AllGroup(own.particle) # {} /\ AllGroup(base.particle) # {} => base.particle.max \in {0, 1} )
    => (Accepts(base, children) => matched = "yes")

-----------------------------------------------------------------------------
(* A mixed type may be restricted to simple content exactly when it allows *)
(* an element without children; an empty choice counts as emptiable all    *)
(* the same (3.8.6.5 gives it a range from 0), and is left out here.       *)
EmptiableExact ==
    Checked /\ declared.method = "simple" /\ base.mixed /\ WellGrouped[Expanded(base.particle)] =>
      ("not emptiable" \in reported <=> ~Accepts(base, << >>))
=============================================================================
