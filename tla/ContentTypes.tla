------------------------------ MODULE ContentTypes ------------------------------
(***************************************************************************)
(* The life of a content type: it is declared, alone or derived from a     *)
(* base; the builder derives its particle and its open content; the static *)
(* checks look at it (Element Declarations Consistent, Unique Particle     *)
(* Attribution, restriction); and instances are matched against it.        *)
(*                                                                         *)
(* A content type is [particle, mixed, open, simple].  What is declared is *)
(*   method: "none" (a base of xs:anyType), "extension", "restriction",    *)
(*           "simple" (a restriction with simple content) or "redefine"    *)
(*           (a group that restricts the one it redefines)                 *)
(*   base:   the content type of the base                                  *)
(*   own:    particle, mixed and the openContent child, if any             *)
(*   default: defaultOpenContent, if any, with appliesToEmpty              *)
(* Matching and attribution look through references and see the empty      *)
(* sequence where there is no particle (Expanded); the other checks do not.*)
(***************************************************************************)
EXTENDS Restriction, UPA, ContentMatch

CONSTANTS Declarations, \* what may be declared: a sequence of sets
          WordsFor(_)   \* the children to match against one

VARIABLES declared, content, reported, stage, children, matched, terms
vars == <<declared, content, reported, stage, children, matched, terms>>

base == declared.base
own  == declared.own

Content(p, mixed, o) == [particle |-> p, mixed |-> mixed, open |-> o, simple |-> FALSE]
SimpleContent == [Content(NoParticle, FALSE, NoOpen) EXCEPT !.simple = TRUE]

MatcherOf(c, w) == Matcher(Expanded(c.particle), w, Effective(c.open))
Matching(c, w)  == Match(MatcherOf(c, w))
Accepts(c, w)   == Matching(c, w).ok

-----------------------------------------------------------------------------
(* What may be declared.  Open content has no wildcard exactly when its    *)
(* mode is none (elemtable.go, "openContent"); what is redefined is a      *)
(* group; an extension nests two particles one deeper; where one type      *)
(* restricts another neither has a name that is made up to compare them.   *)
OpenContents == {NoOpen, Closed} \cup [mode : {"suffix", "interleave"}, wildcard : Wildcard]

Contents ==
    {SimpleContent} \cup [particle : ParticlesTo[Depth - 1] \cup {NoParticle}, mixed : BOOLEAN,
                          open : OpenContents, simple : {FALSE}]

IsDeclaration(d) ==
    /\ d.method \in {"none", "extension", "restriction", "simple", "redefine"}
    /\ d.base \in Contents /\ d.own \in Contents /\ d.default.open \in OpenContents
    /\ d.method = "redefine" => d.own.particle # NoParticle
    /\ d.method \in {"restriction", "redefine"} =>
         \A p \in {d.base.particle, d.own.particle} \ {NoParticle} : NamesApart(p)

ASSUME DeclarationsAssumption ==
    \A i \in DOMAIN Declarations : \A d \in Declarations[i] : IsDeclaration(d) /\ WordsFor(d) \subseteq Seq(Name)

-----------------------------------------------------------------------------
(* The open content a type declares: its own, or the schema's default where *)
(* its own content is not empty (fillElementOnlyContent).                  *)
DeclaredOpen ==
    IF own.open # NoOpen THEN own.open
    ELSE IF own.mixed \/ MatchesNonEmpty(own.particle) \/ declared.default.appliesToEmpty
    THEN declared.default.open ELSE NoOpen

(* allGroupTerm                                                            *)
AllGroup(p) ==
    LET t == IF p.term.kind = "ref" THEN p.term.group ELSE p.term IN {g \in {t} : g.kind = "all"}

(* finishExtensionParticle                                                 *)
MergedAll(b, p) ==
    Particle(p.min, 1, Group("all", (CHOOSE g \in AllGroup(b) : TRUE).particles \o (CHOOSE g \in AllGroup(p) : TRUE).particles))

ExtendedParticle ==
    IF own.particle = NoParticle THEN base.particle
    ELSE IF base.particle = NoParticle THEN own.particle
    ELSE IF AllGroup(base.particle) # {} /\ AllGroup(own.particle) # {} THEN MergedAll(base.particle, own.particle)
    ELSE Particle(1, 1, Group("sequence", <<base.particle, own.particle>>))

AddsContent == own.particle # NoParticle \/ own.mixed

ExtensionReports ==
    LET bothAll == AllGroup(base.particle) # {} /\ AllGroup(own.particle) # {}
        oneAll  == AllGroup(base.particle) \cup AllGroup(own.particle) # {}
        both    == base.particle # NoParticle /\ own.particle # NoParticle
    IN  IF ~AddsContent THEN {}
        ELSE (IF (base.particle # NoParticle \/ base.mixed) /\ own.mixed # base.mixed THEN {"variety"} ELSE {})
             \cup (IF both /\ bothAll /\ own.particle.min # base.particle.min THEN {"all occurrence"} ELSE {})
             \cup (IF both /\ oneAll /\ ~bothAll THEN {"all limited"} ELSE {})

(* inheritExtensionOpenContent                                             *)
(* Mutant: an open content of its own replaces the base's.                 *)
InheritedOpenOwn(o) == IF IsOpen(o) THEN o ELSE Effective(base.open)

InheritedOpen(o) ==
    IF ~IsOpen(o) THEN Effective(base.open)
    ELSE IF ~IsOpen(base.open) THEN o
    ELSE [mode |-> o.mode, wildcard |-> WildcardUnion(base.open.wildcard, o.wildcard)]

(* checkExtensionOpenContent: what is declared decides the mode, a mode of *)
(* none counts as the base's.                                              *)
ContentEmpty(c) == ~c.mixed /\ ~MatchesNonEmpty(c.particle)

ExtensionMode(c) ==
    LET o == IF own.open # NoOpen THEN own.open
             ELSE IF ~ContentEmpty(c) \/ declared.default.appliesToEmpty THEN declared.default.open ELSE NoOpen
    IN  IF IsOpen(o) THEN o.mode ELSE base.open.mode

NarrowsOpen(c) == base.open.mode = "interleave" /\ ExtensionMode(c) = "suffix"

-----------------------------------------------------------------------------
(* finishComplexTypes, for one type                                        *)
Built(c, reports) ==
    /\ stage = "declared" /\ stage' = "built"
    /\ content' = c /\ reported' = reports
    /\ UNCHANGED <<declared, children, matched, terms>>

BuildAlone ==
    /\ declared.method \in {"none", "restriction"}
    /\ Built(Content(own.particle, own.mixed, DeclaredOpen), {})

(* Simple content is kept only when no element content is added.           *)
BuildFromSimple ==
    /\ declared.method = "extension" /\ base.simple
    /\ IF AddsContent
       THEN Built(Content(own.particle, own.mixed, DeclaredOpen), {"simple base"})
       ELSE Built(SimpleContent, {})

(* fillSimpleContent: a mixed base must be emptiable.                      *)
RestrictToSimple ==
    /\ declared.method = "simple"
    /\ Built(SimpleContent,
             IF base.simple THEN {} ELSE IF ~base.mixed THEN {"not simple"}
             ELSE IF Emptiable(base.particle) THEN {} ELSE {"not emptiable"})

BuildExtension ==
    /\ declared.method = "extension" /\ ~base.simple
    /\ LET c == Content(ExtendedParticle, IF AddsContent THEN own.mixed ELSE base.mixed, InheritedOpen(DeclaredOpen))
       IN  Built(c, ExtensionReports \cup IF NarrowsOpen(c) THEN {"narrows open"} ELSE {})

(* checkRedefineGroupRestrict wraps both groups as contents of types.      *)
BuildRedefined ==
    /\ declared.method = "redefine"
    /\ Built(Content(Particle(1, 1, own.particle.term), FALSE, NoOpen), {})

-----------------------------------------------------------------------------
(* collectContentDecls: a group is walked once, a declaration brings those *)
(* that are substitutable for it.                                          *)
(* Mutant: members of substitution groups are not contained.               *)
DeclarationsPlain(p) == ElementsOf(p)

DeclarationsIn(p) == UNION {Contained(d) : d \in ElementsOf(p)}

SameType(d, e) == d.type = e.type /\ d.table = e.table

(* checkElementConsistent.  The first declaration of a name is compared    *)
(* with the others; which one is first does not matter for an equivalence. *)
ElementConsistent(p) ==
    LET decls == DeclarationsIn(p)
        wilds == {w \in WildcardsOf(p) : w.processContents # Skip}
        Bound == {n \in DOMAIN Globals : Globals[n] \notin decls /\ \E w \in wilds : AllowsName(w, n)}
    IN  (IF \E d, e \in decls : d.name = e.name /\ ~SameType(d, e) THEN {"inconsistent"} ELSE {})
        \cup (IF \E d \in decls : d.name \in Bound /\ Globals[d.name].table # d.table
              THEN {"inconsistent wildcard"} ELSE {})

UPAReports(p) == IF AllUPA(p) \cup SeqChoiceUPA(p) = {} THEN {} ELSE {"ambiguous"}

RestrictionReports ==
    IF declared.method = "redefine" THEN RedefineGroup(own.particle.term, base.particle.term)
    ELSE IF declared.method # "restriction" THEN {}
    ELSE OpenContentRestrict(content, base)
         \cup IF content.open = NoOpen /\ base.open = NoOpen
              THEN ParticleRestrict(content.particle, base.particle) ELSE {}

(* runStaticTypeChecks                                                     *)
Check ==
    /\ stage = "built" /\ stage' = "checked"
    /\ reported' = reported \cup RestrictionReports
                   \cup IF content.simple THEN {}
                        ELSE LET p == Expanded(content.particle) IN ElementConsistent(p) \cup UPAReports(p)
    /\ UNCHANGED <<declared, content, children, matched, terms>>

(* An instance (the validator uses a schema also when it has reports).     *)
MatchChildren(w) ==
    /\ stage = "checked" /\ ~content.simple /\ stage' = "matched"
    /\ LET m == Matching(content, w)
       IN  children' = w /\ matched' = (IF m.ok THEN "yes" ELSE "no") /\ terms' = m.terms
    /\ UNCHANGED <<declared, content, reported>>

Init ==
    /\ \E i \in DOMAIN Declarations : declared \in Declarations[i]
    /\ content = SimpleContent /\ reported = {} /\ stage = "declared"
    /\ children = << >> /\ matched = "pending" /\ terms = << >>

Next ==
    \/ BuildAlone \/ BuildFromSimple \/ RestrictToSimple \/ BuildExtension \/ BuildRedefined
    \/ Check
    \/ \E w \in WordsFor(declared) : MatchChildren(w)

Spec == Init /\ [][Next]_vars
=============================================================================
