------------------------------ MODULE Derivation ------------------------------
(***************************************************************************)
(* Which type may stand for which: the derivation queries of xsdwalk, asked *)
(* while an instance is assessed (xsi:type, locally declared types,        *)
(* substitution groups), and those of the schema builder (type             *)
(* alternatives, restrictions, substitution group affiliations).           *)
(*                                                                         *)
(* A schema is declared component by component, what a component refers to *)
(* first: the builder has reported and broken every cycle (module Cycles). *)
(* Types are numbered, base before derived, 0 is "no type".                *)
(***************************************************************************)
EXTENDS Naturals, Sequences, FiniteSets

CONSTANTS TypeBlocks,    \* {prohibited substitutions} a complex type may have
          ElementBlocks, \* {disallowed substitutions} an element may have
          Finals,        \* {substitution group exclusions} an element may have
          MaxTypes,      \* built-in and declared types
          MaxSize        \* of a schema with elements, which count for two

Methods == {"extension", "restriction"}

VARIABLES
  types,     \* the type definitions
  elements,  \* the global element declarations
  reported   \* elements checkSubstitutionGroupExclusions reports

derivationVars == <<types, elements, reported>>

NoType == 0
AnyType == 1
AnySimpleType == 2
AString == 3

Atomic(b)  == [variety |-> "atomic", base |-> b, method |-> "restriction",
               members |-> {}, facets |-> FALSE, block |-> {}]
UrType     == [Atomic(NoType) EXCEPT !.variety = "complex", !.method = "none"]

DerivationInit ==
    /\ types = <<UrType, Atomic(AnyType), Atomic(AnySimpleType)>>
    /\ elements = << >>
    /\ reported = {}

Types == 1..Len(types)
IsComplex(t) == types[t].variety = "complex"
IsUnion(t)   == types[t].variety = "union"
Simple       == {t \in Types : ~IsComplex(t) /\ t # AnySimpleType}

Declarations == [type : Types, block : ElementBlocks, final : Finals, heads : SUBSET DOMAIN elements]

-----------------------------------------------------------------------------
(* The base chain                                                          *)
Ancestors(t) ==
    LET up[c \in 0..Len(types)] == IF c = NoType THEN {} ELSE {c} \cup up[types[c].base]
    IN  up[t]

derivationMethod(t) ==
    IF IsComplex(t) THEN types[t].method
    ELSE IF types[t].variety = "atomic" THEN "restriction" ELSE types[t].variety

(* The steps from d up to b.                                               *)
StepsTo(d, b) == {c \in Ancestors(d) : c > b}

derivationMethods(d, b) == {derivationMethod(c) : c \in StepsTo(d, b)}

-----------------------------------------------------------------------------
(* xsdwalk: the queries of an assessment                                   *)
Climbs(d, b, blocked) ==
    b \in Ancestors(d) /\ derivationMethods(d, b) \cap blocked = {}

(* Mutant: a union that was narrowed is passed through.                    *)
derivedFromAnyMember(d, u, blocked) ==
    LET from[v \in Types] == \E m \in types[v].members :
          IF IsUnion(m) THEN from[m] ELSE d = m \/ Climbs(d, m, blocked)
    IN  from[u]

derivedFromUnionMember(d, u, blocked) ==
    LET from[v \in Types] ==
          /\ ~types[v].facets
          /\ \E m \in types[v].members :
                IF IsUnion(m) THEN from[m] ELSE d = m \/ Climbs(d, m, blocked)
    IN  from[u]

DerivationOK(d, b, blocked) ==
    \/ d = b
    \/ IsUnion(b) /\ derivedFromUnionMember(d, b, blocked)
    \/ Climbs(d, b, blocked)

Exclusions(h) ==
    elements[h].final \cup elements[h].block \cup types[elements[h].type].block

(* One link of a substitution chain.                                       *)
Linked(m, h) ==
    /\ h \in elements[m].heads
    /\ "substitution" \notin elements[h].block
    /\ DerivationOK(elements[m].type, elements[h].type, Exclusions(h))

(* substChain: heads are declared before members, so `seen` never stops a  *)
(* search that could succeed.                                              *)
SubstitutableFor(m, h) ==
    LET chain[e \in DOMAIN elements] ==
          \E x \in elements[e].heads : Linked(e, x) /\ (x = h \/ chain[x])
    IN  m = h \/ ("substitution" \notin elements[h].block /\ chain[m])

-----------------------------------------------------------------------------
(* parser: the queries of the builder                                      *)
BasicMembers(u) ==
    LET flat[v \in Types] ==
          UNION {IF IsUnion(m) THEN flat[m] ELSE {m} : m \in types[v].members}
    IN  flat[u]

(* Mutant: only the last derivation is looked at, not those before it.     *)
SubstitutableByLastStep(s, t, block) ==
    t \in Ancestors(s) /\ (s = t \/ derivationMethod(s) \notin block \cup types[t].block)

SubstitutableByChain(s, t, block) ==
    t \in Ancestors(s) /\ derivationMethods(s, t) \cap (block \cup types[t].block) = {}

validlySubstitutable(s, t, block) ==
    \/ t = AnyType
    \/ SubstitutableByChain(s, t, block)
    \/ /\ t \notin Ancestors(s) /\ IsUnion(t)
       /\ \E m \in BasicMembers(t) : SubstitutableByChain(s, m, block)

stDerivedFromUnion(d, u) ==
    LET from[v \in Types] ==
          /\ ~types[v].facets
          /\ \E m \in types[v].members : m \in Ancestors(d) \/ (IsUnion(m) /\ from[m])
    IN  from[u]

involvesUnion(t) == \E c \in Ancestors(t) : IsUnion(c)

validlyDerivedByRestriction(r, b) ==
    \/ b \in Ancestors(r)
    \/ IF IsUnion(b) THEN stDerivedFromUnion(r, b) ELSE ~IsComplex(r) /\ involvesUnion(r)

(* Mutant: only immediate members are counted.                             *)
AcceptedAtOnce(h) == {h} \cup {m \in DOMAIN elements : h \in elements[m].heads}

(* The members whose names a particle for h is taken to match by the       *)
(* static checks: types and blocks are not looked at.                      *)
Accepted(h) ==
    LET in[m \in DOMAIN elements] == m = h \/ \E x \in elements[m].heads : in[x]
    IN  {m \in DOMAIN elements : in[m]}

(* checkSubstitutionGroupExclusions                                        *)
Excluded(t, h) ==
    \/ elements[h].type \notin Ancestors(t)
    \/ derivationMethods(t, elements[h].type) \cap elements[h].final # {}

-----------------------------------------------------------------------------
(* Declarations                                                            *)
Declare(t) == types' = Append(types, t) /\ UNCHANGED <<elements, reported>>

MoreTypes == Len(types) < MaxTypes /\ elements = << >>

(* A simple type by restriction; facets are looked at on unions only.      *)
RestrictSimple(b, facets) ==
    /\ MoreTypes
    /\ facets => IsUnion(b)
    /\ Declare([types[b] EXCEPT !.base = b, !.facets = @ \/ facets])

ListOf(item) ==
    /\ MoreTypes
    /\ \A m \in {item} \cup BasicMembers(item) : types[m].variety = "atomic" \/ IsUnion(m)
    /\ Declare([Atomic(AnySimpleType) EXCEPT !.variety = "list"])

UnionOf(members) ==
    /\ MoreTypes
    /\ Declare([Atomic(AnySimpleType) EXCEPT !.variety = "union", !.members = members])

(* A complex type; the base of an extension may be simple.                 *)
DeriveComplex(b, method, block) ==
    /\ MoreTypes
    /\ IsComplex(b) \/ method = "extension"
    /\ Declare([UrType EXCEPT !.base = b, !.method = method, !.block = block])

DeclareElement(e) ==
    /\ Len(types) + 2 * Len(elements) < MaxSize - 1
    /\ elements' = Append(elements, e)
    /\ reported' = IF \E h \in e.heads : Excluded(e.type, h)
                   THEN reported \cup {Len(elements) + 1} ELSE reported
    /\ UNCHANGED types

DerivationNext ==
    \/ \E b \in Simple, facets \in BOOLEAN : RestrictSimple(b, facets)
    \/ \E item \in Simple : ListOf(item)
    \/ \E members \in SUBSET Simple : members # {} /\ Cardinality(members) <= 2 /\ UnionOf(members)
    \/ \E b \in Types, method \in Methods, block \in TypeBlocks : DeriveComplex(b, method, block)
    \/ \E e \in Declarations : DeclareElement(e)

DerivationSpec == DerivationInit /\ [][DerivationNext]_derivationVars

=============================================================================
