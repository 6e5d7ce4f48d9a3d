---------------------------- MODULE DerivationRules ----------------------------
(***************************************************************************)
(* The derivation queries against the constraints they implement, read in  *)
(* the Recommendation kept under docs/clean: Type Derivation OK (Simple    *)
(* and Complex) and Substitution Group OK (Transitive).                    *)
(***************************************************************************)
EXTENDS Derivation

(* The transitive membership of u that no narrowed union stands before.    *)
Membership(u) ==
    LET in[v \in Types] ==
          IF types[v].facets THEN {}
          ELSE types[v].members \cup UNION {in[m] : m \in {x \in types[v].members : IsUnion(x)}}
    IN  in[u]

(* cos-st-derived-ok.                                                      *)
SimpleDerived(d, b, blocked) ==
    LET ok[p \in Types \X Types] ==
          LET x == p[1]
              y == p[2]
          IN  \/ x = y
              \/ /\ "restriction" \notin blocked
                 /\ \/ types[x].base = y
                    \/ types[x].base \notin {NoType, AnyType} /\ ok[<<types[x].base, y>>]
                    \/ types[x].variety \in {"list", "union"} /\ y = AnySimpleType
                    \/ \E m \in Membership(y) : ok[<<x, m>>]
    IN  ok[<<d, b>>]

(* cos-ct-derived-ok, which leaves simple types to the other.              *)
Derived(d, b, blocked) ==
    LET ok[t \in Types] ==
          IF ~IsComplex(t) THEN SimpleDerived(t, b, blocked)
          ELSE \/ t = b
               \/ /\ types[t].method \notin blocked
                  /\ \/ types[t].base = b
                     \/ types[t].base \notin {NoType, AnyType} /\ ok[types[t].base]
    IN  ok[d]

(* cos-equiv-derived-ok-rec; "intermediate" as in clause 2.3 (3).          *)
Intermediate(d, b) == StepsTo(d, b) \ {d}

SubstitutionOK(m, h) ==
    \/ m = h
    \/ /\ "substitution" \notin elements[h].block
       /\ m \in Accepted(h)
       /\ elements[h].type \in Ancestors(elements[m].type)
       /\ derivationMethods(elements[m].type, elements[h].type) \cap
            UNION ({elements[h].block, types[elements[h].type].block} \cup
                   {types[t].block : t \in Intermediate(elements[m].type, elements[h].type)}) = {}

NestedUnion(b) == \E m \in types[b].members : IsUnion(m)
PastListOrUnion(d, b) == IsUnion(b) \/ derivationMethods(d, b) \cap {"list", "union"} # {}

-----------------------------------------------------------------------------
(* DerivationOK (xsdwalk/query.go) decides what xsi:type may name: it must *)
(* accept exactly what the Recommendation calls validly derived, through   *)
(* simple content, across the complex/simple boundary and into unions.     *)
(* Two exceptions, where the code does not: members that are unions, and   *)
(* restriction blocked where a list or a union is passed.  (Types are      *)
(* declared before elements, which do not change them.)                    *)
XsiTypeExact ==
    elements = << >> => \A d, b \in Types : \A blocked \in SUBSET Methods :
        \/ NestedUnion(b)
        \/ "restriction" \in blocked /\ PastListOrUnion(d, b)
        \/ DerivationOK(d, b, blocked) = Derived(d, b, blocked)

(* What the builder calls validly derived by restriction is a necessary    *)
(* condition (parser/restrict.go): nothing that is validly derived is ever *)
(* rejected, unions of unions included.                                    *)
RestrictionNecessary ==
    elements = << >> => \A r, b \in Types : Derived(r, b, {}) => validlyDerivedByRestriction(r, b)

(* The builder and the assessor decide the same relation with different    *)
(* code.  A type alternative the builder lets through is one the element   *)
(* may have as its xsi:type, unions and xs:anyType aside.                  *)
AlternativesAssessable ==
    elements = << >> => \A s, t \in Types : \A block \in SUBSET Methods :
        t # AnyType /\ ~IsUnion(t) =>
            (validlySubstitutable(s, t, block) = DerivationOK(s, t, block \cup types[t].block))

(* Four pieces of code decide whether a type may replace another; where    *)
(* they decide the same thing they agree.                                  *)
DecidersAgree == RestrictionNecessary /\ AlternativesAssessable

(* Whatever the matcher accepts for a particle (xsdwalk/query.go), the     *)
(* static checks count among the names of that particle                    *)
(* (parser/buildschema.go): otherwise two particles could compete at run   *)
(* time in a content model that was found unambiguous.                     *)
StaticChecksCover ==
    \A m, h \in DOMAIN elements : SubstitutableFor(m, h) => m \in Accepted(h)

(* An element with one head and no blocks on the types between may stand   *)
(* for that head exactly when the Recommendation lets it, if the builder   *)
(* reported neither.                                                       *)
OneLinkExact ==
    \A m \in DOMAIN elements : \A h \in elements[m].heads :
        /\ elements[m].heads = {h} /\ m \notin reported
        /\ \A t \in Intermediate(elements[m].type, elements[h].type) : types[t].block = {}
        => (SubstitutableFor(m, h) = SubstitutionOK(m, h))

(* An element stands for another only if the rules let it, and the static  *)
(* checks have counted it.                                                 *)
SubstitutionRules == StaticChecksCover /\ OneLinkExact
=============================================================================
