----------------------------- MODULE AssessSpec -----------------------------
(***************************************************************************)
(* What Assess promises, said of a whole document at once: which elements  *)
(* are assessed, which nodes an identity constraint qualifies, and when    *)
(* the document is schema-valid.  Nothing here depends on an order of      *)
(* visits, a clock or a table; ancestry alone decides which keys a keyref  *)
(* may see (XSD 1.1 Part 1 3.11.4, as quoted in xsdvalidate/idc.go).       *)
(***************************************************************************)
EXTENDS Instance, SequencesExt

CONSTANT ValueOf(_)

VARIABLES doc, verdict

Entered(d, e)  == Placement(d, e) \in {"decl", "type"}
Dispatched(d, e) == e = d.root \/ e \in ToSet(Walked(d, d.parent[e]))

Assessed(d) == {e \in d.els : \A a \in d.anc[e] : Entered(d, a) /\ Dispatched(d, a)}

(* The elements an assessed parent handed to a skip wildcard.              *)
Skipped(d) ==
    LET assessed == Assessed(d)
    IN  {e \in d.els : /\ Placement(d, e) = "skip"
                       /\ d.parent[e] \in assessed
                       /\ Dispatched(d, e)}

(* Elements whose declaration's identity constraints apply.                *)
Constrained(d) == {e \in Assessed(d) : Placement(d, e) = "decl" /\ ~Nilled(d, e)}

-----------------------------------------------------------------------------
(* Identity constraints.                                                   *)

(* A node a path leads to from a node, or from one below it after ".//",   *)
(* with no skipped node on the way.                                        *)
Follows(d, way, steps) ==
    \A k \in 1..Len(steps) :
        IF steps[k] = "." THEN way[k] = way[k - 1]
        ELSE d.parent[way[k]] = way[k - 1] /\ steps[k] \in {"*", d.name[way[k]]}

Leads(d, from, path) ==
    LET opaque == Skipped(d)
    IN  {t \in d.els :
            /\ from \in d.anc[t]
            /\ opaque \cap d.anc[t] = {}
            /\ \E way \in [0..Len(path.steps) -> d.anc[t]] :
                  /\ from \in d.anc[way[0]]
                  /\ path.descendant \/ way[0] = from
                  /\ Follows(d, way, path.steps)
                  /\ way[Len(path.steps)] = t}

Qualified(d, scope, selector) == UNION {Leads(d, scope, path) : path \in ToSet(selector)}

(* The nodes, elements and attributes, a field stands for at a target.     *)
Nodes(d, target, field) ==
    UNION {UNION {{e} \X (path.last \cap DOMAIN d.values[e]) : e \in Leads(d, target, path)} :
             path \in ToSet(field)}

NodeValue(d, node) ==
    LET value == d.values[node[1]][node[2]]
    IN  [lex |-> value.lex, typed |-> node[1] \in Assessed(d) /\ value.typed]

FieldEq(a, b) ==
    IF a.typed /\ b.typed THEN ValueOf(a.lex) = ValueOf(b.lex) ELSE a.lex = b.lex
SameTuple(s, t) == /\ Len(s.vals) = Len(t.vals)
                   /\ \A i \in DOMAIN s.vals : FieldEq(s.vals[i], t.vals[i])

Complete(d, ic, t) ==
    \A f \in ToSet(ic.fields) : JustOne(Nodes(d, t, f))

TuplesOf(d, scope, ic) ==
    {[at |-> t, vals |-> [i \in DOMAIN ic.fields |->
                            NodeValue(d, CHOOSE n \in Nodes(d, t, ic.fields[i]) : TRUE)]] :
        t \in {x \in Qualified(d, scope, ic.selector) : Complete(d, ic, x)}}

CardinalityOK(d, scope, ic) ==
    \A t \in Qualified(d, scope, ic.selector) : \A f \in ToSet(ic.fields) :
        IF ic.category = "key" THEN JustOne(Nodes(d, t, f)) ELSE AtMostOne(Nodes(d, t, f))

DistinctOK(d, scope, ic) ==
    LET tuples == TuplesOf(d, scope, ic)
    IN  \A s, t \in tuples : s.at # t.at => ~SameTuple(s, t)

(* Every keyref tuple equals a tuple of the referred constraint at the     *)
(* keyref's own element or at one of its descendants.                      *)
KeyrefOK(d, scope, ic) ==
    LET below == {e \in Constrained(d) : scope \in d.anc[e]}
        keys  == UNION {UNION {TuplesOf(d, e, k) : k \in {x \in ToSet(d.ics[e]) :
                                   x.id = ic.refer /\ x.category # "keyref"}} : e \in below}
    IN  \A t \in TuplesOf(d, scope, ic) : \E s \in keys : SameTuple(t, s)

ConstraintOK(d, e, ic) ==
    IF ic.category = "keyref"
    THEN ic.refer = "none" \/ (CardinalityOK(d, e, ic) /\ KeyrefOK(d, e, ic))
    ELSE CardinalityOK(d, e, ic) /\ DistinctOK(d, e, ic)

-----------------------------------------------------------------------------
(* IDs.                                                                    *)

(* The <<value, bearer>> pairs of the document: an attribute's ID is borne *)
(* by its element, simple content's by the parent.                         *)
Borne(d) ==
    (UNION {{<<x.v, e>> : x \in {y \in ToSet(d.attrs[e]) : y.k = "ID"}} : e \in Assessed(d)})
    \cup
    (UNION {{<<x.v, d.parent[e]>> : x \in {y \in ToSet(d.text[e]) : y.k = "ID"}} :
              e \in {y \in Assessed(d) : HasSimpleContent(d, y) /\ ~Nilled(d, y)}})

Referenced(d) ==
    (UNION {{x.v : x \in {y \in ToSet(d.attrs[e]) : y.k = "IDREF"}} : e \in Assessed(d)})
    \cup
    (UNION {{x.v : x \in {y \in ToSet(d.text[e]) : y.k = "IDREF"}} :
              e \in {y \in Assessed(d) : HasSimpleContent(d, y) /\ ~Nilled(d, y)}})

UniqueIDs(d)   == \A p, q \in Borne(d) : p[1] = q[1] => p[2] = q[2]
BoundIDs(d)    == \A p \in Borne(d) : p[2] # NoElement
ResolvedRefs(d) == Referenced(d) \subseteq {p[1] : p \in Borne(d)}

-----------------------------------------------------------------------------
LocallyValid(d, e) ==
    /\ d.sound[e]
    /\ Nilled(d, e) => d.kids[e] = << >>
    /\ ~Nilled(d, e) => IF d.kind[e] = "elements" THEN d.match[e] ELSE d.kids[e] = << >>
    /\ \A k \in ToSet(Walked(d, e)) : Placement(d, k) # "error"
    /\ ~(d.term[e] \in {"lax", "strict"} /\ d.global[e] /\ d.local[e] /\ ~d.consistent[e])

Valid(d) ==
    /\ Entered(d, d.root)
    /\ \A e \in Assessed(d) : LocallyValid(d, e)
    /\ UniqueIDs(d) /\ BoundIDs(d) /\ ResolvedRefs(d)
    /\ \A e \in Constrained(d) : \A ic \in ToSet(d.ics[e]) : ConstraintOK(d, e, ic)

(* Whatever the document, one judgement is passed on it.                   *)
Init == IsInstance(doc) /\ verdict = "pending"

Judge == /\ verdict = "pending"
         /\ verdict' = IF Valid(doc) THEN "valid" ELSE "invalid"
         /\ UNCHANGED doc

Safety == Init /\ [][Judge]_<<doc, verdict>>

Spec == Safety /\ WF_<<doc, verdict>>(Judge)
=============================================================================
