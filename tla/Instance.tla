------------------------------ MODULE Instance ------------------------------
(***************************************************************************)
(* The instance documents handed to xsdvalidate.Assess, together with the  *)
(* answers the compiled schema gives about each of their elements.  A      *)
(* document is a rooted ordered tree of element information items          *)
(* (infoset.go); what a datatype, a content model or an XPath test decides *)
(* about ONE element is data here, because those decisions read only that  *)
(* element.  What the assessor combines ACROSS elements (the walk, the     *)
(* identity-constraint tables, the ID table) is the subject of Assess.     *)
(*                                                                         *)
(* A document d is a record:                                               *)
(*   els, root      the elements, and the validation root                  *)
(*   order          the elements in document order                         *)
(*   kids[e]        the element children of e, in order                    *)
(*   parent[e]      the parent of e, NoElement for the root                *)
(*   anc[e]         the ancestors of e, e included                         *)
(*   name[e]        the element's expanded name                            *)
(*   term[e]        what the matcher attributed e to: "elem" (an element   *)
(*                  declaration), "skip", "lax" or "strict" (a wildcard),  *)
(*                  "root" for the root                                    *)
(*   global[e]      a global element declaration has e's name              *)
(*   local[e]       e's name has a locally declared type in the content    *)
(*                  model (for the root: its xsi:type names a type)        *)
(*   consistent[e]  the governing type is derived from the locally         *)
(*                  declared one (checkDynamicEDC)                         *)
(*   kind[e]        the governing type: "simple", "simpleContent",         *)
(*                  "elements" or "empty"                                  *)
(*   match[e]       the children match the content model of kind[e]        *)
(*   nil[e]         xsi:nil is true on a nillable declaration              *)
(*   sound[e]       every check that reads e alone succeeds (abstract      *)
(*                  declaration, xsi:type, values, attributes, assertions) *)
(*   attrs[e]       the xs:ID and xs:IDREF items of e's attributes         *)
(*   text[e]        the same for e's simple content                        *)
(*   values[e]      the nodes of e a field may end at, by name: "." is e   *)
(*                  itself, the others its attributes; each has its        *)
(*                  lexical form lex and typed, whether its type is simple *)
(*                  and the form parses                                    *)
(*   ics[e]         the identity constraints of e's declaration            *)
(* The selector of a constraint and each of its fields are lists of        *)
(* alternative paths (parsePaths).  A path has descendant (it begins with  *)
(* ".//") and steps, the element steps; a field's has last too, the names  *)
(* of the nodes its end takes.                                             *)
(***************************************************************************)
EXTENDS Naturals, Sequences, FiniteSets

CONSTANTS Docs,       \* the documents a run assesses
          NoElement   \* Go's nil Element

(* The tree really is one: parent and anc describe the same shape, and a   *)
(* child list holds each child once.                                       *)
IsTree(d) ==
    /\ IsFiniteSet(d.els)
    /\ d.root \in d.els
    /\ NoElement \notin d.els
    /\ d.parent \in [d.els -> d.els \cup {NoElement}]
    /\ \A e \in d.els : d.parent[e] = NoElement <=> e = d.root
    /\ d.anc \in [d.els -> SUBSET d.els]
    /\ d.anc[d.root] = {d.root}
    /\ \A e \in d.els \ {d.root} : /\ d.anc[e] = d.anc[d.parent[e]] \cup {e}
                                   /\ e \notin d.anc[d.parent[e]]
    /\ d.kids \in [d.els -> Seq(d.els)]
    /\ \A e \in d.els : \A i \in 1..Len(d.kids[e]) :
          /\ d.parent[d.kids[e][i]] = e
          /\ \A j \in 1..Len(d.kids[e]) : d.kids[e][i] = d.kids[e][j] => i = j

(* What is read off the elements comes in lists, and each element has its  *)
(* place in the document.                                                  *)
IsList(s) == s \in Seq({s[i] : i \in DOMAIN s})

ArePaths(paths) == IsList(paths) /\ \A i \in DOMAIN paths : IsList(paths[i].steps)

IsInstance(d) ==
    /\ IsTree(d)
    /\ d.order \in Seq(d.els)
    /\ \A e \in d.els : \E i \in 1..Len(d.order) : d.order[i] = e
    /\ \A e \in d.els :
          /\ IsList(d.attrs[e]) /\ IsList(d.text[e])
          /\ \A i \in DOMAIN d.ics[e] : ArePaths(d.ics[e][i].selector)
          /\ \A i \in DOMAIN d.ics[e] : \A j \in DOMAIN d.ics[e][i].fields :
                ArePaths(d.ics[e][i].fields[j])
          /\ \A i \in DOMAIN d.ics[e] : IsList(d.ics[e][i].fields)

ASSUME DocsAssumption == \A d \in Docs : IsInstance(d)

(* Of the nodes a field selects: no two, and just one.                     *)
AtMostOne(nodes) == \A m, n \in nodes : m = n
JustOne(nodes)   == nodes # {} /\ AtMostOne(nodes)

(* A Go map assignment m[k] = v.                                           *)
Assign(f, k, v) == [x \in DOMAIN f \cup {k} |-> IF x = k THEN v ELSE f[x]]

(* How assessRoot and assessChild place an element: under a declaration    *)
(* (assessElement), under a bare type (assessLocallyTyped, or the root's   *)
(* xsi:type), unassessed because of a skip wildcard, silently unassessed   *)
(* (lax, nothing known), or an error (strict, or an undeclared root).      *)
Placement(d, e) ==
    IF d.term[e] = "skip" THEN "skip"
    ELSE IF d.term[e] = "elem" \/ d.global[e] THEN "decl"
    ELSE IF d.local[e] THEN "type"
    ELSE IF d.term[e] = "lax" THEN "ignore" ELSE "error"

(* cvc-elt.3: only assessElement reads xsi:nil.                            *)
Nilled(d, e) == Placement(d, e) = "decl" /\ d.nil[e]

HasSimpleContent(d, e) == d.kind[e] \in {"simple", "simpleContent"}

(* The children assessElementContent hands to assessChild: all of them     *)
(* when the content model matched, none otherwise.                         *)
Walked(d, e) ==
    IF ~Nilled(d, e) /\ d.kind[e] = "elements" /\ d.match[e]
    THEN d.kids[e] ELSE << >>
=============================================================================
