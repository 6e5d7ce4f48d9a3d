----------------------------- MODULE JSONInstance -----------------------------
(***************************************************************************)
(* How a JSON document is read as the elements and attributes that Assess  *)
(* takes (package xsdvalidate/jsonsrc), by the names that the walk over a  *)
(* type's content model finds (package xsdwalk).                           *)
(*                                                                         *)
(* A schema s: global, the global element declarations; name[d], the       *)
(* namespace and local name of a declaration; content[d], the particle of  *)
(* its complex type, if it has one; attrs[d], the names of its attribute   *)
(* uses; group[g], the particles of a named group.                         *)
(***************************************************************************)
EXTENDS Naturals, Sequences, FiniteSets, TLC

NoParticle == [term |-> "none"]
Unknown    == 0   \* a declaration of a name and no type

-----------------------------------------------------------------------------
(* xsdwalk.Elements: the declarations in the order of the walk, a group not *)
(* entered again from within itself.                                       *)
RECURSIVE WalkParticle(_, _, _), WalkGroup(_, _, _)
WalkParticle(s, p, visited) ==
    CASE p.term = "element" -> <<p.decl>>
      [] p.term = "group"   -> WalkGroup(s, p.particles, visited)
      [] p.term = "ref"     -> IF p.ref \in visited THEN <<>> ELSE WalkGroup(s, s.group[p.ref], visited \cup {p.ref})
      [] OTHER              -> <<>>

WalkGroup(s, ps, visited) ==
    IF ps = <<>> THEN <<>> ELSE WalkParticle(s, Head(ps), visited) \o WalkGroup(s, Tail(ps), visited)

Elements(s, d) == IF d = Unknown THEN <<>> ELSE WalkParticle(s, s.content[d], {})

-----------------------------------------------------------------------------
(* classify: by local name, of several the last.                           *)
LastAt(locals, local) == CHOOSE k \in DOMAIN locals : /\ locals[k] = local
                                                       /\ \A j \in DOMAIN locals : locals[j] = local => j <= k

Classify(s, d) ==
    LET els    == Elements(s, d)
        uses   == IF d = Unknown THEN <<>> ELSE s.attrs[d]
        elocal == [k \in DOMAIN els |-> s.name[els[k]].local]
        alocal == [k \in DOMAIN uses |-> uses[k].local]
    IN  [children |-> [l \in {elocal[k] : k \in DOMAIN els} |-> els[LastAt(elocal, l)]],
         attrs    |-> [l \in {alocal[k] : k \in DOMAIN uses} |-> uses[LastAt(alocal, l)]]]

Directives == {"$type", "$xmlns"}
StructuralMembers(obj) == SelectSeq(obj.members, LAMBDA m : m.key \notin Directives)

XsiNil  == [name |-> [ns |-> "xsi", local |-> "nil"], value |-> "true"]
XsiType(v) == [name |-> [ns |-> "xsi", local |-> "type"], value |-> v]

(* The bindings of an object's $xmlns members, the later over the earlier. *)
RECURSIVE Bind(_, _)
Bind(ms, prefixes) ==
    IF ms = <<>> THEN prefixes
    ELSE Bind(Tail(ms), IF Head(ms).value.kind = "scalar" THEN (Head(ms).key :> Head(ms).value.text) @@ prefixes
                        ELSE prefixes)

RECURSIVE ApplyXMLNS(_, _)
ApplyXMLNS(ms, prefixes) ==
    IF ms = <<>> THEN prefixes
    ELSE ApplyXMLNS(Tail(ms), IF Head(ms).key = "$xmlns" /\ Head(ms).value.kind = "object"
                              THEN Bind(Head(ms).value.members, prefixes) ELSE prefixes)

Types(ms) == SelectSeq(ms, LAMBDA m : m.key = "$type" /\ m.value.kind = "scalar")

(* An element: the default namespace is the one of its name.               *)
Element(name, attrs, kids, prefixes) == [name |-> name, attrs |-> attrs, kids |-> kids, prefixes |-> prefixes]

Lookup(el, prefix) ==
    IF prefix = "" THEN el.name.ns ELSE IF prefix \in DOMAIN el.prefixes THEN el.prefixes[prefix] ELSE "unbound"

RECURSIVE BuildElement(_, _, _, _, _), MapMembers(_, _, _, _)
BuildElement(s, name, d, v, outer) ==
    CASE v.kind = "null"   -> Element(name, <<XsiNil>>, <<>>, outer)
      [] v.kind = "scalar" -> Element(name, <<>>, <<[text |-> v.text]>>, outer)
      [] v.kind = "array"  -> Element(name, <<>>, <<>>, outer)
      [] v.kind = "object" ->
           LET types == Types(v.members)
               el    == Element(name, [k \in DOMAIN types |-> XsiType(types[k].value.text)], <<>>,
                                ApplyXMLNS(v.members, outer))
           IN  MapMembers(s, Classify(s, d), StructuralMembers(v), el)

(* fillObject: a child if the type has an element of that name, else an    *)
(* attribute, else a child of unknown type in the element's own namespace. *)
MapMembers(s, cls, ms, el) ==
    IF ms = <<>> THEN el
    ELSE LET m     == Head(ms)
             child(name, d) ==
                 [el EXCEPT !.kids = @ \o
                     IF m.value.kind = "array"
                     THEN [k \in DOMAIN m.value.items |-> BuildElement(s, name, d, m.value.items[k], el.prefixes)]
                     ELSE <<BuildElement(s, name, d, m.value, el.prefixes)>>]
             filled ==
                 IF m.key \in DOMAIN cls.children THEN child(s.name[cls.children[m.key]], cls.children[m.key])
                 ELSE IF m.key \notin DOMAIN cls.attrs THEN child([ns |-> el.name.ns, local |-> m.key], Unknown)
                 ELSE IF m.value.kind = "scalar"
                      THEN [el EXCEPT !.attrs = Append(@, [name |-> cls.attrs[m.key], value |-> m.value.text])]
                      ELSE el
         IN  MapMembers(s, cls, Tail(ms), filled)

-----------------------------------------------------------------------------
(* A global element without a namespace is preferred; else there must be   *)
(* one of that local name.                                                 *)
ResolveGlobal(s, local) ==
    LET named == {d \in s.global : s.name[d].local = local}
        bare  == {d \in named : s.name[d].ns = ""}
    IN  IF bare # {} THEN bare ELSE IF Cardinality(named) = 1 THEN named ELSE {}

(* The root element, in a set of its own, or nothing.                      *)
BuildRoot(s, v) ==
    IF v.kind # "object" THEN {}
    ELSE LET ms == StructuralMembers(v)
         IN  IF Len(ms) # 1 THEN {}
             ELSE {BuildElement(s, s.name[d], d, ms[1].value, <<>>) : d \in ResolveGlobal(s, ms[1].key)}
=============================================================================
