--------------------------- MODULE MCRegistration ---------------------------
(* Families of sets of three schema documents A, B and C; and, by itself,   *)
(* the structural check that each document passes before it is registered. *)
EXTENDS Registration, Structure, TLC

CONSTANTS A, B, C, T, U, x, y

Composition(kind, ns, loc, names) ==
    [kind |-> kind, ns |-> ns, loc |-> loc, names |-> names, selfBase |-> TRUE]
Include(u) == Composition("include", Absent, u, {})
Import(ns, u) == Composition("import", ns, u, {})
Redefine(u, names) == Composition("redefine", Absent, u, names)
Override(u, names) == Composition("override", Absent, u, names)

Of(va, vb, vc) == (A :> va) @@ (B :> vb) @@ (C :> vc)
DocSet(roots, status, tns, comps, decls) ==
    [roots |-> roots, status |-> status, tns |-> tns, comps |-> comps, decls |-> decls]

Schemas == Of("schema", "schema", "schema")

(* Composition graphs: a is in namespace T, b in T, in U or in none, c in T *)
(* or in none and retrieved or not.  Cycles, diamonds, chameleons absorbed  *)
(* into one or two namespaces, misplaced and mismatched imports.            *)
Graphs ==
    {DocSet(roots, Of("schema", "schema", sc), Of(T, tb, tc), Of(<<ca1, ca2>>, cb, cc), Of({}, {}, {})) :
        roots \in {<<A>>, <<B, A>>}, sc \in Status, tb \in {T, U, Absent}, tc \in {T, Absent},
        ca1 \in {Include(B), Import(U, B)},
        ca2 \in {Include(C), Include(A), Import(T, B), Import(U, C), Include(B), Include(NoLocation)},
        cb \in {<< >>, <<Include(C)>>, <<Include(A)>>, <<Import(T, A)>>, <<Import(Absent, C)>>},
        cc \in {<< >>, <<Include(B)>>}}

(* Unreadable entry points. *)
Unreadable ==
    {DocSet(<<A, B>>, Of(sa, sb, "schema"), Of(T, T, T), Of(<<Include(B)>>, <<Include(C)>>, << >>), Of({}, {}, {})) :
        sa \in Status, sb \in Status}

GraphSets ==
    {w \in Graphs : w.status[C] # "schema" => w.roots = <<A>> /\ w.tns[C] = T /\ w.tns[B] # Absent}
    \cup Unreadable

(* Replacements whose targets only lie further down, with any includes.     *)
LayerSets ==
    {w \in {DocSet(roots, Schemas, Of(T, T, tc), Of(<<ca1, ca2>>, cb, << >>), Of(da, db, {x})) :
               roots \in {<<A>>, <<B, A>>}, tc \in {T, Absent},
               ca1 \in {Override(B, {x}), Redefine(B, {x}), Include(B), Override(C, {x}), Override(B, {y})},
               ca2 \in {Include(C), Override(C, {x}), Redefine(C, {x, y}), Include(NoLocation)},
               cb \in {<<Override(C, {x})>>, <<Redefine(C, {x})>>, <<Include(C)>>, <<Include(A)>>, << >>},
               da \in {{}, {y}, {x}}, db \in {{}, {x}, {y}}} : TRUE}

AllSets == {w \in GraphSets \cup LayerSets : TRUE}

(* Documents that redefine or override each other. *)
MutualSets ==
    {w \in {DocSet(<<A>>, Schemas, Of(T, T, T), Of(<<ca>>, <<cb>>, << >>), Of(da, db, {})) :
               ca \in {Override(B, {x}), Override(B, {x, y})}, cb \in {Override(A, {x}), Override(A, {y}), Include(A)},
               da \in {{}, {x}, {y}}, db \in {{}, {x}, {x, y}}} : TRUE}
-----------------------------------------------------------------------------
(* Grammars of up to four names over two, and lists of children of a third. *)
Grammars ==
    LET leaves == {Names({"a"}), Names({"b"}), Names({"a", "b"}), Empty}
        units  == leaves \cup {Star(c) : c \in leaves} \cup {Opt(c) : c \in leaves} \cup {Plus(c) : c \in leaves}
        pairs  == {Ordered(<<c, d>>) : c, d \in units} \cup {Choice(<<c, d>>) : c \in units, d \in leaves}
    IN  units \cup pairs \cup {Star(c) : c \in pairs} \cup {Ordered(<<c, One("a")>>) : c \in pairs}

Lists(names, n) == UNION {[1..k -> names] : k \in 0..n}

(* The matcher's verdict, the child it blames and the names it expected are *)
(* those of the grammar's language: matchContent (content.go:32).          *)
ASSUME MatcherExact ==
    \A c \in Grammars : \A l \in Lists({"a", "b", "c"}, 3) : MatchContent(c, l) = MatchIs(c, l)

ASSUME MatcherExactOnTable ==
    \A v \in Variants : \A l \in Lists(Alphabet(Content(v)) \cup {"foreign"},
                                       IF AllowForeign(v) THEN 1 ELSE 2) :
        MatchContent(Content(v), l) = MatchIs(Content(v), l)

(* "linear in practice because the grammars are deterministic": content.go:8. *)
ASSUME TableDeterministic == \A v \in Variants : Deterministic(Content(v), {})

(* Every child a grammar admits has an entry, so that none goes unchecked   *)
(* (validate.go:115), and no entry of the table is out of reach.           *)
ChildrenOf(v) == {ChildVariant(v, n) : n \in Alphabet(Content(v))}

ASSUME TableClosed ==
    LET reached[k \in 0..8] == IF k = 0 THEN {"schema"} ELSE reached[k - 1] \cup UNION {ChildrenOf(v) : v \in reached[k - 1]}
    IN  reached[8] = Variants

(* Elements of every entry, with the attributes its rules on children read, *)
(* and up to two children, complete or not, the first one excluded or not. *)
Node(name, attrs, kids) == [name |-> name, attrs |-> attrs, vc |-> {}, kids |-> kids]
Excluded(n) == [n EXCEPT !.vc = {[attr |-> "maxVersion", val |-> "at"]}]

Complete(name) ==
    CASE name = "simpleType" -> Node(name, {}, <<Node("list", {"itemType"}, <<>>)>>)
      [] name \in {"simpleContent", "complexContent"} -> Node(name, {}, <<Node("extension", {}, <<>>)>>)
      [] name \in {"element", "attribute", "unique"}  -> Node(name, {"ref"}, <<>>)
      [] name = "restriction" -> Node(name, {"base"}, <<>>)
      [] name = "alternative" -> Node(name, {"type"}, <<>>)
      [] OTHER -> Node(name, {}, <<Node("annotation", {}, <<>>)>>)

Elements(v) ==
    LET attrs == CASE v = "restriction@simple" -> {"base"}
                   [] v = "list"               -> {"itemType"}
                   [] v = "union"              -> {"memberTypes"}
                   [] v = "openContent"        -> {"none"}
                   [] v \in {"alternative"} \cup Within({"global"}, {"element", "attribute"}) -> {"type"}
                   [] v \in {"unique", "key", "keyref"} -> {"name", "ref", "refer"}
                   [] v \in Within({"local"}, {"element", "attribute"}) -> {"name", "ref", "type"}
                   [] OTHER -> {}
        whole == {Complete(n) : n \in Alphabet(Content(v)) \cup {"foreign"}}
                 \cup {Node("documentation", {}, <<>>), Node("element", {}, <<>>)}
                 \cup {Node("alternative", {"type", "test"}, <<>>)}
        first == whole \cup {Excluded(n) : n \in whole}
    IN  {Node(v, as, ks) : as \in SUBSET attrs, ks \in {<<>>} \cup {<<n>> : n \in first} \cup (first \X whole)}

(* Whether a rule of extra judges a child that conditional inclusion prunes. *)
Miscounted(v, n) == ExtraBroken(v, n) # ExtraBroken(v, Included(n))

(* A document is accepted exactly when what conditional inclusion leaves of *)
(* it is well formed, and nothing of an accepted one goes unchecked: the    *)
(* walk prunes while it descends (validate.go:72).                         *)
ASSUME WalkExact ==
    \A v \in Variants : \A n \in Elements(v) :
        LET walk == Validate(n, v, <<>>)
        IN  ~Miscounted(v, n) =>
                /\ walk.reports = {} <=> WellFormed(Included(n), v)
                /\ walk.reports = {} => walk.checked = Judged(n, <<>>)

(* But the rules of extra count what is pruned: a restriction with a base  *)
(* is refused for the inline type that another version would read, a       *)
(* default alternative for the one after it.                               *)
ASSUME PrunedAreCounted ==
    LET n == Node("restriction", {"base"}, <<Excluded(Complete("simpleType"))>>)
        e == Node("element", {}, <<Complete("alternative"), Excluded(Complete("alternative"))>>)
    IN  /\ WellFormed(Included(n), "restriction@simple") /\ WellFormed(Included(e), "element@global")
        /\ Validate(n, "restriction@simple", <<>>).reports = {<<"extra", <<>>>>}
        /\ Validate(e, "element@global", <<>>).reports = {<<"extra", <<>>>>}

(* Of two elements for the versions from one on and up to it, or for a type *)
(* that is available or not, one is kept (checkVersionAttr, validate.go:219). *)
ASSUME OneVersionKept ==
    /\ \A val \in {"below", "at", "above"} :
           PrunedBy([attr |-> "minVersion", val |-> val]) # PrunedBy([attr |-> "maxVersion", val |-> val])
    /\ \A items \in SUBSET {"known", "unknown", "malformed"} :
           PrunedBy([attr |-> "available", val |-> items]) # PrunedBy([attr |-> "unavailable", val |-> items])
=============================================================================
