------------------------------ MODULE MCAssess ------------------------------
(***************************************************************************)
(* Families of small documents for model-checking Assess.  Every family    *)
(* ranges over all ordered trees of N elements (numbered in document       *)
(* order) and over the features its run is about; the others are plain.    *)
(* By itself: how JSON becomes such a document.                            *)
(***************************************************************************)
EXTENDS Assess, JSONInstance, FiniteSetsExt

N == 4
Els == 1..N

(* Lexical forms: "5" and "5.0" denote one value, "x" another.             *)
Value(lex) == IF lex = "5.0" THEN "5" ELSE lex

AncOf(p) == LET anc[e \in Els] == IF e = 1 THEN {1} ELSE anc[p[e]] \cup {e} IN anc

(* Parent functions of the preorder-numbered trees.                        *)
Trees == {p \in [Els -> 0..N] :
            /\ p[1] = 0
            /\ \A e \in 2..N : p[e] \in 1..(e - 1)
            /\ \A e \in 2..N : p[e] \in AncOf(p)[e - 1]}

(* The nodes a field may end at: the element itself and its attributes.    *)
Typed(lex)   == [lex |-> lex, typed |-> TRUE]
Untyped(lex) == [lex |-> lex, typed |-> FALSE]
Attribute(name, borne, value) == IF borne THEN name :> value ELSE << >>
Attributes(id, ref) == id @@ ref @@ ("." :> Untyped(""))

Plain(p) ==
    [text |-> [e \in Els |-> << >>], attrs |-> [e \in Els |-> << >>],
     term |-> [e \in Els |-> IF e = 1 THEN "root" ELSE "elem"],
     kind |-> [e \in Els |-> "elements"], parent |-> p,
     values |-> [e \in Els |-> "." :> Untyped("")],
     ics |-> [e \in Els |-> << >>], match |-> [e \in Els |-> TRUE],
     nil |-> [e \in Els |-> FALSE], sound |-> [e \in Els |-> TRUE],
     global |-> [e \in Els |-> e = 1], local |-> [e \in Els |-> FALSE],
     consistent |-> [e \in Els |-> TRUE],
     name |-> [e \in Els |-> IF e = N THEN "b" ELSE "a"],
     els |-> Els, root |-> 1, order |-> [i \in Els |-> i],
     kids |-> [e \in Els |-> SelectSeq([i \in Els |-> i], LAMBDA k : p[k] = e)],
     anc |-> AncOf(p)]

(* Paths, the last step of a field's among them; a selector or field of    *)
(* one path.                                                               *)
Path(desc, steps)      == [descendant |-> desc, steps |-> steps]
To(desc, steps, names) == [descendant |-> desc, steps |-> steps, last |-> names]
Sel(desc, steps) == <<Path(desc, steps)>>
At(name)         == <<To(FALSE, << >>, {name})>>

KeyOf(cat, sel, field) == [id |-> "K", category |-> cat, refer |-> "none",
                           selector |-> sel, fields |-> <<field>>]
Key(cat, sel) == KeyOf(cat, sel, At("id"))
Ref(sel) == [id |-> "R", category |-> "keyref", refer |-> "K",
             selector |-> sel, fields |-> <<At("ref")>>]
Unresolved == [id |-> "U", category |-> "keyref", refer |-> "none",
               selector |-> Sel(TRUE, <<"*">>), fields |-> <<At("ref")>>]

Both(e, k, q, ick, icr) ==
    (IF e \in k THEN <<ick>> ELSE << >>) \o (IF e = q THEN <<icr>> ELSE << >>)

(* Keys at any set of elements, one keyref anywhere, key values anywhere;  *)
(* the keyref's scope holds the one element that carries a reference.      *)
AllScopeDocs(T) ==
    {[Plain(p) EXCEPT
        !.ics = [e \in Els |-> Both(e, k, q, Key("key", Sel(FALSE, <<".">>)), Ref(Sel(TRUE, <<".">>)))],
        !.values = [e \in Els |-> Attributes("id" :> Typed(IF e \in v THEN "5" ELSE "x"),
                                             Attribute("ref", e = r, Typed("5.0")))]] :
       p \in T, k \in SUBSET {1, 2, 4}, v \in SUBSET {2, 3, 4}, q \in {1, 3}, r \in {3, 4}}

ScopeDocs(T) == {d \in AllScopeDocs(T) :
                \E q, r \in Els : /\ \E i \in DOMAIN d.ics[q] : d.ics[q][i].id = "R"
                                  /\ "ref" \in DOMAIN d.values[r]
                                  /\ q \in d.anc[r]}

(* Selectors, alternatives among them, categories, and a field @id | @alt  *)
(* that gives none, one or two nodes, with element 3 possibly skipped or   *)
(* left unassessed.                                                        *)
IDOrAlt == <<To(FALSE, << >>, {"id"}), To(FALSE, << >>, {"alt"})>>

Fields0 == << >>
Fields1(name, lex) == name :> Typed(lex)
Fields2 == Fields1("id", "5") @@ Fields1("alt", "5")

AllSelectDocs(T) ==
    {[Plain(p) EXCEPT
        !.term = [@ EXCEPT ![3] = t],
        !.ics = [e \in Els |-> Both(e, {1}, 1, KeyOf(c, s, IDOrAlt),
                                    IF t = "lax" THEN Unresolved ELSE Ref(s))],
        !.values = [e \in Els |-> Attributes(f[e], Attribute("ref", e = 4, Typed("5.0")))]] :
       p \in T, t \in {"elem", "skip", "lax"}, c \in {"key", "unique"},
       s \in {Sel(TRUE, <<".">>), Sel(FALSE, <<"a", "*">>), Sel(TRUE, <<"a", "b">>),
              <<Path(TRUE, <<"b">>), Path(FALSE, <<"*">>)>>},
       f \in {g \in [Els -> {Fields0, Fields1("id", "5"), Fields1("alt", "5.0"), Fields2}] :
                 g[1] = Fields0 /\ g[2] # Fields2 /\ g[3] # Fields1("alt", "5.0")
                 /\ g[4] \notin {Fields0, Fields1("id", "5")}}}


SelectDocs(T) == {d \in AllSelectDocs(T) : d.term[3] # "elem" => d.kids[3] # << >>}

(* Fields that lead below their target, by ".//", to elements and to       *)
(* attributes, where element 3 may be skipped or left unassessed with all  *)
(* below it; attributes and elements with a type and without.              *)
FieldDocs(T) ==
    {[Plain(p) EXCEPT
        !.term = [@ EXCEPT ![3] = t],
        !.kind = [e \in Els |-> IF Plain(p).kids[e] = << >> THEN "simple" ELSE "elements"],
        !.ics  = [e \in Els |-> Both(e, {1}, 1, KeyOf(c, Sel(FALSE, <<"*">>), f), Ref(Sel(TRUE, <<"b">>)))],
        !.values = [e \in Els |->
            ("." :> [lex |-> IF e = 4 THEN "5" ELSE "x", typed |-> Plain(p).kids[e] = << >>])
            @@ Attribute("id", e \in v, [lex |-> IF e = 3 THEN "5.0" ELSE "5", typed |-> e \in u])
            @@ Attribute("ref", e = 4, Typed("5.0"))]] :
       p \in T, t \in {"elem", "skip", "lax"}, c \in {"key", "unique"},
       f \in {<<To(FALSE, <<"*">>, {"id"})>>, <<To(TRUE, << >>, {"id"})>>, <<To(FALSE, <<"*">>, {"."})>>,
              <<To(TRUE, <<"b">>, {"."}), To(FALSE, << >>, {"id"})>>},
       v \in {{2, 3}, {3, 4}, {2, 3, 4}}, u \in {{3}, {2, 3, 4}}}

(* Items of the ID run: at most one attribute item per element, or two IDs *)
(* in one element, and text items on any leaf.                             *)
ID(v)  == [k |-> "ID", v |-> v]
IDREF(v) == [k |-> "IDREF", v |-> v]

IDDocs(T) ==
    {[Plain(p) EXCEPT
        !.kind  = [e \in Els |-> IF Plain(p).kids[e] = << >> THEN "simpleContent" ELSE "elements"],
        !.nil   = [e \in Els |-> e = 4 /\ t[1]],
        !.attrs = a,
        !.text  = [e \in Els |-> IF e = t[2] THEN <<ID("x")>> ELSE << >>]] :
       p \in T, t \in {<<FALSE, 0>>, <<FALSE, 3>>, <<FALSE, 4>>, <<TRUE, 4>>},
       a \in {g \in [Els -> {<< >>, <<ID("x")>>, <<IDREF("x")>>,
                             <<ID("y"), ID("x"), ID("y")>>, <<IDREF("y")>>}] :
                 Cardinality({e \in Els : g[e] # << >>}) <= 2}}

(* A lone root: simple content whose ID has no element to bind to.         *)
LoneDocs ==
    {[Plain([e \in Els |-> IF e = 1 THEN 0 ELSE 1]) EXCEPT
        !.els = {1}, !.order = <<1>>, !.kids = [e \in {1} |-> << >>],
        !.parent = [e \in {1} |-> 0], !.anc = [e \in {1} |-> {1}],
        !.kind = [e \in Els |-> k], !.global = [e \in Els |-> g], !.local = [e \in Els |-> l],
        !.text = [e \in Els |-> x]] :
       k \in {"simple", "empty"}, g \in BOOLEAN, l \in BOOLEAN,
       x \in {<< >>, <<ID("x")>>, <<IDREF("x")>>}}

(* Placements of elements 2 and 3 (term, global, local), and the content   *)
(* of 2 (kind, match, nil).  The constraints and the ID/IDREF pair make a  *)
(* skipped, unassessed or unmatched region visible.                        *)
Places2 == {<<"elem", FALSE, FALSE>>, <<"skip", FALSE, FALSE>>,
            <<"lax", TRUE, FALSE>>, <<"lax", FALSE, TRUE>>}
Places3 == {<<"elem", FALSE, FALSE>>, <<"skip", FALSE, FALSE>>}
           \cup {"lax", "strict"} \X {<<FALSE, FALSE>>, <<FALSE, TRUE>>, <<TRUE, TRUE>>}
Place3(y) == IF Len(y) = 3 THEN y ELSE <<y[1], y[2][1], y[2][2]>>

Contents == {<<"elements", TRUE, FALSE>>, <<"elements", FALSE, FALSE>>,
             <<"elements", TRUE, TRUE>>, <<"simpleContent", TRUE, FALSE>>,
             <<"empty", TRUE, FALSE>>, <<"empty", TRUE, TRUE>>}

AllPlacementDocs(T) ==
    {[Plain(p) EXCEPT
        !.term   = [@ EXCEPT ![2] = x[1], ![3] = Place3(y)[1]],
        !.global = [@ EXCEPT ![2] = x[2], ![3] = Place3(y)[2]],
        !.local  = [@ EXCEPT ![2] = x[3], ![3] = Place3(y)[3]],
        !.consistent = [@ EXCEPT ![3] = c],
        !.kind   = [@ EXCEPT ![2] = k[1]],
        !.match  = [@ EXCEPT ![2] = k[2]],
        !.nil    = [@ EXCEPT ![2] = k[3]],
        !.sound  = [@ EXCEPT ![4] = c],
        !.ics    = [e \in Els |-> Both(e, {1, 2, 3}, 1, Key("unique", Sel(TRUE, <<".">>)),
                                       Ref(Sel(TRUE, <<".">>)))],
        !.values = [e \in Els |-> Attributes(Attribute("id", e = 4, Typed("5")),
                                             Attribute("ref", e = 3, Typed("5")))],
        !.attrs  = [e \in Els |-> IF e = 4 THEN <<ID("x")>>
                                  ELSE IF e = 3 THEN <<IDREF("x")>> ELSE << >>]] :
       p \in T, x \in Places2, y \in Places3, c \in BOOLEAN, k \in Contents}

(* Documents in which a bare type never has simple content with children;  *)
(* a nilDeclaration there is the crash run's business.                     *)
SafePlacementDocs(T) == {d \in AllPlacementDocs(T) :
                        \A e \in d.els : ~NilDeclaration(d, e)}

AllDocs ==
    {d \in ScopeDocs(Trees) \cup (SelectDocs(Trees) \cup FieldDocs(Trees)
              \cup (SafePlacementDocs(Trees) \cup (LoneDocs \cup IDDocs(Trees)))) : TRUE}
CrashDocs == {d \in AllPlacementDocs(Trees) : d.kind[2] = "simpleContent"}
-----------------------------------------------------------------------------
(* A schema: r has children a and, through a circular group, b and n, and   *)
(* an attribute k; b has children a and n and attributes k and m.  If names *)
(* collide, n is another a, and so is m.  Two elements g are global.        *)
QN(ns, local) == [ns |-> ns, local |-> local]
OfDecl(d)     == [term |-> "element", decl |-> d]

Schema(collide) ==
    [global  |-> {1, 4, 5, 6},
     name    |-> <<QN("t", "r"), QN("", "a"), QN("t", "b"), QN("t", "g"), QN("u", "g"), QN("", "r")>>
                 \o <<QN("t", IF collide THEN "a" ELSE "n")>>,
     content |-> <<[term |-> "group", particles |-> <<OfDecl(2), [term |-> "any"], [term |-> "ref", ref |-> "G"]>>],
                   NoParticle, [term |-> "group", particles |-> <<OfDecl(2), OfDecl(7)>>],
                   NoParticle, NoParticle, NoParticle, NoParticle>>,
     attrs   |-> <<<<QN("", "k")>>, <<>>, <<QN("", "k"), QN("v", IF collide THEN "a" ELSE "m")>>, <<>>, <<>>, <<>>, <<>>>>,
     group   |-> ("G" :> <<OfDecl(3), [term |-> "ref", ref |-> "G"], OfDecl(7)>>)]

Scalar(x)   == [kind |-> "scalar", text |-> x]
Object(ms)  == [kind |-> "object", members |-> ms]
Array(vs)   == [kind |-> "array", items |-> vs]
Null        == [kind |-> "null"]
Member(k, v) == [key |-> k, value |-> v]

(* Elements as a document would have them, and the two ways to write them: *)
(* a member for each child, or an array for those of a name in a row.      *)
Leaves ==
    {Element(QN(ns, l), as, ks, <<>>) :
        ns \in {""}, l \in {"a"}, as \in {<<>>}, ks \in {<<[text |-> "x"]>>}}
    \cup {Element(QN("", "a"), <<XsiNil>>, <<>>, <<>>)}
    \cup {Element(QN("t", "n"), <<>>, <<[text |-> "y"]>>, <<>>)}

AttrsOf(names) == {<<>>} \cup {<<[name |-> n, value |-> "z"]>> : n \in names}
ShortSeqs(S, n) == UNION {[1..k -> S] : k \in 0..n}

Inner == {Element(QN("t", "b"), as, ks, <<>>) : as \in AttrsOf({QN("", "k"), QN("v", "m")}), ks \in ShortSeqs(Leaves, 2)}
Roots == {Element(QN("t", "r"), as, ks, <<>>) :
             as \in AttrsOf({QN("", "k")}),
             ks \in ShortSeqs(Leaves, 2) \cup {<<n>> : n \in Inner} \cup {<<n, m>> : n, m \in Inner}
                    \cup {<<l, n, m>> : l \in Leaves, n \in Inner, m \in {CHOOSE i \in Inner : i.kids = <<>>}}}

RECURSIVE Json(_, _), Members(_, _)
Json(el, grouped) ==
    IF el.attrs = <<XsiNil>> THEN Null
    ELSE IF Len(el.kids) = 1 /\ "text" \in DOMAIN el.kids[1] THEN Scalar(el.kids[1].text)
    ELSE Object([k \in DOMAIN el.attrs |-> Member(el.attrs[k].name.local, Scalar(el.attrs[k].value))]
                \o Members(el.kids, grouped))

Members(els, grouped) ==
    IF els = <<>> THEN <<>>
    ELSE LET same(k) == \A i \in 1..k : els[i].name = els[1].name
             run     == IF grouped THEN CHOOSE k \in DOMAIN els : same(k) /\ (k = Len(els) \/ ~same(k + 1)) ELSE 1
         IN  <<Member(els[1].name.local,
                      IF run = 1 THEN Json(els[1], grouped) ELSE Array([k \in 1..run |-> Json(els[k], grouped)]))>>
             \o Members(SubSeq(els, run + 1, Len(els)), grouped)

(* Where local names do not collide, every document of the schema has its  *)
(* JSON forms, and each is read as that document.                          *)
ASSUME JSONReadAsWritten ==
    LET s == Schema(FALSE)
    IN  \A el \in Roots : \A grouped \in BOOLEAN :
            BuildElement(s, el.name, 1, Json(el, grouped), <<>>) = el

(* Of any JSON, with names that collide or are not known, nothing is lost  *)
(* (map.go:98), if arrays hold no arrays and attributes are scalars.       *)
Values0 == {Scalar("x"), Null}
Values1 == Values0 \cup {Object(<<Member(k, v)>>) : k \in {"a", "n", "k", "q"}, v \in Values0}
           \cup {Array(<<v, w>>) : v, w \in Values0}
Values2 == {Object(<<Member(k, v), Member(l, w)>>) : k, l \in {"a", "b", "k", "n"}, v, w \in Values1}

RECURSIVE Atoms(_), Built(_)
Atoms(v) ==
    CASE v.kind = "object" -> FoldSet(LAMBDA k, sum : sum + Atoms(v.members[k].value), 0, DOMAIN v.members)
      [] v.kind = "array"  -> FoldSet(LAMBDA k, sum : sum + Atoms(v.items[k]), 0, DOMAIN v.items)
      [] OTHER             -> 1

Built(el) ==
    IF "text" \in DOMAIN el THEN 1
    ELSE Len(el.attrs) + FoldSet(LAMBDA k, sum : sum + Built(el.kids[k]), 0, DOMAIN el.kids)

ASSUME NothingLost ==
    \A s \in {Schema(FALSE), Schema(TRUE)} : \A v \in Values2 :
        (\A k \in DOMAIN v.members : v.members[k].key = "k" => v.members[k].value.kind = "scalar")
        /\ (\A k \in DOMAIN v.members : v.members[k].value.kind = "object" =>
               \A m \in {v.members[k].value.members[1]} : m.key = "a" \/ m.value.kind = "scalar")
            => Built(BuildElement(s, QN("t", "r"), 1, v, <<>>)) = Atoms(v)

(* A prefix is that of the nearest $xmlns around; no prefix is the         *)
(* namespace of the element's own name, whatever $xmlns says (jsonsrc.go:98). *)
ASSUME PrefixesScoped ==
    \A outer, inner \in {<<>>, <<Member("p", Scalar("u"))>>, <<Member("p", Scalar("v")), Member("", Scalar("w"))>>} :
      \A many \in BOOLEAN :
        LET b == Object(<<Member("a", Scalar("x")), Member("$xmlns", Object(inner))>>)
            v == Object(<<Member("b", IF many THEN Array(<<b, b>>) ELSE b), Member("$xmlns", Object(outer))>>)
            r == BuildElement(Schema(FALSE), QN("t", "r"), 1, v, <<>>)
            of(ms) == IF ms = <<>> THEN "unbound" ELSE ms[1].value.text
        IN  /\ Lookup(r, "p") = of(outer)
            /\ Lookup(r.kids[1].kids[1], "p") = of(IF inner = <<>> THEN outer ELSE inner)
            /\ Lookup(r, "") = "t" /\ Lookup(r.kids[1].kids[1], "") = ""

(* A root is found by its local name, the one without a namespace first,   *)
(* and not at all where two others share it (validator.go:77).             *)
ASSUME RootsResolved ==
    /\ {el.name : el \in BuildRoot(Schema(FALSE), Object(<<Member("r", Null)>>))} = {QN("", "r")}
    /\ BuildRoot(Schema(FALSE), Object(<<Member("g", Null)>>)) = {}
    /\ BuildRoot(Schema(FALSE), Object(<<Member("$type", Scalar("x")), Member("r", Null)>>)) # {}
=============================================================================
