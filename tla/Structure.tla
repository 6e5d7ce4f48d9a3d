------------------------------- MODULE Structure -------------------------------
(***************************************************************************)
(* The structural check of a schema document (package parser): which       *)
(* children each xs: element may have, as a table of grammars over local   *)
(* names, the matcher that holds a list of children against one of them,   *)
(* and the walk that applies it, conditional inclusion first.              *)
(* Attributes and their values are left out but where a rule on children   *)
(* reads them.                                                             *)
(***************************************************************************)
EXTENDS Naturals, Sequences, FiniteSets, FiniteSetsExt

-----------------------------------------------------------------------------
(* Grammars.                                                               *)
Names(ns)    == [op |-> "names", of |-> ns]
One(name)    == Names({name})
Ordered(ps)  == [op |-> "seq", parts |-> ps]
Choice(alts) == [op |-> "choice", alts |-> alts]
Star(c)      == [op |-> "star", c |-> c]
Empty        == Ordered(<<>>)
Opt(c)       == Choice(<<Empty, c>>)
Plus(c)      == Ordered(<<c, Star(c)>>)

(* The positions reached, and the names that would have matched, with where. *)
Both(r, rs) == [ends  |-> UNION {x.ends : x \in rs},
                fails |-> r.fails \cup UNION {x.fails : x \in rs}]

Nowhere == [ends |-> {}, fails |-> {}]

RECURSIVE AdvanceOver(_, _, _)
AdvanceOver(c, toks, i) ==
    CASE c.op = "names" ->
           LET tok == IF i < Len(toks) THEN {toks[i + 1]} ELSE {}
           IN  [ends  |-> IF tok \cap c.of # {} THEN {i + 1} ELSE {},
                fails |-> {i} \X (c.of \ tok)]
      [] c.op = "seq" ->
           LET After[k \in 0..Len(c.parts)] ==
                   IF k = 0 THEN [ends |-> {i}, fails |-> {}]
                   ELSE Both(After[k - 1], {AdvanceOver(c.parts[k], toks, s) : s \in After[k - 1].ends})
           IN  After[Len(c.parts)]
      [] c.op = "choice" -> Both(Nowhere, {AdvanceOver(c.alts[k], toks, i) : k \in DOMAIN c.alts})
      [] c.op = "star" ->
           LET Steps(ss) == {AdvanceOver(c.c, toks, s) : s \in ss}
               Reached[k \in i..Len(toks)] ==
                   IF k = i THEN {i} ELSE Reached[k - 1] \cup Both(Nowhere, Steps(Reached[k - 1])).ends
           IN  [Both(Nowhere, Steps(Reached[Len(toks)])) EXCEPT !.ends = Reached[Len(toks)]]

EndOfContent == "(end of content)"

(* The verdict; if it is no, the first offender and what was expected there. *)
MatchContent(c, toks) ==
    LET r        == AdvanceOver(c, toks, 0)
        fails    == r.fails \cup (r.ends \X {EndOfContent})
        furthest == Max({0} \cup {f[1] : f \in fails})
    IN  IF Len(toks) \in r.ends THEN [ok |-> TRUE, at |-> 0, expected |-> {}]
        ELSE [ok |-> FALSE, at |-> furthest, expected |-> {f[2] : f \in {g \in fails : g[1] = furthest}}]

-----------------------------------------------------------------------------
(* The table.                                                              *)
Ann       == Opt(One("annotation"))
AttrDecls == Ordered(<<Star(Names({"attribute", "attributeGroup"})), Opt(One("anyAttribute"))>>)
Particle  == Names({"group", "all", "choice", "sequence"})
Asserts   == Star(One("assert"))
FacetNames ==
    {"minExclusive", "minInclusive", "maxExclusive", "maxInclusive", "totalDigits", "fractionDigits",
     "maxScale", "minScale", "length", "minLength", "maxLength", "enumeration", "whiteSpace",
     "pattern", "assertion", "explicitTimezone"}

DerivedContent == Ordered(<<Opt(One("openContent")), Opt(Particle), AttrDecls, Asserts>>)

Redefinable == {"simpleType", "complexType", "group", "attributeGroup"}
Declared    == Redefinable \cup {"element", "attribute", "notation"}

Within(ctxs, names) == {n \o "@" \o c : n \in names, c \in ctxs}

(* Documents and their parts.                                              *)
DocumentContent(v) ==
    CASE v = "schema" ->
           Ordered(<<Star(Names({"include", "import", "redefine", "override", "annotation"})),
                     Opt(Ordered(<<One("defaultOpenContent"), Star(One("annotation"))>>)),
                     Star(Ordered(<<Names(Declared), Star(One("annotation"))>>))>>)
      [] v = "redefine"   -> Star(Names({"annotation"} \cup Redefinable))
      [] v = "override"   -> Star(Names({"annotation"} \cup Declared))
      [] v = "annotation" -> Star(Names({"appinfo", "documentation"}))
      [] OTHER            -> Ann

SimpleTypeContent(v) ==
    CASE v \in Within({"global", "local"}, {"simpleType"}) -> Ordered(<<Ann, Names({"restriction", "list", "union"})>>)
      [] v = "restriction@simple" -> Ordered(<<Ann, Opt(One("simpleType")), Star(Names(FacetNames))>>)
      [] v = "list"  -> Ordered(<<Ann, Opt(One("simpleType"))>>)
      [] v = "union" -> Ordered(<<Ann, Star(One("simpleType"))>>)
      [] OTHER       -> DocumentContent(v)

ComplexTypeContent(v) ==
    CASE v \in Within({"global", "local"}, {"complexType"}) ->
           Ordered(<<Ann, Choice(<<One("simpleContent"), One("complexContent"), DerivedContent>>)>>)
      [] v \in {"simpleContent", "complexContent"} -> Ordered(<<Ann, Names({"restriction", "extension"})>>)
      [] v = "restriction@simpleContent" ->
           Ordered(<<Ann, Opt(One("simpleType")), Star(Names(FacetNames)), AttrDecls, Asserts>>)
      [] v = "extension@simpleContent" -> Ordered(<<Ann, AttrDecls, Asserts>>)
      [] v \in Within({"complexContent"}, {"restriction", "extension"}) -> Ordered(<<Ann, DerivedContent>>)
      [] v = "openContent"        -> Ordered(<<Ann, Opt(One("any"))>>)
      [] v = "defaultOpenContent" -> Ordered(<<Ann, One("any")>>)
      [] OTHER -> SimpleTypeContent(v)

DeclarationContent(v) ==
    CASE v \in Within({"global", "local"}, {"element"}) ->
           Ordered(<<Ann, Opt(Names({"simpleType", "complexType"})), Star(One("alternative")),
                     Star(Names({"unique", "key", "keyref"}))>>)
      [] v = "alternative" -> Ordered(<<Ann, Opt(Names({"simpleType", "complexType"}))>>)
      [] v \in Within({"global", "local"}, {"attribute"}) -> Ordered(<<Ann, Opt(One("simpleType"))>>)
      [] OTHER -> ComplexTypeContent(v)

GroupContent(v) ==
    CASE v = "group@def"          -> Ordered(<<Ann, Names({"all", "choice", "sequence"})>>)
      [] v = "attributeGroup@def" -> Ordered(<<Ann, AttrDecls>>)
      [] v \in {"all", "all@def"} -> Ordered(<<Ann, Star(Names({"element", "any", "group"}))>>)
      [] v \in {"choice", "sequence"} \cup Within({"def"}, {"choice", "sequence"}) ->
           Ordered(<<Ann, Star(Names({"element", "group", "choice", "sequence", "any"}))>>)
      [] OTHER -> DeclarationContent(v)

ConstraintContent == Ordered(<<Ann, Opt(Ordered(<<One("selector"), Plus(One("field"))>>))>>)

Content(v) == IF v \in {"unique", "key", "keyref"} THEN ConstraintContent ELSE GroupContent(v)

Variants ==
    {"schema", "include", "import", "redefine", "override", "annotation", "appinfo", "documentation",
     "restriction@simple", "list", "union", "simpleContent", "complexContent", "openContent",
     "defaultOpenContent", "assert", "alternative", "all", "choice", "sequence", "any", "anyAttribute",
     "unique", "key", "keyref", "selector", "field", "notation"}
    \cup FacetNames
    \cup Within({"global", "local"}, {"simpleType", "complexType", "element", "attribute"})
    \cup Within({"simpleContent", "complexContent"}, {"restriction", "extension"})
    \cup Within({"def", "ref"}, {"group", "attributeGroup"})
    \cup Within({"def"}, {"all", "choice", "sequence"})

(* The entry for a child, by its context.                                  *)
Groups   == {"all", "choice", "sequence"} \cup Within({"def"}, {"all", "choice", "sequence"})
Complex  == Within({"global", "local"}, {"complexType"})
            \cup Within({"simpleContent", "complexContent"}, {"restriction", "extension"})
HasTypes == {"restriction@simple", "restriction@simpleContent", "list", "union", "alternative"}
            \cup Within({"global", "local"}, {"element", "attribute"})

ChildVariant(v, name) ==
    CASE v \in {"schema", "redefine", "override"} /\ name \in {"element", "attribute", "simpleType", "complexType"} ->
           name \o "@global"
      [] v \in {"schema", "redefine", "override"} /\ name \in {"group", "attributeGroup"} -> name \o "@def"
      [] v \in Groups /\ name = "element"                                  -> "element@local"
      [] v \in Groups \cup Complex /\ name = "group"                       -> "group@ref"
      [] v \in Complex \cup {"attributeGroup@def"} /\ name = "attribute"      -> "attribute@local"
      [] v \in Complex \cup {"attributeGroup@def"} /\ name = "attributeGroup" -> "attributeGroup@ref"
      [] v \in HasTypes /\ name \in {"simpleType", "complexType"}          -> name \o "@local"
      [] v \in Within({"global", "local"}, {"simpleType"}) /\ name = "restriction" -> "restriction@simple"
      [] v \in {"simpleContent", "complexContent"} /\ name \in {"restriction", "extension"} -> name \o "@" \o v
      [] v = "group@def" /\ name \in {"all", "choice", "sequence"}         -> name \o "@def"
      [] OTHER -> name

AllowForeign(v) == v \in {"restriction@simple", "restriction@simpleContent"}
FreeContent(v)  == v \in {"appinfo", "documentation"}

-----------------------------------------------------------------------------
(* Nodes: a name in the XSD namespace or "foreign", the attributes that a  *)
(* rule on children reads, vc: attributes and children.  A version is told *)
(* by how it compares with 1.1, a list by the kinds of its items.          *)
PrunedBy(a) ==
    CASE a.attr = "minVersion"  -> a.val = "above"
      [] a.attr = "maxVersion"  -> a.val \in {"below", "at"}
      [] a.attr = "available"   -> "unknown" \in a.val
      [] a.attr = "unavailable" -> "unknown" \notin a.val

Pruned(n) == \E a \in n.vc : PrunedBy(a)

(* countChildren, which looks at every child, pruned or not.               *)
Has(n, names) == \E k \in DOMAIN n.kids : n.kids[k].name \in names
CountOf(n, names) == Cardinality({k \in DOMAIN n.kids : n.kids[k].name \in names})

(* Another alternative follows one without a test, the default.            *)
Overtaken(n) == \E j, k \in DOMAIN n.kids :
                   /\ j < k /\ n.kids[j].name = "alternative" /\ n.kids[k].name = "alternative"
                   /\ "test" \notin n.kids[j].attrs

(* The rules of the table's extra functions that look at children.         *)
ElementBroken(n)   == ("type" \in n.attrs /\ Has(n, {"simpleType", "complexType"})) \/ Overtaken(n)
AttributeBroken(n) == "type" \in n.attrs /\ Has(n, {"simpleType"})
NameOrRef(n)       == ("name" \in n.attrs) # ("ref" \in n.attrs)

BesideRef(n, attrs, names) == "ref" \in n.attrs /\ (n.attrs \cap attrs # {} \/ Has(n, names))

ConstraintBroken(v, n) ==
    \/ ~NameOrRef(n)
    \/ "name" \in n.attrs /\ ~Has(n, {"selector"})
    \/ v = "keyref" /\ "name" \in n.attrs /\ "refer" \notin n.attrs
    \/ BesideRef(n, {"refer"}, {"selector", "field"})

ExtraBroken(v, n) ==
    CASE v = "restriction@simple" -> ("base" \in n.attrs) = Has(n, {"simpleType"})
      [] v = "list"               -> ("itemType" \in n.attrs) = Has(n, {"simpleType"})
      [] v = "union"              -> "memberTypes" \notin n.attrs /\ ~Has(n, {"simpleType"})
      [] v = "openContent"        -> ("none" \in n.attrs) = Has(n, {"any"})
      [] v = "alternative"        ->
           CountOf(n, {"simpleType", "complexType"}) + (IF "type" \in n.attrs THEN 1 ELSE 0) # 1
      [] v \in {"unique", "key", "keyref"} -> ConstraintBroken(v, n)
      [] v = "element@global"     -> ElementBroken(n)
      [] v = "attribute@global"   -> AttributeBroken(n)
      [] v = "element@local"      ->
           ElementBroken(n) \/ ~NameOrRef(n)
           \/ BesideRef(n, {"type"}, {"simpleType", "complexType", "alternative", "unique", "key", "keyref"})
      [] v = "attribute@local"    ->
           AttributeBroken(n) \/ ~NameOrRef(n) \/ BesideRef(n, {"type"}, {"simpleType"})
      [] OTHER -> FALSE

(* What the walk reports, each with the path of the node it reports, and   *)
(* the nodes it checks.                                                    *)
RECURSIVE Validate(_, _, _)
Validate(n, variant, path) ==
    LET kept  == SelectSeq([k \in DOMAIN n.kids |-> k], LAMBDA k : ~Pruned(n.kids[k]))
        toks  == SelectSeq(kept, LAMBDA k : n.kids[k].name # "foreign")
        match == MatchContent(Content(variant), [j \in DOMAIN toks |-> n.kids[toks[j]].name])
        known == {j \in DOMAIN toks : ChildVariant(variant, n.kids[toks[j]].name) \in Variants}
        below == {Validate(n.kids[toks[j]], ChildVariant(variant, n.kids[toks[j]].name), Append(path, toks[j])) :
                     j \in known}
        extra == IF ExtraBroken(variant, n) THEN {<<"extra", path>>} ELSE {}
        alien == {<<"foreign", Append(path, kept[j])>> :
                     j \in {i \in DOMAIN kept : n.kids[kept[i]].name = "foreign" /\ ~AllowForeign(variant)}}
        wrong == CASE match.ok               -> {}
                   [] ~match.ok /\ match.at < Len(toks) -> {<<"child", Append(path, toks[match.at + 1])>>}
                   [] OTHER                  -> {<<"incomplete", path>>}
    IN  CASE variant = "schema" /\ Pruned(n) -> [reports |-> {}, checked |-> {path}]
          [] FreeContent(variant)            -> [reports |-> extra, checked |-> {path}]
          [] OTHER -> [reports |-> extra \cup alien \cup wrong \cup UNION {b.reports : b \in below},
                       checked |-> {path} \cup UNION {b.checked : b \in below}]

-----------------------------------------------------------------------------
(* What it promises.  The language of a grammar, by derivatives: what may  *)
(* follow a name.                                                          *)
Void == Names({})

RECURSIVE Nullable(_)
Nullable(c) ==
    CASE c.op = "names"  -> FALSE
      [] c.op = "seq"    -> \A k \in DOMAIN c.parts : Nullable(c.parts[k])
      [] c.op = "choice" -> \E k \in DOMAIN c.alts : Nullable(c.alts[k])
      [] c.op = "star"   -> TRUE

Either(a, b) == CASE a = Void -> b [] b = Void -> a [] OTHER -> Choice(<<a, b>>)
Then(a, b)   == IF a = Void THEN Void ELSE Ordered(<<a, b>>)

RECURSIVE Rest(_, _)
Rest(c, name) ==
    CASE c.op = "names"  -> IF name \in c.of THEN Empty ELSE Void
      [] c.op = "seq"    ->
           IF c.parts = <<>> THEN Void
           ELSE Either(Then(Rest(Head(c.parts), name), Ordered(Tail(c.parts))),
                       IF Nullable(Head(c.parts)) THEN Rest(Ordered(Tail(c.parts)), name) ELSE Void)
      [] c.op = "choice" ->
           IF c.alts = <<>> THEN Void ELSE Either(Rest(Head(c.alts), name), Rest(Choice(Tail(c.alts)), name))
      [] c.op = "star"   -> Then(Rest(c.c, name), c)

RECURSIVE RestAfter(_, _)
RestAfter(c, toks) == IF toks = <<>> THEN c ELSE RestAfter(Rest(c, Head(toks)), Tail(toks))

RECURSIVE Begins(_)
Begins(c) ==
    CASE c.op = "names"  -> c.of
      [] c.op = "seq"    ->
           UNION {Begins(c.parts[k]) : k \in {j \in DOMAIN c.parts : \A i \in 1..(j - 1) : Nullable(c.parts[i])}}
      [] c.op = "choice" -> UNION {Begins(c.alts[k]) : k \in DOMAIN c.alts}
      [] c.op = "star"   -> Begins(c.c)

(* A list is accepted when it is a word of the grammar; else the offender  *)
(* is the child after the longest prefix of a word, and what was expected  *)
(* is what may follow that prefix.                                         *)
MatchIs(c, toks) ==
    LET rest(k) == RestAfter(c, SubSeq(toks, 1, k))
        longest == Max({k \in 0..Len(toks) : rest(k) # Void})
    IN  IF longest = Len(toks) /\ Nullable(rest(longest)) THEN [ok |-> TRUE, at |-> 0, expected |-> {}]
        ELSE [ok |-> FALSE, at |-> longest,
              expected |-> Begins(rest(longest)) \cup (IF Nullable(rest(longest)) THEN {EndOfContent} ELSE {})]

(* The grammars are deterministic: a name tells which part it belongs to.  *)
RECURSIVE Deterministic(_, _)
Deterministic(c, follow) ==
    CASE c.op = "names"  -> TRUE
      [] c.op = "seq"    ->
           \A k \in DOMAIN c.parts :
               LET later == Ordered(SubSeq(c.parts, k + 1, Len(c.parts)))
               IN  Deterministic(c.parts[k], Begins(later) \cup (IF Nullable(later) THEN follow ELSE {}))
      [] c.op = "choice" ->
           /\ \A j, k \in DOMAIN c.alts : j # k => Begins(c.alts[j]) \cap Begins(c.alts[k]) = {}
           /\ Nullable(c) => Begins(c) \cap follow = {}
           /\ \A k \in DOMAIN c.alts : Deterministic(c.alts[k], follow)
      [] c.op = "star"   -> Begins(c.c) \cap follow = {} /\ Deterministic(c.c, Begins(c.c) \cup follow)

RECURSIVE Alphabet(_)
Alphabet(c) ==
    CASE c.op = "names"  -> c.of
      [] c.op = "seq"    -> UNION {Alphabet(c.parts[k]) : k \in DOMAIN c.parts}
      [] c.op = "choice" -> UNION {Alphabet(c.alts[k]) : k \in DOMAIN c.alts}
      [] c.op = "star"   -> Alphabet(c.c)

(* The document that conditional inclusion leaves.                         *)
RECURSIVE Included(_)
Included(n) ==
    LET kept == SelectSeq(n.kids, LAMBDA c : ~Pruned(c))
    IN  [n EXCEPT !.kids = [k \in DOMAIN kept |-> Included(kept[k])], !.vc = {}]

RECURSIVE WellFormed(_, _)
WellFormed(n, v) ==
    \/ FreeContent(v)
    \/ LET xsd == SelectSeq(n.kids, LAMBDA c : c.name # "foreign")
       IN  /\ Nullable(RestAfter(Content(v), [k \in DOMAIN xsd |-> xsd[k].name]))
           /\ xsd = n.kids \/ AllowForeign(v)
           /\ ~ExtraBroken(v, n)
           /\ \A k \in DOMAIN xsd : WellFormed(xsd[k], ChildVariant(v, xsd[k].name))

(* Every node of it but the content of appinfo and documentation.          *)
RECURSIVE Judged(_, _)
Judged(n, path) ==
    {path} \cup UNION {Judged(n.kids[k], Append(path, k)) :
                          k \in {j \in DOMAIN n.kids : /\ ~Pruned(n.kids[j]) /\ n.kids[j].name # "foreign"
                                                       /\ ~FreeContent(n.name)}}
=============================================================================
