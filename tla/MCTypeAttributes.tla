--------------------------- MODULE MCTypeAttributes ---------------------------
(* Three complex types over two attribute groups.                          *)
EXTENDS TypeAttributes, TLC

CONSTANTS t1, t2, t3, g, h

Spaces == "T" :> "T" @@ "L" :> "" @@ "U" :> "U"

Attribute(o)    == [kind |-> "attribute", use |-> [name |-> "T", at |-> o]]
Other(o)        == [kind |-> "attribute", use |-> [name |-> "L", at |-> o]]
Prohibit        == [kind |-> "prohibited", name |-> "T"]
GroupRef(r)     == [kind |-> "group", ref |-> r]
AnyAttribute(m, ns, not, kw, pc) ==
    [kind |-> "any", wildcard |-> [mode |-> m, namespaces |-> ns, notQName |-> not,
                                   keywords |-> kw, processContents |-> pc]]

Everything == AnyAttribute("any", {}, {}, {}, Lax)
OtherSpace == AnyAttribute("not", {"T", ""}, {}, {}, Strict)
OwnSpace   == AnyAttribute("enumeration", {"T"}, {}, {}, Skip)
NotForeign == AnyAttribute("not", {"U"}, {"T"}, {}, Strict)
Undeclared == AnyAttribute("any", {}, {"L"}, {"##defined"}, Strict)
Locals     == AnyAttribute("enumeration", {"T", ""}, {"L"}, {}, Lax)

Five(v1, v2, v3, vg, vh) == (t1 :> v1) @@ (t2 :> v2) @@ (t3 :> v3) @@ (g :> vg) @@ (h :> vh)
Three(v1, v2, v3) == (t1 :> v1) @@ (t2 :> v2) @@ (t3 :> v3)
SchemaOf(order, nested, base, ext, simple, children, defaults, optOut) ==
    [order |-> order, nested |-> nested, base |-> base, extension |-> ext, simple |-> simple,
     children |-> children, defaults |-> defaults, optOut |-> optOut]

(* Derivation chains, forks and an anonymous type t3 met inside t2.        *)
DeriveSchemas ==
    {w \in {SchemaOf(IF inner THEN <<t2, t1>> ELSE <<t3, t1, t2>>,
                     Three(<< >>, IF inner THEN <<t3>> ELSE << >>, << >>),
                     Three(AnyType, t1, b3), ext, {}, Five(c1, c2, c3, cg, ch), NoGroup, {}) :
               inner \in BOOLEAN, b3 \in {t1, t2}, ext \in SUBSET {t2, t3},
               c1 \in {<<Attribute(t1)>>, <<GroupRef(h), Everything>>, <<GroupRef(g), Other(t1)>>, <<NotForeign>>},
               c2 \in {<<Prohibit, Undeclared>>, <<GroupRef(g), GroupRef(h)>>, <<OwnSpace>>,
                       <<GroupRef(g), Other(t2), Attribute(t2)>>, <<Other(t2), GroupRef(h)>>},
               c3 \in {<< >>, <<Prohibit, GroupRef(h)>>, <<OtherSpace>>},
               cg \in {<<Attribute(g), Undeclared>>, <<GroupRef(h), Attribute(g)>>},
               ch \in {<<OtherSpace>>, <<GroupRef(g), Locals>>, <<Other(h), Other(g)>>}} : TRUE}

(* A default group with and without a wildcard, opted out of or not.       *)
DefaultSchemas ==
    {w \in {SchemaOf(<<t1, t2, t3>>, Three(<< >>, << >>, << >>), Three(AnyType, t1, t2), ext, {},
                     Five(c1, c2, << >>, cg, ch), g, optOut) :
               ext \in SUBSET {t2, t3}, optOut \in SUBSET {t1, t2, t3},
               c1 \in {<< >>, <<Other(t1)>>, <<Attribute(t1), NotForeign>>},
               c2 \in {<< >>, <<Prohibit>>, <<GroupRef(h)>>, <<Other(t2), Everything>>},
               cg \in {<<Attribute(g)>>, <<GroupRef(h), OtherSpace>>, <<Everything>>},
               ch \in {<<Other(h)>>, <<OwnSpace>>}} : TRUE}

(* t2 has simple content, by restriction of a mixed t1 or by extension.     *)
SimpleSchemas ==
    {w \in {SchemaOf(<<t1, t2>>, Three(<< >>, << >>, << >>), Three(AnyType, t1, t2), ext, {t2},
                     Five(c1, c2, << >>, << >>, << >>), NoGroup, {}) :
               ext \in SUBSET {t1, t2}, c1 \in {<< >>, <<Everything>>, <<OwnSpace>>},
               c2 \in {<< >>, <<OwnSpace>>}} : TRUE}

AllSchemas == DeriveSchemas \cup DefaultSchemas \cup SimpleSchemas
=============================================================================
