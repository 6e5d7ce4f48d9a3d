----------------------------- MODULE MCContentTypes -----------------------------
(***************************************************************************)
(* Families of content types.  Names a, b, s, g have no namespace; x and h *)
(* have namespace X, y has Y, f has F; g, h, y and f stand for the names   *)
(* that no schema mentions.  s is substitutable for b.  Type U is derived  *)
(* from T by restriction, V is not related to them.                        *)
(***************************************************************************)
EXTENDS ContentTypeRules

Spaces == [q \in {"a", "b", "s", "g", "x", "h", "y", "f"} |->
             CASE q \in {"x", "h"} -> "X" [] q = "y" -> "Y" [] q = "f" -> "F" [] OTHER -> ""]
Unmentioned == [ns \in {"", "X", "Y"} |-> CASE ns = "X" -> "h" [] ns = "Y" -> "y" [] OTHER -> "g"]

TypeNames == {"T", "U", "V", "anyType"}
Derives == {<<t, t>> : t \in TypeNames} \cup {<<t, "anyType">> : t \in TypeNames} \cup {<<"U", "T">>}

Decl(n, t) == [name |-> n, type |-> t, table |-> 0, nillable |-> FALSE, abstract |-> FALSE, global |-> FALSE]
GlobalB == [Decl("b", "T") EXCEPT !.global = TRUE, !.abstract = TRUE]
GlobalS == [Decl("s", "U") EXCEPT !.global = TRUE]
GlobalA == [Decl("a", "V") EXCEPT !.global = TRUE, !.table = 1]
AllGlobals == [q \in {"a", "b", "s"} |-> CASE q = "a" -> GlobalA [] q = "b" -> GlobalB [] OTHER -> GlobalS]
Affiliations == {<<GlobalS, GlobalB>>}
Declarable == [name : Name, type : TypeNames, table : {0, 1}, nillable : BOOLEAN, abstract : BOOLEAN, global : BOOLEAN]

AnyName   == [mode |-> "any", namespaces |-> {}, notQName |-> {}, keywords |-> {}, processContents |-> Lax]
In(m, S)  == [AnyName EXCEPT !.mode = m, !.namespaces = S]
NoSibling == [AnyName EXCEPT !.keywords = {"##definedSibling"}]
NoGlobal  == [AnyName EXCEPT !.keywords = {"##defined"}]
Foreign   == In("enumeration", {"X"})
NotX      == [AnyName EXCEPT !.notQName = {"x"}]
With(w, pc) == [w EXCEPT !.processContents = pc]

P(lo, hi, t) == Particle(lo, hi, t)
D(d)         == [kind |-> "element", decl |-> d]
E(n)         == D(CASE n = "b" -> GlobalB [] n = "s" -> GlobalS [] OTHER -> Decl(n, "T"))
W(w)         == [kind |-> "wildcard", wildcard |-> w]
G(kind, ps)  == Group(kind, ps)
Ref(t)       == [kind |-> "ref", group |-> t]
Leafs(os, ts) == {P(o[1], o[2], t) : o \in os, t \in ts}
One == {<<1, 1>>}
Opt == {<<0, 1>>}
Few == {<<1, 1>>, <<0, 1>>, <<1, Unbounded>>}

Op(m, w) == [mode |-> m, wildcard |-> w]
NoDefault == [open |-> NoOpen, appliesToEmpty |-> FALSE]

Declaration(method, b, o, default, words) ==
    [method |-> method, base |-> b, own |-> o, default |-> default, words |-> words]
Alone(p, o, words) == Declaration("none", SimpleContent, Content(p, FALSE, o), NoDefault, words)

-----------------------------------------------------------------------------
(* Content models to match against, two groups deep.                       *)
MatchLeaves == Leafs({<<1, 1>>, <<0, 1>>, <<0, Unbounded>>, <<2, 2>>}, {E("a"), E("b"), W(NoSibling), W(Foreign)})
MatchSecond == {P(1, 1, E("a")), P(0, 1, E("a")), P(0, 1, W(AnyName))}
MatchFlat == {P(o[1], o[2], G(k, <<p, q>>)) : o \in {<<1, 1>>, <<1, Unbounded>>}, k \in {"sequence", "choice"},
                p \in MatchLeaves, q \in MatchSecond}
MatchAlls == {P(n, 1, G("all", <<P(o, h, E("a")), q>>)) : n \in {0, 1}, o \in {0, 1}, h \in {1, 2},
                q \in {P(1, 1, E("b")), P(0, Unbounded, W(Foreign)), P(0, 1, W(NoSibling)),
                       P(0, 1, G("all", <<P(1, 1, E("b"))>>)), P(1, 1, Ref(G("all", <<P(1, 2, E("b"))>>)))}}
MatchNested == {P(1, 1, G(k, <<P(o[1], o[2], t), P(n, 1, E("a"))>>)) :
                  k \in {"sequence", "choice"}, o \in {<<0, 1>>, <<2, 2>>, <<1, Unbounded>>}, n \in {0, 1},
                  t \in {G("sequence", <<P(0, 1, E("a")), P(0, 1, E("b"))>>), G("sequence", << >>), G("choice", << >>),
                         Ref(G("choice", <<P(0, 1, E("a")), P(1, 1, W(Foreign))>>))}}
MatchOpens == {NoOpen, Op("suffix", Foreign), Op("interleave", Foreign), Op("interleave", AnyName)}
Matched == {Alone(p, o, "many") : p \in {p \in MatchFlat \cup MatchAlls \cup MatchNested : TRUE}, o \in MatchOpens}

(* Content models whose leaves may compete.                                *)
Some == {E("a"), E("b"), W(Foreign), W(In("not", {""}))}
Inner == {G(k, <<p, q>>) : k \in {"sequence", "choice"}, p \in Leafs(Few, Some), q \in Leafs(One \cup Opt, Some)}
Competes == {P(1, 1, G(k, <<P(o[1], o[2], g), q>>)) : k \in {"sequence", "choice"}, o \in Few \cup {<<0, Unbounded>>},
               g \in Inner, q \in Leafs(One, {E("a"), W(AnyName)})}
AllTerms == {E("s"), E("b"), W(Foreign), W(In("not", {"", "X"})), W(AnyName)}
CompetesAll == {P(1, 1, G("all", <<p, q, r>>)) :
                  p \in Leafs(One \cup Opt, AllTerms), q \in Leafs(Opt, AllTerms), r \in Leafs(One, AllTerms)}
Competing_ == {Alone(p, NoOpen, "none") : p \in {p \in Competes \cup CompetesAll : TRUE}}

(* Declarations of one name in one model.                                  *)
SameNames == {D(Decl("a", "T")), D(Decl("a", "V")), D([Decl("a", "T") EXCEPT !.table = 1]), D(GlobalA), D(GlobalB),
              D(Decl("s", "U")), D(Decl("s", "T")), W(AnyName), W(With(AnyName, Skip)), W(With(In("not", {"X"}), Strict))}
Repeat(k, o, t, u) == Alone(P(1, 1, G(k, <<P(o, 1, t), P(1, 1, E("x")), u>>)), NoOpen, "named")
Repeated == {Repeat(k, o, t, P(0, 1, u)) : k \in {"sequence", "choice", "all"}, o \in {0, 1}, t \in SameNames, u \in SameNames}
RepeatedInRef == {Repeat(k, o, t, P(1, 1, Ref(G(IF k = "all" THEN k ELSE "sequence", <<P(0, 1, E("f")), P(0, 1, u)>>)))) :
                    k \in {"sequence", "choice", "all"}, o \in {0, 1}, t \in SameNames, u \in SameNames}

-----------------------------------------------------------------------------
(* Restrictions                                                            *)
BaseLeaves == Leafs({<<1, 1>>, <<0, 2>>}, {E("a")}) \cup {P(0, 1, D([Decl("a", "T") EXCEPT !.nillable = TRUE]))}
BaseSecond == Leafs({<<1, 1>>, <<0, Unbounded>>}, {E("s"), E("b"), W(Foreign), W(In("not", {""}))}) \cup {P(0, 2, W(AnyName))}
Bases == {P(1, 1, G(k, <<p, q>>)) : k \in {"sequence", "all"}, p \in BaseLeaves, q \in BaseSecond}
         \cup {P(0, 1, G("sequence", <<P(1, 1, E("a")), P(0, 2, W(Foreign))>>)),
               P(1, 2, G("sequence", <<P(1, 1, E("a")), P(0, 1, E("s"))>>)),
               P(1, 1, G("choice", <<P(1, 1, E("a")), P(0, 1, E("s"))>>))}
WildBases == {P(1, 1, G("all", <<P(n, h, E("a")), P(o[1], o[2], W(Foreign)), P(0, 1, t)>>)) :
                n \in {0, 1}, h \in {1, 2}, o \in {<<0, 1>>, <<1, 2>>},
                t \in {W(In("enumeration", {"Y"})), W(In("not", {"", "X"})), W(AnyName), W(NoGlobal)}}

Restricting == {E("a"), D(Decl("a", "U")), D(Decl("a", "V")), D([Decl("a", "T") EXCEPT !.nillable = TRUE]),
                D([Decl("a", "T") EXCEPT !.table = 1]), E("s"), E("x"), W(Foreign), W(AnyName), W(In("enumeration", {"Y"}))}
RLeaves == Leafs({<<1, 1>>, <<0, 1>>, <<0, 2>>}, Restricting)
RSecond == {P(1, 1, E("s")), P(0, 1, E("a")), P(0, 2, W(Foreign)), P(0, 1, E("x"))}
Restricted(kind) ==
    {P(1, 1, G(kind, <<p>>)) : p \in RLeaves} \cup {P(1, 1, G(kind, <<p, q>>)) : p \in RLeaves, q \in RSecond}
RChoices == {P(1, 1, G("choice", <<p, P(1, 1, G("sequence", <<P(1, 1, E("a")), q>>))>>)) :
              p \in Leafs(One, {E("a"), E("s"), E("x")}), q \in RSecond}
            \cup {P(1, 2, G("choice", <<P(1, 1, E("a"))>>)), P(0, 1, G("sequence", <<P(1, 1, E("a"))>>))}

Narrow(b, r) == Declaration("restriction", Content(b, FALSE, NoOpen), Content(r, FALSE, NoOpen), NoDefault, "some")
RestrictionsIn(kind) == {Narrow(b, r) : b \in {b \in Bases : b.term.kind = kind}, r \in Restricted(kind)}
Restrictions ==
    <<RestrictionsIn("sequence"), RestrictionsIn("all"),
      {Narrow(b, r) : b \in Bases, r \in RChoices}, {Narrow(b, r) : b \in WildBases, r \in Restricted("all")},
      {[Narrow(b, r) EXCEPT !.method = "redefine"] : b \in {b \in Bases : IsOnce(b)}, r \in RChoices}>>

(* Open contents, restricted and extended.                                 *)
OpenWildcards == {Foreign, AnyName, NotX, With(Foreign, Strict), With(AnyName, Skip)}
Opens == {NoOpen, Op("none", NoWildcard)} \cup {Op(m, w) : m \in {"suffix", "interleave"}, w \in OpenWildcards}
OpenModels == {NoParticle, P(1, 1, G("sequence", << >>)), P(1, 1, G("sequence", <<P(0, 1, E("a"))>>)),
               P(1, 1, G("choice", <<P(1, 1, E("x")), P(1, 1, E("a"))>>)),
               P(0, 1, G("all", <<P(1, 1, E("a")), P(0, 1, E("x"))>>)),
               P(1, 1, Ref(G("sequence", <<P(1, 1, E("a"))>>))), P(1, 1, G("sequence", <<P(0, 2, W(Foreign))>>))}
Reopened == {Declaration("restriction", Content(p, FALSE, o), Content(p, FALSE, r), NoDefault, "none") :
               p \in OpenModels, o \in {o \in Opens : o.mode # "none"}, r \in Opens}

Added == {NoParticle, P(0, 1, G("sequence", <<P(1, 1, E("b"))>>)), P(1, 1, G("all", <<P(0, 1, E("b"))>>)),
          P(0, 1, G("all", <<P(0, 1, E("s"))>>)), P(1, 1, Ref(G("all", <<P(0, 1, E("b"))>>))), P(0, 1, G("sequence", <<P(1, 1, E("a"))>>))}
Defaults == {NoDefault, [open |-> Op("suffix", Foreign), appliesToEmpty |-> FALSE], [open |-> Op("interleave", Foreign), appliesToEmpty |-> TRUE]}
Extended == {Declaration("extension", Content(p, m, o), Content(q, n, r), d, "some") :
               p \in OpenModels, m \in {FALSE}, o \in {NoOpen, Op("suffix", NotX), Op("interleave", Foreign)},
               q \in Added, n \in BOOLEAN, r \in {NoOpen, Op("none", NoWildcard), Op("suffix", AnyName), Op("interleave", NotX)}, d \in Defaults}
ExtendedSimple == {Declaration("extension", SimpleContent, Content(q, n, NoOpen), NoDefault, "none") : q \in Added, n \in BOOLEAN}

Emptied == {Declaration("simple", b, SimpleContent, NoDefault, "none") :
              b \in {SimpleContent} \cup {Content(p, m, NoOpen) : m \in BOOLEAN,
                     p \in OpenModels \cup {p \in MatchNested \cup MatchAlls : TRUE} \cup {P(1, 1, G("choice", <<P(1, 1, G("sequence", << >>)), P(1, 1, E("a"))>>))}}}

Families == <<Matched, Competing_, Repeated, RepeatedInRef, Reopened, Extended, ExtendedSimple, Emptied>> \o Restrictions

-----------------------------------------------------------------------------
Over(S, n) == UNION {[1..k -> S] : k \in 0..n}
Rarely(S, q, n) == {w \in [1..n -> S \cup {q}] : Cardinality({i \in 1..n : w[i] = q}) <= 1}
Many == Over({"a", "b", "s", "x"}, 2) \cup Rarely({"a"}, "s", 3) \cup Rarely({"a", "s"}, "x", 3) \cup Rarely({"a"}, "s", 4)
Little == Over({"a", "s", "x"}, 2) \cup {<<"a", "a", "x">>}

Words(d) == CASE d.words = "many" -> Many [] d.words = "some" -> Little [] OTHER -> {}

Telling == Over({"a", "s", "x", "y", "f"}, 2) \cup Over({"a", "s", "x"}, 3) \cup Rarely({"x"}, "a", 4) \cup Rarely({"x"}, "y", 3)
Naming  == Over({"a", "s", "x"}, 3)
(* The models of the other families declare no name twice.                 *)
Looked(d) == IF d.words = "named" THEN Naming ELSE IF d.method = "none" THEN Over({"a", "s"}, 1) ELSE Telling
=============================================================================
