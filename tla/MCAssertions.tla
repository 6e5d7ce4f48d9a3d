------------------------------ MODULE MCAssertions ------------------------------
(***************************************************************************)
(* Families of elements with tests.  Trees have up to MaxNodes elements    *)
(* named a and b below a root r; a leaf's text is 1 or 2, an element's x   *)
(* attribute is its place among its siblings.                              *)
(***************************************************************************)
EXTENDS AssertionRules

CONSTANTS MaxNodes,  \* elements of a tree
          Deep       \* leaves in two contexts

A == <<"a">>
B == <<"b">>
R == <<"r">>
X == <<"x">>
Y == <<"y">>
Digits(n) == IF n < 10 THEN <<ToString(n)>> ELSE <<ToString(n \div 10), ToString(n % 10)>>

Chars == <<" ", "$", "(", ")", "*", "-", ".", "0", "1", "2", "3", "4", "5", "6", "7", "8", "9", "\\",
           "a", "b", "c", "d", "e", "f", "l", "r", "s", "t", "u", "x", "y">>
Worth(s) == FoldLeft(LAMBDA acc, d : 10 * acc + (CHOOSE n \in 0..9 : ToString(n) = d), 0, s)
OneTwo == {"1", "2"}
Numbers == [s \in {Digits(n) : n \in 0..20} \cup [1..2 -> OneTwo] \cup [1..3 -> OneTwo] |-> Whole(Worth(s))]
Texts == [q \in {Whole(n) : n \in 0..20} \cup {Fraction(n, 2) : n \in 0..9} |->
            Digits(q[1] \div q[2]) \o IF q[2] = 2 THEN <<".", "5">> ELSE << >>]
PatternA == <<"(", "a", ")">>
PatternStar == <<"a", "*">>
Patterns == [p \in {<<PatternA, << >>>>, <<PatternStar, << >>>>, <<PatternA, <<"i">>>>} |->
               [finds |-> {"a"}, groups |-> 1, empty |-> p[1] = PatternStar]]
DateTable == [k \in {<<"year-from-date", <<"d">>>>, <<"day-from-date", <<"d">>>>} |-> IF k[1] = "year-from-date" THEN Whole(8) ELSE Whole(3)]
Today == <<"d">>
Casts == [t \in {"integer", "boolean", "date"} |->
            CASE t = "integer" -> {Digits(n) : n \in 0..20} [] t = "boolean" -> {TrueText, FalseText, <<"0">>, <<"1">>} [] t = "date" -> {<<"d">>}]

-----------------------------------------------------------------------------
(* Expressions                                                             *)
Num(i)  == [k |-> "litNum", n |-> Whole(i)]
Half(i) == [k |-> "litNum", n |-> Fraction(i, 2)]
Str(s)  == [k |-> "litStr", s |-> s]
Neg(x)  == [k |-> "unary", op |-> "-", x |-> x]
Bin(l, op, r) == [k |-> "binary", op |-> op, l |-> l, r |-> r]
Fn(name, args) == [k |-> "call", prefix |-> "", name |-> name, args |-> args]
Xs(name, x) == [k |-> "call", prefix |-> "xs", name |-> name, args |-> <<x>>]
Var(n)   == [k |-> "varRef", name |-> n]
List(xs) == [k |-> "seqExpr", items |-> xs]
To(l, h) == [k |-> "rangeExpr", lo |-> l, hi |-> h]
If(c, t, u) == [k |-> "ifExpr", cond |-> c, then |-> t, els |-> u]
Some(v, s, x)  == [k |-> "quantified", every |-> FALSE, binds |-> <<[name |-> v, seq |-> s]>>, body |-> x]
Every(v, s, x) == [k |-> "quantified", every |-> TRUE, binds |-> <<[name |-> v, seq |-> s]>>, body |-> x]
For(v, s, x)   == [k |-> "forExpr", binds |-> <<[name |-> v, seq |-> s]>>, body |-> x]
TypeOp(x, kind, typ) == [k |-> "typeOp", x |-> x, kind |-> kind, typ |-> typ]
Filter(x, preds) == [k |-> "filterExpr", x |-> x, preds |-> preds]

Step(axis, n, preds) ==
    [axis |-> axis, preds |-> preds,
     test |-> IF n = << >> THEN [kind |-> "star", name |-> n] ELSE [kind |-> "name", name |-> n]]
Path(steps) == [k |-> "pathExpr", fromRoot |-> FALSE, start |-> << >>, steps |-> steps]
From(x, steps) == [k |-> "pathExpr", fromRoot |-> FALSE, start |-> <<x>>, steps |-> steps]
Absolute == [k |-> "pathExpr", fromRoot |-> TRUE, start |-> << >>, steps |-> <<Step("child", A, << >>)>>]
Dot == Path(<<Step("self", << >>, << >>)>>)
All(axis) == Path(<<Step(axis, << >>, << >>)>>)
Attr(n)   == Path(<<Step("attribute", n, << >>)>>)
Count(x)  == Fn("count", <<x>>)
Not(x)    == Fn("not", <<x>>)
Hole_     == Var("hole")

Node_  == [kind |-> "node", name |-> << >>]
Here   == Path(<<[axis |-> "self", preds |-> << >>, test |-> Node_]>>)
Root_  == [k |-> "pathExpr", fromRoot |-> TRUE, start |-> << >>, steps |-> << >>]
Words_ == {"a", "b", "r", "x", "y", "or", "and", "eq", "is", "div", "mod", "to", "intersect", "except", "union", "if", "then", "else", "for", "in",
           "return", "some", "every", "satisfies", "instance", "of", "treat", "cast", "castable", "as", "integer", "C", "v", "w", "node", "text",
           "self", "child", "parent", "attribute", "following", "descendant-or-self", "concat", "true", "not", "fn"}
Names  == [n \in Words_ |-> <<n>>]

-----------------------------------------------------------------------------
(* Trees                                                                   *)
RECURSIVE Shapes(_)
Shapes(n) ==
    IF n = 1 THEN {{<< >>}}
    ELSE UNION {{S \cup {Append(p, 1 + Cardinality({q \in S : Extends(q, p) /\ Len(q) = Len(p) + 1}))} : p \in S} : S \in Shapes(n - 1)}

Tree(S, name) ==
    [p \in S |-> [name |-> IF p = << >> THEN R ELSE name[p],
                  text |-> IF \E q \in S : Extends(q, p) THEN << >> ELSE Digits(IF p # << >> /\ (Len(p) + Last(p)) % 2 = 0 THEN 2 ELSE 1),
                  attrs |-> IF p = << >> THEN <<<<Y, <<"1">>>>>> ELSE <<<<X, Digits(Last(p))>>>>]]

Trees == UNION {UNION {{Tree(S, name) : name \in [S \ {<< >>} -> {A, B}]} : S \in Shapes(n)} : n \in 1..MaxNodes}

Leaf(text) == (<< >> :> [name |-> R, text |-> text, attrs |-> <<<<X, A>>>>])
Small == (<< >> :> [name |-> R, text |-> << >>, attrs |-> <<<<X, <<"2">>>>>>])
         @@ (<<1>> :> [name |-> A, text |-> <<"2">>, attrs |-> <<<<X, <<"1">>>>>>])
         @@ (<<2>> :> [name |-> B, text |-> <<"1", "0">>, attrs |-> << >>])
         @@ (<<2, 1>> :> [name |-> A, text |-> <<" ", "a">>, attrs |-> << >>])
Elsewhere == {Small, Leaf(<<"3">>)}

-----------------------------------------------------------------------------
(* Situations                                                              *)
Type(asserts) == [simple |-> {}, asserts |-> asserts]
Element_(tree, asserts) ==
    [assessed |-> TRUE, complex |-> {<<"", "C">>}, tree |-> tree, inherited |-> << >>, table |-> << >>, declared |-> "D", default |-> << >>,
     types |-> [t \in {"D"} |-> Type(asserts)]]

FromA(axis, preds) == Path(<<Step("descendant", A, << >>), Step(axis, << >>, preds)>>)
FromAll(axis, preds) == Path(<<Step("descendant", << >>, << >>), Step(axis, << >>, preds)>>)
AxisTests(axis) ==
    <<Bin(Count(FromA(axis, <<Num(2), Num(1)>>)), "=", Num(1)),
      Bin(Count(FromAll(axis, <<Bin(Fn("position", << >>), "<=", Num(2))>>)), ">", Num(2)),
      Bin(FromAll(axis, <<Fn("last", << >>)>>), "=", FromA("child", <<Num(1)>>)),
      Path(<<Step("descendant", B, << >>), Step(axis, A, <<Attr(X), Bin(Attr(X), "=", Str(<<"2">>))>>)>>)>>
ElementAxes == <<"child", "descendant", "descendant-or-self", "self", "parent", "ancestor", "ancestor-or-self",
                 "following-sibling", "preceding-sibling", "following", "preceding">>
PlainTests ==
    FoldLeft(LAMBDA tests, axis : tests \o AxisTests(axis), << >>, ElementAxes)
    \o <<Every("v", All("descendant"), Bin(From(Var("v"), <<Step("attribute", X, << >>)>>), "<", Str(<<"3">>))),
         Some("v", All("child"), Some("w", All("descendant"), Bin(Var("v"), "=", From(Var("w"), <<Step("preceding", A, << >>)>>)))),
         Bin(Not(All("child")), "or", Bin(Path(<<Step("child", << >>, <<Fn("last", << >>)>>)>>), ">=", Str(<<"3">>))),
         Bin(Bin(Attr(Y), "=", Num(1)), "and", Bin(All("child"), "!=", All("descendant"))),
         Path(<<Step("descendant", << >>, <<Bin(Fn("position", << >>), "=", Count(All("child")))>>), Step("parent", R, << >>)>>),
         Path(<<Step("descendant", A, << >>), Step("attribute", X, <<Num(1)>>), Step("parent", << >>, <<Num(1)>>), Step("child", B, << >>)>>)>>

(* The laws.                                                               *)
Each(law(_)) == Every("v", All("descendant-or-self"), law(Var("v")))
At(v, axis, preds) == From(v, <<Step(axis, << >>, preds)>>)
Same(x, y) == Bin(Count(Bin(x, "|", y)), "=", Count(x))
First == <<Num(1)>>
Leaves == Path(<<Step("descendant", << >>, <<Not(All("child"))>>)>>)
TreeLaws ==
    <<Each(LAMBDA v : Bin(Bin(Bin(Count(At(v, "ancestor", << >>)), "+", Count(At(v, "descendant-or-self", << >>))), "+",
                              Bin(Count(At(v, "preceding", << >>)), "+", Count(At(v, "following", << >>)))),
                          "eq", Count(All("descendant-or-self")))),
      Each(LAMBDA v : Bin(Not(At(v, "preceding-sibling", << >>)), "or",
                          Same(v, From(v, <<Step("preceding-sibling", << >>, First), Step("following-sibling", << >>, First)>>)))),
      Each(LAMBDA v : Bin(Not(At(v, "child", << >>)), "or", Same(v, From(v, <<Step("child", << >>, <<Fn("last", << >>)>>), Step("parent", << >>, << >>)>>)))),
      Each(LAMBDA v : Bin(Not(At(v, "preceding", << >>)), "or",
                          Not(From(v, <<Step("preceding", << >>, First), Step("descendant", << >>, << >>)>>)))),
      Each(LAMBDA v : Same(v, From(v, <<Step("self", << >>, << >>), Step("ancestor-or-self", << >>, First)>>))),
      Bin(Some("v", All("descendant"), Bin(Var("v"), "=", Num(2))), "eq",
          Not(Every("v", All("descendant"), Bin(Var("v"), "!=", Num(2))))),
      Bin(Count(For("v", All("descendant"), For("w", All("child"), Var("v")))), "=",
          Bin(Count(All("descendant")), "*", Count(All("child")))),
      Bin(Count(For("v", All("descendant"), At(Var("v"), "ancestor", << >>))), ">=", Count(FromAll("ancestor", << >>))),
      Same(All("descendant"), Filter(All("descendant"), <<Bin(Fn("position", << >>), "<=", Fn("last", << >>))>>)),
      Bin(Fn("sum", <<Leaves>>), "=", Fn("sum", <<For("v", Leaves, Fn("number", <<Var("v")>>))>>)),
      Bin(Count(Fn("distinct-values", <<All("descendant")>>)), "<=", Count(All("descendant"))),
      Each(LAMBDA v : Bin(Fn("name", <<v>>), "=", For("w", v, Fn("local-name", <<Var("w")>>)))),
      Not(Absolute),
      If(All("child"), Fn("exists", <<All("child")>>), Fn("empty", <<All("child")>>))>>

Value_ == Var("value")
Cut(k) == Bin(Fn("concat", <<Fn("substring", <<Value_, Num(1), k>>), Fn("substring", <<Value_, Bin(k, "+", Num(1))>>)>>), "=", Value_)
Both(x, y) == Fn("concat", <<x, y>>)
TextLaws ==
    <<Every("k", To(Num(0), Num(3)), Cut(Var("k"))),
      Bin(Fn("substring", <<Value_, Half(3), Half(3)>>), "eq", Fn("substring", <<Value_, Num(2), Num(2)>>)),
      Bin(Fn("replace", <<Value_, Str(PatternA), Str(<<"$", "0">>)>>), "=", Value_),
      Bin(Fn("replace", <<Value_, Str(PatternA), Str(<<"$", "1", "2">>)>>), "=", Fn("replace", <<Value_, Str(PatternA), Str(<<"$", "0", "2">>)>>)),
      Bin(Fn("contains", <<Fn("replace", <<Value_, Str(PatternA), Str(<<"\\", "$">>)>>), Str(<<"$">>)>>), "=", Fn("contains", <<Value_, Str(A)>>)),
      Bin(Fn("matches", <<Value_, Str(PatternA)>>), "=", Fn("contains", <<Value_, Str(A)>>)),
      Bin(Bin(Value_, "=", Str(<< >>)), "or",
          Bin(Count(Fn("tokenize", <<Value_, Str(PatternA), Str(<<"i">>)>>)), "=",
              Bin(Bin(Fn("string-length", <<Value_>>), "-", Fn("string-length", <<Fn("replace", <<Value_, Str(PatternA), Str(<< >>)>>)>>)), "+", Num(1)))),
      Bin(Fn("string-length", <<Fn("normalize-space", <<Value_>>)>>), "<=", Fn("string-length", <<Value_>>)),
      Bin(Count(Fn("tokenize", <<Value_>>)), "<=", Fn("string-length", <<Value_>>)),
      Bin(Not(Fn("contains", <<Value_, Str(A)>>)), "or",
          Bin(Both(Both(Fn("substring-before", <<Value_, Str(A)>>), Str(A)), Fn("substring-after", <<Value_, Str(A)>>)), "eq", Value_)),
      Bin(Fn("starts-with", <<Value_, Str(A)>>), "=", Bin(Fn("substring", <<Value_, Num(1), Num(1)>>), "=", Str(A))),
      Bin(Fn("ends-with", <<Value_, Str(A)>>), "eq",
          Bin(Fn("substring", <<Value_, Fn("string-length", <<Value_>>)>>), "=", Str(A)))>>

NumberLaws ==
    <<Every("n", List(<<Num(7), Num(8), Neg(Num(7)), Half(7)>>), Every("m", List(<<Num(2), Neg(Num(3)), Num(5)>>),
        Bin(Bin(Bin(Bin(Fn("floor", <<Var("n")>>), "idiv", Var("m")), "*", Var("m")), "+", Bin(Fn("floor", <<Var("n")>>), "mod", Var("m"))),
            "=", Fn("floor", <<Var("n")>>)))),
      Every("n", List(<<Half(5), Neg(Half(5)), Num(4), Neg(Half(1))>>),
        Bin(Bin(Fn("round", <<Var("n")>>), "=", Fn("floor", <<Bin(Var("n"), "+", Half(1))>>)), "and",
            Bin(Fn("ceiling", <<Var("n")>>), "eq", Neg(Fn("floor", <<Neg(Var("n"))>>))))),
      Every("n", List(<<Half(5), Neg(Num(4))>>), Bin(Fn("abs", <<Bin(Var("n"), "div", Num(2))>>), "=", Bin(Fn("abs", <<Var("n")>>), "div", Num(2)))),
      Bin(Xs("integer", Str(Digits(10))), ">", Str(Digits(9))),
      TypeOp(Str(TrueText), "cast", "boolean"),
      Not(TypeOp(Str(FalseText), "cast", "boolean")),
      Bin(TypeOp(Str(Digits(10)), "cast", "integer"), "gt", TypeOp(Str(Digits(9)), "cast", "integer")),
      Not(TypeOp(Str(A), "castable", "integer")),
      Not(TypeOp(List(<< >>), "instance", "integer")),
      Bin(Fn("year-from-date", <<Fn("current-date", << >>)>>), ">", Fn("day-from-date", <<Fn("current-date", << >>)>>)),
      Bin(Count(To(Num(2), Num(4))), "=", Num(3)),
      Fn("boolean", <<Fn("data", <<List(<<Num(1), Num(0)>>)>>)>>)>>

-----------------------------------------------------------------------------
(* Tests with a part that is not known.                                    *)
True_  == Fn("true", << >>)
False_ == Fn("false", << >>)
HoleTests ==
    <<Bin(Hole_, "or", True_), Bin(True_, "or", Hole_), Bin(False_, "or", Hole_), Bin(Hole_, "or", False_),
      Bin(Hole_, "and", False_), Bin(False_, "and", Hole_), Bin(True_, "and", Hole_), Not(Hole_),
      If(Hole_, False_, True_), If(True_, False_, Hole_), If(False_, Hole_, True_),
      Bin(Hole_, "=", Num(1)), Bin(Num(1), "eq", Hole_), Count(List(<<Hole_, Num(1)>>)), Bin(Hole_, "+", Num(1)), Neg(Hole_),
      Bin(Num(0), "div", Hole_), To(Num(1), Hole_), Some("v", All("descendant"), Bin(Hole_, "=", Var("v"))),
      Every("v", All("child"), Hole_), Every("v", All("descendant"), Bin(Var("v"), "=", Hole_)),
      Some("v", List(<<True_, Hole_>>), Var("v")), For("v", All("child"), Hole_),
      Path(<<Step("child", A, <<Hole_>>)>>), Path(<<Step("child", << >>, <<Hole_, Num(1)>>)>>), From(Hole_, <<Step("child", A, << >>)>>),
      Filter(Hole_, First), Filter(Num(0), <<Hole_>>), Bin(Hole_, "|", Dot), Bin(Dot, "|", Hole_),
      Fn("substring", <<Str(A), Str(A), Hole_>>), Fn("substring", <<Str(A), Hole_>>), Fn("substring", <<Hole_, Num(1), Num(1)>>),
      Fn("floor", <<Hole_>>), Fn("sum", <<Hole_>>), Fn("number", <<Hole_>>), Fn("data", <<Hole_>>), Fn("string-length", <<Hole_>>),
      Fn("matches", <<Str(A), Hole_>>), Fn("replace", <<Str(A), Str(PatternStar), Hole_>>), Fn("replace", <<Str(A), Str(PatternA), Str(<<"$">>)>>),
      Fn("tokenize", <<Hole_, Str(A)>>), Fn("tokenize", <<Str(<< >>), Str(PatternA)>>), Fn("concat", <<Str(A), Hole_>>), Fn("contains", <<Hole_>>),
      Fn("ends-with", <<Str(A), Hole_>>), Fn("name", <<Hole_>>), Fn("last", <<Hole_>>), Fn("true", <<Hole_>>),
      Fn("year-from-date", <<Hole_>>), Fn("year-from-date", <<List(<< >>)>>), Fn("unheard-of", <<True_>>), Xs("integer", Hole_), Xs("integer", Str(A)),
      TypeOp(Hole_, "cast", "integer"), TypeOp(Str(A), "cast", "integer"), TypeOp(Hole_, "castable", "integer"), TypeOp(All("child"), "castable", "integer"),
      Bin(Bin(Num(1), "mod", Num(0)), "=", Hole_), Bin(All("child"), "eq", Str(A)), Value_,
      Fn("string", << >>), Fn("name", << >>), Fn("string-length", << >>), Fn("normalize-space", << >>),
      Path(<<Step("attribute", << >>, << >>), Step("child", << >>, << >>)>>), From(Num(1), <<Step("self", << >>, << >>)>>),
      Path(<<Step("attribute", << >>, <<Fn("local-name", << >>)>>)>>), Bin(Path(<<Step("attribute", X, << >>), Step("ancestor", << >>, << >>)>>), "|", Attr(X))>>

Unknowns == {Truth(TRUE), Truth(FALSE), Number(Zero), Number(Whole(2)), String(<< >>), String(A), Typed(<<"2">>, "number"), Element(<< >>)}

-----------------------------------------------------------------------------
(* Tables, with and without inherited attributes.                          *)
Alternative(test, t) == [test |-> test, type |-> t]
TableTests == <<Bin(Attr(A), "=", Str(<<"1">>)), Bin(Attr(X), "=", Str(<<"2">>)), Not(Attr(X)), All("child"), Hole_>>
UnlessY == Not(Attr(Y))
Inherited == <<<< >>, <<<<A, <<"1">>>>>>, <<<<X, <<"2">>>>>>>>

Tabled(tree, inherited, table) ==
    [Element_(tree, << >>) EXCEPT !.inherited = inherited, !.table = table, !.types = [t \in {"D", "T", "U"} |-> Type(<< >>)]]
Choice(c) == IF c = 0 THEN Alternative(<< >>, "U") ELSE IF c = 1 THEN Alternative(<< >>, "")
             ELSE Alternative(<<<<"tables", c \div 2>>>>, IF c % 2 = 0 THEN "T" ELSE "")
Choices_ == 0..(2 * Len(TableTests) + 1)
Tables ==
    [c \in Choices_ \X Choices_ \X (DOMAIN Inherited) \X {1, 2} |->
       LET pair == <<Choice(c[1]), Choice(c[2])>>
       IN  IF c[4] = 1 THEN Tabled(Small, Inherited[c[3]], pair)
           ELSE Tabled(Leaf(<< >>), Inherited[c[3]], <<Alternative(<<<<"tables", Len(TableTests) + 1>>>>, "")>> \o pair)]
PanicTests == <<Dot, Bin(Num(1), "mod", Half(1))>>
Panicking == <<Tabled(Small, Inherited[2], <<Alternative(<<<<"panics", 1>>>>, "T")>>), Element_(Small, <<<<"panics", 2>>>>)>>

-----------------------------------------------------------------------------
(* Simple types.                                                           *)
Simple(variety, kind, accepts, asserts) ==
    [variety |-> variety, item |-> {}, members |-> << >>, kind |-> kind, accepts |-> accepts, asserts |-> asserts]
Small_ == {Digits(n) : n \in 0..12}
Letters == {<<"a">>, <<"a", "b">>, << >>, <<"1">>}
ValueTests ==
    <<Bin(Value_, ">", Num(5)), Bin(Value_, "=", Str(<<"1", "0">>)), Dot, Bin(Value_, "<", Str(<<"2">>)), Fn("position", << >>), All("child"),
      Every("v", Value_, Bin(Var("v"), "<=", Num(9))), Bin(Count(Value_), "<=", Num(1)), Bin(Fn("string-length", <<Value_>>), "=", Num(1)),
      TypeOp(Value_, "castable", "integer"), Bin(Xs("integer", Value_), "ne", Num(3)), Hole_, Bin(Attr(X), "=", Value_),
      Bin(Filter(Value_, <<Num(2)>>), "=", Num(1)), Filter(Value_, <<Dot>>), Bin(Value_, "mod", Half(1))>>
Atomic(k) == Simple("atomic", "number", Small_, <<<<"values", k>>>>)
Word(k)   == Simple("atomic", "string", Letters, <<<<"values", k>>>>)
Sequences_ == {<<"1">>, <<"3", " ", "1", "0">>, << >>}
SimpleType(c) ==
    CASE c[1] = "atomic" -> Atomic(c[2])
      [] c[1] = "word"   -> Word(c[2])
      [] c[1] = "list"   -> [Simple("list", "string", Sequences_, <<<<"values", c[2]>>>>) EXCEPT !.item = {Atomic(7)}]
      [] c[1] = "items"  -> [Simple("list", "string", Sequences_, << >>) EXCEPT !.item = {Atomic(c[2])}]
      [] c[1] = "union"  -> [Simple("union", "string", Small_ \cup Letters, <<<<"values", c[3]>>>>) EXCEPT !.members = <<Atomic(c[2]), Word(c[3])>>]
Contents == <<<<"1">>, <<"1", "0">>, <<"a", "b">>, <<"3", " ", "1", "0">>, <<" ">>, << >>>>
Valued(text, t, asserts) ==
    [Element_(Leaf(text), << >>) EXCEPT !.types = [n \in {"D"} |-> [simple |-> {t}, asserts |-> asserts]],
                                        !.default = IF t.variety = "atomic" THEN <<<<"7">>>> ELSE << >>]
Values ==
    [c \in {"atomic", "word", "list", "items", "union"} \X (DOMAIN ValueTests) \X (1..4) \X (DOMAIN Contents) |->
       Valued(Contents[c[4]], SimpleType(c), <<<<"values", 1>>, <<"values", 8>>>>)]

LawTexts == <<<< >>, A, <<"b", "a">>, <<"a", " ", "b", "a">>, <<" ", "b", " ", " ", "a">>>>
AnyText == Simple("atomic", "string", {<<"7">>} \cup {Collapse(LawTexts[k]) : k \in DOMAIN LawTexts}, << >>)

-----------------------------------------------------------------------------
(* Readings.  A context is an expression with a place for another; the     *)
(* names include words of the grammar.                                     *)
Child(n) == Path(<<Step("child", <<n>>, << >>)>>)
Below_ == [axis |-> "descendant-or-self", test |-> Node_, preds |-> << >>]
Leaves_ == <<Child("or"), Root_, Num(1), Child("for"), Path(<<Below_, Step("child", B, << >>)>>), Here, Child("if"), Str(A), Var("v"), List(<< >>),
             All("child"), Attr(X), Fn("true", << >>), Path(<<[Below_ EXCEPT !.axis = "parent"]>>), Child("some"), Child("instance"), Child("node"),
             Path(<<[Below_ EXCEPT !.axis = "child", !.test.kind = "text"]>>), Child("self"), [Root_ EXCEPT !.steps = <<Below_, Below_, Step("self", A, << >>)>>]>>
Infixes == <<"or", "and", "=", "eq", "<<", "is", "<", "+", "-", "*", "div", "mod", "|", "intersect", "except">>
Wrapped(x) ==
    CHOOSE out \in {<<To(x, div), To(a, x), Neg(x), [Neg(x) EXCEPT !.op = "+"], If(x, a, Child("if")), If(a, x, Num(1)),
      If(a, Num(1), x), For("v", x, Var("v")), For("v", Child("for"), x), Every("v", x, Var("v")), Some("some", Child("some"), x),
      [Some("v", x, a) EXCEPT !.binds = Append(@, [name |-> "w", seq |-> x])], Filter(x, <<Child("or")>>), Filter(Var("v"), <<x, Num(2)>>),
      From(x, <<Step("child", A, << >>)>>), From(x, <<Below_, Step("child", B, <<x>>)>>), Path(<<Step("following", << >>, <<x>>), Step("attribute", X, << >>)>>),
      [Root_ EXCEPT !.steps = <<Step("child", B, <<x, x>>), Below_>>], Fn("concat", <<x, div, x>>), [Fn("not", <<x>>) EXCEPT !.prefix = "fn"],
      List(<<x, a>>), List(<<a, x>>), TypeOp(x, "cast", "integer"), TypeOp(x, "castable", "integer"), TypeOp(x, "instance", "C"),
      TypeOp(x, "treat", "integer"), TypeOp(x, "instance", "integer")>>
                    : a \in {Child("a")}, div \in {Child("div")}} : TRUE
In(c, inner) ==
    CHOOSE out \in {IF c <= Len(Infixes) THEN Bin(x, Infixes[c], Child("div"))
                    ELSE IF c <= 2 * Len(Infixes) THEN Bin(Child("a"), Infixes[c - Len(Infixes)], x)
                    ELSE Wrapped(x)[c - 2 * Len(Infixes)] : x \in {inner}} : TRUE
Contexts == 1..57

Meant(x, short) == [source |-> Written_(x, short), meant |-> <<x>>]
Lines == 1..(2 * Len(Leaves_))

(* One context in another, around one of the first leaves; each context    *)
(* around each leaf; a token taken away.                                   *)
Nested == [c \in Contexts \X (1..Deep) \X Contexts |-> Meant(In(c[1], In(c[3], Leaves_[c[2]])), (c[1] + c[2] + c[3]) % 2 = 0)]
Around == [c \in Contexts \X Lines |-> Meant(In(c[1], Leaves_[(c[2] + 1) \div 2]), c[2] % 2 = 0)]
Damaged == [c \in Contexts \X {1, 2, 5, 13} \X (1..16) |->
              CHOOSE out \in {[source |-> RemoveAt(tokens, 1 + ((c[3] - 1) % (Len(tokens) - 1))), meant |-> << >>]
                              : tokens \in {Written_(In(c[1], Leaves_[c[2]]), TRUE)}} : TRUE]

(* What the grammar has besides.                                           *)
Token(c) == IF c \in {"/", "//", "(", ")", "*", "?", ",", ":", "::", "@", "+", "-", "."} THEN Symbol(c) ELSE NameToken(c)
Spaced(words) == [k \in 1..(Len(words) + 1) |-> IF k > Len(words) THEN EndToken ELSE Token(words[k])]
Tight(words) == [k \in 1..(Len(words) + 1) |-> IF k > Len(words) THEN EndToken ELSE Glued(Token(words[k]))]
OutsideSubset(words) == [source |-> Spaced(words), meant |-> << >>]
KindTestArguments ==
    [x \in {"element", "attribute", "schema-element", "document-node", "processing-instruction", "comment", "text"} |->
       <<<< >>, <<"a">>, <<"*">>, <<"a", ",", "C">>, <<"a", ",", "C", "?">>, <<"element", "(", "a", ")">>, <<"a", ",">>>>]
Unusual ==
    FoldLeft(LAMBDA acc, x : acc \o [k \in DOMAIN KindTestArguments[x] |-> OutsideSubset(<<x, "(">> \o KindTestArguments[x][k] \o <<")">>)],
             << >>, <<"element", "attribute", "schema-element", "document-node", "processing-instruction", "comment">>)
    \o <<OutsideSubset(<<"a", "instance", "of", "item", "(", ")", "*">>), OutsideSubset(<<"a", "instance", "of", "empty-sequence", "(", ")">>),
         OutsideSubset(<<"a", "instance", "of", "element", "(", "a", ")", "+">>), OutsideSubset(<<"a", "/", "(", "b", ")">>),
         OutsideSubset(<<"a", "//", "true", "(", ")", "/", "b">>), OutsideSubset(<<"namespace", "::", "a">>),
         OutsideSubset(<<"child", "::", "node", "(", ")", "/">>), OutsideSubset(<<"a", ":", "b">>), OutsideSubset(<<"node", "::", "a">>),
         [source |-> Tight(<<"a", ":", "*">>), meant |-> << >>],
         [source |-> Tight(<<"x", ":", "a">>), meant |-> <<Child("a")>>],
         [source |-> Tight(<<"*", ":", "a">>), meant |-> <<Child("a")>>],
         [source |-> Tight(<<"@", "x", ":", "a">>), meant |-> <<Attr(A)>>],
         [source |-> Spaced(<<"a", "cast", "as", "integer", "?">>), meant |-> <<TypeOp(Child("a"), "cast", "integer")>>],
         [source |-> Spaced(<<"a", "instance", "of", "integer", "*", "*", "b">>), meant |-> <<Bin(TypeOp(Child("a"), "instance", "integer"), "*", Child("b"))>>],
         [source |-> Spaced(<<"attribute", "::", "a", "union", ".">>), meant |-> <<Bin(Attr(A), "|", Here)>>]>>

-----------------------------------------------------------------------------
Families_ == [plain |-> PlainTests, trees |-> TreeLaws, texts |-> TextLaws, numbers |-> NumberLaws, holes |-> HoleTests,
              tables |-> Append(TableTests, UnlessY), values |-> ValueTests, panics |-> PanicTests]
WrittenTests == [f \in DOMAIN Families_ |-> [k \in DOMAIN Families_[f] |-> Meant(Families_[f][k], TRUE)]]
                 @@ [nested |-> Nested, around |-> Around, damaged |-> Damaged, unusual |-> Unusual]

The(f, n) == [k \in 1..n |-> <<f, k>>]
Reading(tests) ==
    [Element_(Small, << >>) EXCEPT !.assessed = FALSE, !.table = [k \in DOMAIN tests |-> Alternative(<<tests[k]>>, "")]]

Cases == [plain  |-> [t \in Trees |-> Element_(t, The("plain", 50))],
          tables |-> Tables,
          trees  |-> [t \in Trees |-> Element_(t, The("trees", 14))],
          texts  |-> [k \in DOMAIN LawTexts |-> Valued(LawTexts[k], AnyText, The("texts", 12))],
          numbers |-> <<Element_(Small, The("numbers", 12))>>,
          holes  |-> <<Element_(Small, The("holes", 69)), Element_(Leaf(A), The("holes", 69))>>,
          values |-> Values,
          panics |-> Panicking,
          nested |-> [c \in Contexts \X (1..Deep) |-> Reading([d \in Contexts |-> <<"nested", <<c[1], c[2], d>>>>])],
          around |-> [c \in Contexts |-> Reading([k \in Lines |-> <<"around", <<c, k>>>>])],
          damaged |-> [c \in Contexts \X {1, 2, 5, 13} |-> Reading([k \in 1..16 |-> <<"damaged", <<c[1], c[2], k>>>>])],
          unusual |-> <<Reading(The("unusual", 58))>>]

ASSUME Complete == /\ Len(PlainTests) = 50 /\ Len(TreeLaws) = 14 /\ Len(TextLaws) = 12 /\ Len(NumberLaws) = 12
                   /\ Len(HoleTests) = 69 /\ Len(Unusual) = 58
=============================================================================
