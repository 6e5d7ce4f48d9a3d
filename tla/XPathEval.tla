-------------------------------- MODULE XPathEval --------------------------------
(***************************************************************************)
(* The evaluator of package xpath, over the trees of XPathAxes.            *)
(*                                                                         *)
(* It walks the tree of XPathParse.  An environment e holds what a whole   *)
(* evaluation shares:                                                      *)
(*   tree, the runtime bindings (bound) and $value (a set of at most one   *)
(*   sequence of typed values); whether there is a context item (absent);  *)
(*   whether the root shows inherited attributes (inherited).              *)
(* A focus f is [item, pos, size].                                         *)
(***************************************************************************)
EXTENDS XPathValues, XPathParse

CONSTANTS CastableTo, \* type -> the texts its ParseValue accepts
          DateParts,  \* <<function, text>> -> the component, for the texts xsdtemporal reads
          Now         \* what time.Now gives, as a text

RECURSIVE Eval(_, _, _)

(* The values of some arguments, in order; the first error ends it.        *)
EvalEach(xs, f, e) ==
    FoldLeft(LAMBDA acc, x : Then(acc, LAMBDA vs : Then(Eval(x, f, e), LAMBDA v : Value(Append(vs, v)))), Value(<< >>), xs)

FirstOf(n, xs) == SubSeq(xs, 1, Min({n, Len(xs)}))

-----------------------------------------------------------------------------
(* Variables and iteration                                                 *)
EvalVar(x, e) ==
    IF x.name \in DOMAIN e.bound THEN One(e.bound[x.name])
    ELSE IF x.name = "value" /\ e.value # {} THEN Value(CHOOSE v \in e.value : TRUE)
    ELSE Unsupported

Bind(e, name, i) == [e EXCEPT !.bound = [n \in DOMAIN @ \cup {name} |-> IF n = name THEN i ELSE @[n]]]

ToNumber(tree, s) ==
    LET a == AtomizeAll(tree, s) IN IF Len(a) = 1 /\ AsNumber(a[1]) # {} THEN AsNumber(a[1]) ELSE {}

(* Two operands as numbers.                                                *)
OnNumbers(xs, f, e, F(_, _)) ==
    Then(EvalEach(xs, f, e), LAMBDA vs :
      IF \E k \in DOMAIN vs : ToNumber(e.tree, vs[k]) = {} THEN Unsupported
      ELSE F(CHOOSE n \in ToNumber(e.tree, vs[1]) : TRUE, CHOOSE n \in ToNumber(e.tree, vs[Len(vs)]) : TRUE))

EvalRange(x, f, e) ==
    OnNumbers(<<x.lo, x.hi>>, f, e, LAMBDA lo, hi :
      LET first == Truncated(lo)[1]
          last  == Truncated(hi)[1]
      IN  Value([k \in 1..(last - first + 1) |-> Number(Whole(first + k - 1))]))

(* Each clause binds its variable to one item after the other for what is  *)
(* left of the expression.                                                 *)
Rest(x) == [x EXCEPT !.binds = Tail(@)]

EvalFor(x, f, e) ==
    IF x.binds = << >> THEN Eval(x.body, f, e)
    ELSE Then(Eval(Head(x.binds).seq, f, e), LAMBDA s :
           FoldLeft(LAMBDA acc, i : Then(acc, LAMBDA out :
                      Then(Eval(Rest(x), f, Bind(e, Head(x.binds).name, i)), LAMBDA v : Value(out \o v))),
                    Value(<< >>), s))

(* Stops at the first true ("some") or false ("every").                    *)
EvalQuantified(x, f, e) ==
    IF x.binds = << >> THEN Then(Eval(x.body, f, e), LAMBDA v : One(Truth(EffectiveBool(v))))
    ELSE Then(Eval(Head(x.binds).seq, f, e), LAMBDA s :
           FoldLeft(LAMBDA acc, i : Then(acc, LAMBDA b :
                      IF b[1].bool # x.every THEN Value(b) ELSE Eval(Rest(x), f, Bind(e, Head(x.binds).name, i))),
                    One(Truth(x.every)), s))

-----------------------------------------------------------------------------
(* Operators                                                               *)
EvalAnd(x, f, e) ==
    Then(Eval(x.l, f, e), LAMBDA l :
      IF ~EffectiveBool(l) THEN One(Truth(FALSE))
      ELSE Then(Eval(x.r, f, e), LAMBDA r : One(Truth(EffectiveBool(r)))))

(* Mutant: an operand that cannot be evaluated is taken for false.         *)
EvalOrLenient(x, f, e) ==
    CHOOSE out \in {IF l.err = "none" /\ EffectiveBool(l.items) THEN One(Truth(TRUE))
                    ELSE Then(Eval(x.r, f, e), LAMBDA r : One(Truth(EffectiveBool(r)))) : l \in {Eval(x.l, f, e)}} : TRUE

EvalOr(x, f, e) ==
    Then(Eval(x.l, f, e), LAMBDA l :
      IF EffectiveBool(l) THEN One(Truth(TRUE))
      ELSE Then(Eval(x.r, f, e), LAMBDA r : One(Truth(EffectiveBool(r)))))

(* Adds the nodes that are not there yet.  To tell, a node is hashed: the  *)
(* root panics while it shows inherited attributes, which are in a map.    *)
AddNodes(s, t, e) ==
    FoldLeft(LAMBDA acc, i : Then(acc, LAMBDA out :
               IF ~IsNode(i) THEN Unsupported
               ELSE IF e.inherited /\ i = Element(<< >>) THEN Panic
               ELSE Value(IF Contains(out, i) THEN out ELSE Append(out, i))), Value(s), t)

UnionNodes(l, r, e) == Then(AddNodes(<< >>, l, e), LAMBDA s : AddNodes(s, r, e))

EvalArith(x, f, e) == OnNumbers(<<x.l, x.r>>, f, e, LAMBDA a, b : Arith(x.op, a, b))

EvalBinary(x, f, e) ==
    CASE x.op = "and" -> EvalAnd(x, f, e)
      [] x.op = "or"  -> EvalOr(x, f, e)
      [] x.op \in {"+", "-", "*", "div", "mod", "idiv"} -> EvalArith(x, f, e)
      [] OTHER ->
           Then(EvalEach(<<x.l, x.r>>, f, e), LAMBDA vs :
             IF x.op = "|" THEN UnionNodes(vs[1], vs[2], e)
             ELSE CompareSeq(x.op, AtomizeAll(e.tree, vs[1]), AtomizeAll(e.tree, vs[2])))

-----------------------------------------------------------------------------
(* Paths                                                                   *)
Selected(v, position) ==
    IF Len(v) = 1 /\ Has(v[1], "num") THEN Truncated(v[1].num) = Whole(position) ELSE EffectiveBool(v)

Keep(s, pred, e) ==
    FoldLeft(LAMBDA acc, k : Then(acc, LAMBDA kept :
               Then(Eval(pred, [item |-> s[k], pos |-> k, size |-> Len(s)], e), LAMBDA v :
                 Value(IF Selected(v, k) THEN Append(kept, s[k]) ELSE kept))),
             Value(<< >>), [k \in DOMAIN s |-> k])

(* Mutant: every predicate sees the positions before the first one.        *)
ApplyPredsAtOnce(s, preds, e) ==
    Then(FoldLeft(LAMBDA acc, pred : Then(acc, LAMBDA out : Then(Keep(s, pred, e), LAMBDA kept : Value(Append(out, kept)))),
                  Value(<< >>), preds),
         LAMBDA sets : Value(SelectSeq(s, LAMBDA i : \A k \in DOMAIN sets : Contains(sets[k], i))))

ApplyPreds(s, preds, e) ==
    FoldLeft(LAMBDA acc, pred : Then(acc, LAMBDA left : Keep(left, pred, e)), Value(s), preds)

(* From every item: the axis, the test, the predicates; then the union.    *)
EvalStep(step, s, e) ==
    FoldLeft(LAMBDA acc, i : Then(acc, LAMBDA out :
               Then(AxisCandidates(e.tree, step.axis, i), LAMBDA found :
                 Then(ApplyPreds(SelectSeq(found, LAMBDA c : MatchesTest(e.tree, step.test, c)), step.preds, e),
                      LAMBDA kept : AddNodes(out, kept, e)))),
             Value(<< >>), s)

(* Mutant: a simple type's assertion reads the element that has the value. *)
StartIgnoringAbsence(x, f, e) == IF x.start # << >> THEN Eval(x.start[1], f, e) ELSE One(f.item)

Start(x, f, e) ==
    IF x.start # << >> THEN Eval(x.start[1], f, e)
    ELSE IF e.absent THEN Dynamic ELSE One(f.item)

(* Nothing is above the root.                                              *)
EvalPath(x, f, e) ==
    IF x.fromRoot THEN Value(<< >>)
    ELSE FoldLeft(LAMBDA acc, step : Then(acc, LAMBDA s : EvalStep(step, s, e)), Start(x, f, e), x.steps)

EvalFilter(x, f, e) == Then(Eval(x.x, f, e), LAMBDA s : ApplyPreds(s, x.preds, e))

-----------------------------------------------------------------------------
(* Types                                                                   *)
Castable(type, s) == type \in DOMAIN CastableTo /\ s \in CastableTo[type]

NumericTypes == {"decimal", "integer", "int", "long", "short", "byte", "nonNegativeInteger", "nonPositiveInteger",
                 "positiveInteger", "negativeInteger", "unsignedLong", "unsignedInt", "unsignedShort", "unsignedByte",
                 "float", "double"}

CastValue(type, s) ==
    IF type = "boolean" THEN Truth(s \in {TrueText, <<"1">>})
    ELSE Typed(s, IF type \in NumericTypes THEN "number" ELSE "string")

EvalTypeOp(x, f, e) ==
    Then(Eval(x.x, f, e), LAMBDA v :
      LET s == AtomString(Atomize(e.tree, v[1]))
      IN  CASE x.kind = "cast" ->
                 IF Len(v) = 1 /\ Castable(x.typ, s) THEN One(CastValue(x.typ, s)) ELSE Dynamic
            [] x.kind # "cast" /\ v = << >> -> One(Truth(FALSE))
            [] x.kind # "cast" /\ Len(v) = 1 -> One(Truth(Castable(x.typ, s)))
            [] OTHER -> Unsupported)

-----------------------------------------------------------------------------
(* Functions                                                               *)
Text(e, v) == IF v = << >> THEN << >> ELSE AtomString(Atomize(e.tree, v[1]))
FocusText(f, e) == AtomString(Atomize(e.tree, f.item))

LogicFn(name, v, e) ==
    CASE name = "not"     -> One(Truth(~EffectiveBool(v)))
      [] name = "boolean" -> One(Truth(EffectiveBool(v)))
      [] name = "exists"  -> One(Truth(v # << >>))
      [] name = "empty"   -> One(Truth(v = << >>))
      [] name = "count"   -> One(Number(Whole(Len(v))))
      [] name = "data"    -> IF \E k \in DOMAIN v : IsNode(v[k]) THEN Unsupported ELSE Value(v)

(* position() and last(), and what else takes no argument.                 *)
FocusFn(name, f, e) ==
    CASE name \in {"true", "false"} -> One(Truth(name = "true"))
      [] name \in {"position", "last"} /\ e.absent -> Dynamic
      [] name = "position" /\ ~e.absent -> One(Number(Whole(f.pos)))
      [] name = "last" /\ ~e.absent     -> One(Number(Whole(f.size)))
      [] name \in {"current-date", "current-dateTime", "current-time"} -> One(String(Now))
      [] name = "string"   -> One(String(FocusText(f, e)))
      [] name = "string-length"   -> One(Number(Whole(Len(FocusText(f, e)))))
      [] name = "normalize-space" -> One(String(Collapse(FocusText(f, e))))
      [] name \in {"local-name", "name"} ->
           One(String(e.tree[IF Has(f.item, "node") THEN f.item.node ELSE f.item.owner].name))

StringFn(name, vs, e) ==
    LET s == Text(e, vs[1])
        sub == Text(e, vs[2])
    IN  CASE name = "string" -> One(String(s))
          [] name = "string-length"   -> One(Number(Whole(Len(s))))
          [] name = "normalize-space" -> One(String(Collapse(s)))
          [] name = "contains"    -> One(Truth(Found(s, sub) # {}))
          [] name = "starts-with" -> One(Truth(0 \in Found(s, sub)))
          [] name = "ends-with"   -> One(Truth(Len(s) - Len(sub) \in Found(s, sub)))
          [] name = "concat"      -> One(String(FlattenSeq([k \in DOMAIN vs |-> Text(e, vs[k])])))
          [] name = "substring-before" -> One(String(SubstringBefore(s, sub)))
          [] name = "substring-after"  -> One(String(SubstringAfter(s, sub)))

(* A pattern that does not compile, or may not match the empty text where  *)
(* it must not, or a bad replacement: a dynamic error.                     *)
Tokens(texts) == Value([k \in DOMAIN texts |-> String(texts[k])])

RegexFn(name, vs, e) ==
    LET s == Text(e, vs[1])
        p == <<Text(e, vs[2]), IF Len(vs) > (IF name = "replace" THEN 3 ELSE 2) THEN Text(e, Last(vs)) ELSE << >> >>
    IN  IF name = "tokenize" /\ Len(vs) = 1 THEN Tokens(Words(s))
        ELSE IF ~Compiles(p) THEN Dynamic
        ELSE IF name = "matches" THEN One(Truth(MatchesText(p, s)))
        ELSE IF MatchesText(p, << >>) THEN Dynamic
        ELSE IF name = "tokenize" THEN (IF s = << >> THEN Value(<< >>) ELSE Tokens(Split(p, s)))
        ELSE Then(Template(Text(e, vs[3]), Regexes[p].groups), LAMBDA t : One(String(Replaced(p, s, t))))

(* numArg                                                                  *)
NumberOf(e, v) == IF Len(v) = 1 THEN AsNumber(Atomize(e.tree, v[1])) ELSE {}

EvalSubstring(x, f, e) ==
    Then(EvalEach(FirstOf(2, x.args), f, e), LAMBDA vs :
      IF Len(vs) < 2 THEN Unsupported
      ELSE IF NumberOf(e, vs[2]) = {} THEN Dynamic
      ELSE Then(EvalEach(SubSeq(FirstOf(3, x.args), 3, Len(FirstOf(3, x.args))), f, e), LAMBDA rest :
             IF \E k \in DOMAIN rest : NumberOf(e, rest[k]) = {} THEN Dynamic
             ELSE One(String(Substring(Text(e, vs[1]), CHOOSE n \in NumberOf(e, vs[2]) : TRUE,
                                       UNION {NumberOf(e, rest[k]) : k \in DOMAIN rest})))))

NumericFn(name, v, e) ==
    LET ns == NumberOf(e, v)
        n == CHOOSE m \in ns : TRUE
    IN  IF v = << >> THEN Value(<< >>)
        ELSE IF ns = {} THEN Dynamic
        ELSE One(Number(CASE name = "abs" -> <<Magnitude(n[1]), n[2]>>
                          [] name = "floor"   -> Floor(n)
                          [] name = "ceiling" -> Ceiling(n)
                          [] name = "round"   -> XPathRound(n)))

AggregateFn(name, v, e) ==
    LET atoms == AtomizeAll(e.tree, v)
        fresh == SelectSeq([k \in DOMAIN atoms |-> k],
                           LAMBDA k : \A j \in 1..(k - 1) : AtomString(atoms[j]) # AtomString(atoms[k]))
    IN  IF name = "distinct-values" THEN Value([k \in DOMAIN fresh |-> atoms[fresh[k]]])
        ELSE IF \E k \in DOMAIN atoms : AsNumber(atoms[k]) = {} THEN Unsupported
        ELSE One(Number(FoldLeft(LAMBDA acc, i : Plus(acc, CHOOSE n \in AsNumber(i) : TRUE), Zero, atoms)))

DateFns == {"year-from-date", "month-from-date", "day-from-date", "year-from-dateTime", "month-from-dateTime",
            "day-from-dateTime", "hours-from-dateTime", "minutes-from-dateTime", "seconds-from-dateTime",
            "hours-from-time", "minutes-from-time", "seconds-from-time"}

DateFn(name, v, e) ==
    IF v = << >> THEN Value(<< >>)
    ELSE IF <<name, Text(e, v)>> \notin DOMAIN DateParts THEN Unsupported
    ELSE One(Number(DateParts[<<name, Text(e, v)>>]))

NodeFn(v, e) == One(String(IF v = << >> \/ ~Has(v[1], "node") THEN << >> ELSE e.tree[v[1].node].name))

-----------------------------------------------------------------------------
(* The library: how many arguments are looked at, and the function itself. *)
FocusFns  == {"true", "false", "position", "last", "current-date", "current-dateTime", "current-time"}
FocusToo  == {"string", "string-length", "normalize-space", "local-name", "name"}
LogicFns  == {"not", "boolean", "exists", "empty", "count", "data"}
StringFns == {"string", "string-length", "normalize-space", "contains", "starts-with", "ends-with", "concat",
              "substring-before", "substring-after"}
RegexFns  == {"matches", "replace", "tokenize"}
NumericFns == {"abs", "floor", "ceiling", "round"}
Library   == FocusFns \cup FocusToo \cup LogicFns \cup StringFns \cup RegexFns \cup NumericFns \cup DateFns
             \cup {"number", "substring", "sum", "distinct-values"}

Fewest(name) ==
    CASE name = "replace" -> 3
      [] name \in {"contains", "starts-with", "ends-with", "substring-before", "substring-after", "matches"} -> 2
      [] name = "concat" -> 0
      [] OTHER -> 1

Most(name, given) ==
    CASE name = "concat"  -> given
      [] name = "replace" -> 4
      [] name \in {"matches", "tokenize"} -> 3
      [] OTHER -> Fewest(name)

Apply(name, vs, e) ==
    CASE name \in LogicFns   -> LogicFn(name, vs[1], e)
      [] name \in StringFns  -> StringFn(name, vs, e)
      [] name \in RegexFns   -> RegexFn(name, vs, e)
      [] name \in NumericFns -> NumericFn(name, vs[1], e)
      [] name = "number" ->
           IF ToNumber(e.tree, vs[1]) = {} THEN Unsupported ELSE One(Number(CHOOSE n \in ToNumber(e.tree, vs[1]) : TRUE))
      [] name \in {"sum", "distinct-values"} -> AggregateFn(name, vs[1], e)
      [] name \in DateFns -> DateFn(name, vs[1], e)
      [] name \in {"local-name", "name"} -> NodeFn(vs[1], e)

(* Any other prefixed function of one argument is taken for the            *)
(* constructor of a type; its value stays a plain text.                    *)
Construct(x, v, e) == IF Castable(x.name, Text(e, v)) THEN One(String(Text(e, v))) ELSE Dynamic

EvalCall(x, f, e) ==
    IF x.prefix = "" /\ x.name \in Library
    THEN IF x.name \in FocusFns \/ (x.name \in FocusToo /\ x.args = << >>) THEN FocusFn(x.name, f, e)
         ELSE IF x.name = "substring" THEN EvalSubstring(x, f, e)
         ELSE Then(EvalEach(FirstOf(Most(x.name, Len(x.args)), x.args), f, e),
                   LAMBDA vs : IF Len(vs) < Fewest(x.name) THEN Unsupported ELSE Apply(x.name, vs, e))
    ELSE IF x.prefix # "" /\ Len(x.args) = 1 THEN Then(Eval(x.args[1], f, e), LAMBDA v : Construct(x, v, e))
    ELSE Unsupported

-----------------------------------------------------------------------------
Eval(x, f, e) ==
    CASE x.k = "litNum" -> One(Number(x.n))
      [] x.k = "litStr" -> One(String(x.s))
      [] x.k = "unary"  -> OnNumbers(<<x.x>>, f, e, LAMBDA n, m : One(Number(IF x.op = "-" THEN Minus(n) ELSE n)))
      [] x.k = "binary" -> EvalBinary(x, f, e)
      [] x.k = "ifExpr" -> Then(Eval(x.cond, f, e), LAMBDA c : Eval(IF EffectiveBool(c) THEN x.then ELSE x.els, f, e))
      [] x.k = "call"   -> EvalCall(x, f, e)
      [] x.k = "pathExpr"   -> EvalPath(x, f, e)
      [] x.k = "filterExpr" -> EvalFilter(x, f, e)
      [] x.k = "typeOp"     -> EvalTypeOp(x, f, e)
      [] x.k = "varRef"     -> EvalVar(x, e)
      [] x.k = "seqExpr"    -> Then(EvalEach(x.items, f, e), LAMBDA vs : Value(FlattenSeq(vs)))
      [] x.k = "rangeExpr"  -> EvalRange(x, f, e)
      [] x.k = "quantified" -> EvalQuantified(x, f, e)
      [] x.k = "forExpr"    -> EvalFor(x, f, e)

(* evalExpr                                                                *)
EvalExpr(test, e) ==
    CHOOSE r \in {IF p.failed \/ p.unsupported THEN Unsupported ELSE Eval(p.x, [item |-> Element(<< >>), pos |-> 1, size |-> 1], e)
                   : p \in {Parsed[test[1]][test[2]]}} : TRUE

(* A dynamic error is a definite false; what cannot be evaluated is no     *)
(* answer.                                                                 *)
EvalBool(test, e) ==
    CHOOSE answer \in {CASE r.err = "none"    -> IF EffectiveBool(r.items) THEN "true" ELSE "false"
                         [] r.err = "dynamic" -> "false"
                         [] r.err = "panic"   -> "panic"
                         [] OTHER             -> "none"
                       : r \in {EvalExpr(test, e)}} : TRUE
=============================================================================
