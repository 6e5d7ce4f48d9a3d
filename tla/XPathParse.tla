------------------------------- MODULE XPathParse -------------------------------
(***************************************************************************)
(* The parser of package xpath: recursive descent over the tokens of an    *)
(* expression, one rule per level of the grammar.  The result is the tree  *)
(* the evaluator of XPathEval walks.                                       *)
(*                                                                         *)
(* A token is [kind, text, ws]: kind is "name", "number", "string", "end"  *)
(* or the symbol itself; text is the name, the number or the text between  *)
(* the quotes; ws tells whether a space comes before it.  Keywords are     *)
(* names.  The lexer and the wording of errors are left out.               *)
(*                                                                         *)
(* A parser p is [at, x, refs, unsupported, failed]: the next token, what  *)
(* the last rule built, the type names met so far, whether something is    *)
(* outside the evaluator's subset, and whether there was an error.         *)
(***************************************************************************)
EXTENDS Integers, SequencesExt

CONSTANTS Spelled,  \* the names, with their characters
          Tests     \* family -> tests, functions; a test's source is a sequence of tokens

Tok(s, p, n) == s[Min({p.at + n, Len(s)})]
Kind(s, p, n) == Tok(s, p, n).kind
IsName(s, p, n, words) == Kind(s, p, n) = "name" /\ Tok(s, p, n).text \in words
Advance(p, n) == [p EXCEPT !.at = @ + n]
Got(p, x) == [p EXCEPT !.x = x]
Failed(p) == [p EXCEPT !.failed = TRUE]
MarkUnsupported(p) == [p EXCEPT !.unsupported = TRUE]

Expect(s, p, kind) == IF Kind(s, p, 0) = kind THEN Advance(p, 1) ELSE Failed(p)
ExpectName(s, p, word) == IF IsName(s, p, 0, {word}) THEN Advance(p, 1) ELSE Failed(p)

(* A prefix, its colon and the local part stand together.                  *)
Joined(s, p, n) == Kind(s, p, n) = ":" /\ ~Tok(s, p, n).ws
Local(s, p, n, kinds) == Kind(s, p, n) \in kinds /\ ~Tok(s, p, n).ws

ScanQName(s, p) ==
    IF Kind(s, p, 0) # "name" THEN Failed(p)
    ELSE IF ~Joined(s, p, 1) THEN Got(Advance(p, 1), [prefix |-> "", local |-> Tok(s, p, 0).text])
    ELSE IF Local(s, p, 2, {"name"}) THEN Got(Advance(p, 3), [prefix |-> Tok(s, p, 0).text, local |-> Tok(s, p, 2).text])
    ELSE Failed(p)

RECURSIVE Parse(_, _, _), Phrase(_, _, _)

(* A phrase is a sequence of symbols, words and rules.  It gives the list  *)
(* of what its rules build; nothing is parsed after an error.              *)
Sym(c)  == <<"symbol", c>>
Keyword(w) == <<"word", w>>
Rule(r) == <<"rule", r>>

With(xs, p) == Got(p, Append(xs, p.x))
Part(s, p, part) ==
    CASE part[1] = "symbol" -> Expect(s, p, part[2])
      [] part[1] = "word" -> ExpectName(s, p, part[2])
      [] part[1] = "rule" -> With(p.x, Parse(part[2], s, p))

Phrase(s, from, parts) ==
    FoldLeft(LAMBDA acc, part : CHOOSE out \in {IF p.failed THEN p ELSE Part(s, p, part) : p \in {acc}} : TRUE, Got(from, << >>), parts)

Build(phrase, Node(_)) == CHOOSE out \in {IF p.failed THEN p ELSE Got(p, Node(p.x)) : p \in {phrase}} : TRUE

(* What a rule finds after a separator is added to the list.               *)
More(s, list, separator, rule) ==
    CHOOSE out \in {IF p.failed \/ Kind(s, p, 0) # separator THEN p
                    ELSE CHOOSE r \in {Got(q, p.x \o q.x) : q \in {Parse(rule, s, Advance(p, 1))}} : TRUE : p \in {list}} : TRUE

-----------------------------------------------------------------------------
(* Lists, and the clauses of for, some, every and if.                      *)
Items(s, p) == More(s, Phrase(s, p, <<Rule("single")>>), ",", "items")
Expr(s, p) == Build(Items(s, p), LAMBDA xs : IF Len(xs) = 1 THEN xs[1] ELSE [k |-> "seqExpr", items |-> xs])

Bindings(s, p) ==
    More(s, Build(Phrase(s, p, <<Sym("$"), Rule("qname"), Keyword("in"), Rule("single")>>),
                  LAMBDA xs : <<[name |-> xs[1].local, seq |-> xs[2]]>>), ",", "bindings")

ForExpr(s, p) ==
    Build(Phrase(s, p, <<Keyword("for"), Rule("bindings"), Keyword("return"), Rule("single")>>),
          LAMBDA xs : [k |-> "forExpr", binds |-> xs[1], body |-> xs[2]])

QuantifiedExpr(s, p, word) ==
    Build(Phrase(s, p, <<Keyword(word), Rule("bindings"), Keyword("satisfies"), Rule("single")>>),
          LAMBDA xs : [k |-> "quantified", every |-> word = "every", binds |-> xs[1], body |-> xs[2]])

IfExpr(s, p) ==
    Build(Phrase(s, p, <<Keyword("if"), Sym("("), Rule("expr"), Sym(")"), Keyword("then"), Rule("single"), Keyword("else"), Rule("single")>>),
          LAMBDA xs : [k |-> "ifExpr", cond |-> xs[1], then |-> xs[2], els |-> xs[3]])

ExprSingle(s, p) ==
    CASE IsName(s, p, 0, {"for"}) /\ Kind(s, p, 1) = "$" -> ForExpr(s, p)
      [] IsName(s, p, 0, {"some", "every"}) /\ Kind(s, p, 1) = "$" -> QuantifiedExpr(s, p, Tok(s, p, 0).text)
      [] IsName(s, p, 0, {"if"}) /\ Kind(s, p, 1) = "(" -> IfExpr(s, p)
      [] OTHER -> Parse("or", s, p)

-----------------------------------------------------------------------------
(* Operators, from the loosest to the tightest.                            *)
Below == [or |-> "and", and |-> "comparison", comparison |-> "range", range |-> "additive", additive |-> "multiplicative",
          multiplicative |-> "union", union |-> "intersect", intersect |-> "instance",
          instance |-> "treat", treat |-> "castable", castable |-> "cast", cast |-> "unary"]

Operators == [or |-> {"or"}, and |-> {"and"}, range |-> {"to"}, additive |-> {"+", "-"}, multiplicative |-> {"*", "div", "idiv", "mod"},
              comparison |-> {"=", "!=", "<", "<=", ">", ">=", "<<", ">>", "eq", "ne", "lt", "le", "gt", "ge", "is"},
              union |-> {"|", "union"}, intersect |-> {"intersect", "except"}]
OutOfSubset == {"<<", ">>", "is", "intersect", "except"}

OperatorAt(s, p) == IF Kind(s, p, 0) = "name" THEN Tok(s, p, 0).text ELSE Kind(s, p, 0)

Combined(op, l, r) ==
    IF op = "to" THEN [k |-> "rangeExpr", lo |-> l, hi |-> r]
    ELSE [k |-> "binary", op |-> CASE op = "union" -> "|" [] op = "except" -> "intersect" [] OTHER -> op, l |-> l, r |-> r]

(* An operator and its right operand; p has the left one.                  *)
Operation(s, p, op, rule) ==
    CHOOSE out \in {[Got(q, Combined(op, p.x, q.x)) EXCEPT !.unsupported = @ \/ op \in OutOfSubset]
                    : q \in {Parse(rule, s, Advance(p, 1))}} : TRUE

RECURSIVE Operands(_, _, _)

(* Mutant: the right operand takes in what follows.                        *)
OperandsToTheRight(level, s, p) ==
    IF p.failed \/ OperatorAt(s, p) \notin Operators[level] THEN p
    ELSE Operation(s, p, OperatorAt(s, p), IF level \in {"comparison", "range"} THEN Below[level] ELSE level)

(* To the left, as long as there are operators; a comparison or a range    *)
(* has one.                                                                *)
Operands(level, s, p) ==
    IF p.failed \/ OperatorAt(s, p) \notin Operators[level] THEN p
    ELSE CHOOSE out \in {IF level \in {"comparison", "range"} THEN q ELSE Operands(level, s, q)
                         : q \in {Operation(s, p, OperatorAt(s, p), Below[level])}} : TRUE

(* Type names are recorded for the static check.                           *)
TypeName(kind, s, p) ==
    CHOOSE out \in {IF q.failed THEN q ELSE [Got(q, q.x.local) EXCEPT !.refs = Append(@, [prefix |-> q.x.prefix, local |-> q.x.local, kind |-> kind])]
                    : q \in {ScanQName(s, p)}} : TRUE

Optional(s, p, kinds) == IF ~p.failed /\ Kind(s, p, 0) \in kinds THEN Advance(p, 1) ELSE p

KindTests == {"node", "text", "comment", "processing-instruction", "document-node", "element", "attribute",
              "schema-element", "schema-attribute"}

(* Only an atomic type can be tested by the evaluator.                     *)
ItemType(kind, s, p) ==
    IF Kind(s, p, 1) = "(" /\ IsName(s, p, 0, {"item"}) THEN MarkUnsupported(Phrase(s, p, <<Keyword("item"), Sym("("), Sym(")")>>))
    ELSE IF Kind(s, p, 1) = "(" /\ IsName(s, p, 0, KindTests) THEN MarkUnsupported(Parse("kindTest", s, p))
    ELSE TypeName(kind, s, p)

SequenceType(kind, s, p) ==
    IF Kind(s, p, 1) = "(" /\ IsName(s, p, 0, {"empty-sequence"})
    THEN MarkUnsupported(Phrase(s, p, <<Keyword("empty-sequence"), Sym("("), Sym(")")>>))
    ELSE CHOOSE out \in {Optional(s, q, {"?", "*", "+"}) : q \in {ItemType(kind, s, p)}} : TRUE

SingleType(kind, s, p) == CHOOSE out \in {Optional(s, q, {"?"}) : q \in {TypeName(kind, s, p)}} : TRUE

(* treat is read and left to whoever evaluates.                            *)
Typed_(kind, x, p) ==
    IF kind = "treat" THEN MarkUnsupported(Got(p, x)) ELSE Got(p, [k |-> "typeOp", x |-> x, kind |-> kind, typ |-> p.x])

TypeOperator(kind, s, p) ==
    CHOOSE out \in
      {IF q.failed \/ ~IsName(s, q, 0, {kind}) THEN q
       ELSE CHOOSE r \in {IF t.failed THEN t ELSE Typed_(kind, q.x, t) :
                            t \in {LET o == ExpectName(s, Advance(q, 1), IF kind = "instance" THEN "of" ELSE "as")
                                   IN  IF o.failed THEN o
                                       ELSE IF kind \in {"instance", "treat"} THEN SequenceType(kind, s, o) ELSE SingleType(kind, s, o)}} : TRUE
       : q \in {Parse(Below[kind], s, p)}} : TRUE

UnaryExpr(s, p) ==
    IF Kind(s, p, 0) \notin {"+", "-"} THEN Parse("path", s, p)
    ELSE Build(Phrase(s, p, <<Sym(Kind(s, p, 0)), Rule("unary")>>), LAMBDA xs : [k |-> "unary", op |-> Kind(s, p, 0), x |-> xs[1]])

-----------------------------------------------------------------------------
(* Paths.  A step is the rule's result [step] or, for a primary, [start].  *)
NodeTest == [kind |-> "node", name |-> << >>]
StarTest == [kind |-> "star", name |-> << >>]
NamedTest(n) == [kind |-> "name", name |-> Spelled[n]]
AnyBelow == [axis |-> "descendant-or-self", test |-> NodeTest, preds |-> << >>]
NewPath(root, steps) == [k |-> "pathExpr", fromRoot |-> root, start |-> << >>, steps |-> steps]
Going(path, found) ==
    IF "step" \in DOMAIN found THEN [path EXCEPT !.steps = Append(@, found.step)] ELSE [path EXCEPT !.start = <<found.start>>]

StepStarts == {"name", "*", "@", ".", "..", "(", "$", "string", "number"}

(* Past a slash only a step can be evaluated.                              *)
NextStep(s, p) ==
    CHOOSE out \in {IF q.failed THEN q ELSE IF "step" \in DOMAIN q.x THEN Got(q, <<q.x.step>>) ELSE MarkUnsupported(Got(q, << >>))
                    : q \in {Parse("step", s, p)}} : TRUE

TrailingSteps(s, p) ==
    IF Kind(s, p, 0) \notin {"/", "//"} THEN Got(p, << >>)
    ELSE Build(Phrase(s, p, <<Sym(Kind(s, p, 0)), Rule("next step"), Rule("steps")>>),
               LAMBDA xs : (IF Kind(s, p, 0) = "//" THEN <<AnyBelow>> ELSE << >>) \o xs[1] \o xs[2])

Following(path, xs) == [Going(path, xs[1]) EXCEPT !.steps = @ \o xs[2]]

(* A slash followed by what could be a step is not the whole path.  A      *)
(* primary on its own is no path.                                          *)
PathExpr(s, p) ==
    CASE Kind(s, p, 0) = "/" ->
           IF Kind(s, p, 1) \notin StepStarts THEN Got(Advance(p, 1), NewPath(TRUE, << >>))
           ELSE Build(Phrase(s, Advance(p, 1), <<Rule("step"), Rule("steps")>>), LAMBDA xs : Following(NewPath(TRUE, << >>), xs))
      [] Kind(s, p, 0) = "//" ->
           Build(Phrase(s, Advance(p, 1), <<Rule("step"), Rule("steps")>>), LAMBDA xs : Following(NewPath(TRUE, <<AnyBelow>>), xs))
      [] OTHER ->
           Build(Phrase(s, p, <<Rule("step"), Rule("slash"), Rule("steps")>>),
                 LAMBDA xs : IF "start" \in DOMAIN xs[1] /\ ~xs[2] THEN xs[1].start
                             ELSE Following(NewPath(FALSE, << >>), <<xs[1], xs[3]>>))

Predicates(s, p) ==
    IF Kind(s, p, 0) # "[" THEN Got(p, << >>)
    ELSE Build(Phrase(s, p, <<Sym("["), Rule("expr"), Sym("]"), Rule("predicates")>>), LAMBDA xs : <<xs[1]>> \o xs[2])

FinishStep(s, p, axis) ==
    CHOOSE out \in {IF q.failed THEN q ELSE Build(Phrase(s, q, <<Rule("predicates")>>), LAMBDA xs : [step |-> [axis |-> axis, test |-> q.x, preds |-> xs[1]]])
                    : q \in {p}} : TRUE

AxisNames == {"child", "descendant", "descendant-or-self", "attribute", "self", "parent", "ancestor", "ancestor-or-self",
              "following-sibling", "preceding-sibling", "following", "preceding", "namespace"}

NameTest(s, p) ==
    IF Kind(s, p, 0) \notin {"*", "name"} THEN Failed(p)
    ELSE IF ~Joined(s, p, 1) THEN Got(Advance(p, 1), IF Kind(s, p, 0) = "*" THEN StarTest ELSE NamedTest(Tok(s, p, 0).text))
    ELSE IF Local(s, p, 2, {"name"}) THEN Got(Advance(p, 3), NamedTest(Tok(s, p, 2).text))
    ELSE IF Kind(s, p, 0) = "name" /\ Local(s, p, 2, {"*"}) THEN MarkUnsupported(Got(Advance(p, 3), StarTest))
    ELSE Failed(p)

IsKindTest(s, p) == IsName(s, p, 0, KindTests) /\ Kind(s, p, 1) = "("
Test(s, p) == IF IsKindTest(s, p) THEN Parse("kindTest", s, p) ELSE NameTest(s, p)

(* Where a primary expression may stand, what begins with a name is an     *)
(* axis, a kind test, a function call or a name test.                      *)
StepExpr(s, p) ==
    LET called == IF Joined(s, p, 1) /\ Local(s, p, 2, {"name", "*"}) THEN 3 ELSE 1
        axis   == Tok(s, p, 0).text
    IN  CASE Kind(s, p, 0) = "."  -> FinishStep(s, Got(Advance(p, 1), NodeTest), "self")
          [] Kind(s, p, 0) = ".." -> FinishStep(s, Got(Advance(p, 1), NodeTest), "parent")
          [] Kind(s, p, 0) = "@"  -> FinishStep(s, Test(s, Advance(p, 1)), "attribute")
          [] Kind(s, p, 0) = "*"  -> FinishStep(s, NameTest(s, p), "child")
          [] IsName(s, p, 0, AxisNames) /\ Kind(s, p, 1) = "::" ->
               IF axis = "namespace" THEN FinishStep(s, MarkUnsupported(Test(s, Advance(p, 2))), "child")
               ELSE FinishStep(s, Test(s, Advance(p, 2)), axis)
          [] Kind(s, p, 0) = "name" /\ ~(IsName(s, p, 0, AxisNames) /\ Kind(s, p, 1) = "::") /\ (Kind(s, p, called) # "(" \/ IsKindTest(s, p)) ->
               FinishStep(s, Test(s, p), "child")
          [] OTHER -> Build(Phrase(s, p, <<Rule("primary"), Rule("predicates")>>),
                            LAMBDA xs : [start |-> IF xs[2] = << >> THEN xs[1] ELSE [k |-> "filterExpr", x |-> xs[1], preds |-> xs[2]]])

-----------------------------------------------------------------------------
FunctionCall(s, p) ==
    Build(Phrase(s, p, <<Rule("qname"), Sym("("), Rule("arguments"), Sym(")")>>),
          LAMBDA xs : [k |-> "call", prefix |-> xs[1].prefix, name |-> xs[1].local, args |-> xs[2]])

PrimaryExpr(s, p) ==
    CASE Kind(s, p, 0) = "number" -> Got(Advance(p, 1), [k |-> "litNum", n |-> Tok(s, p, 0).text])
      [] Kind(s, p, 0) = "string" -> Got(Advance(p, 1), [k |-> "litStr", s |-> Tok(s, p, 0).text])
      [] Kind(s, p, 0) = "$" -> Build(Phrase(s, p, <<Sym("$"), Rule("qname")>>), LAMBDA xs : [k |-> "varRef", name |-> xs[1].local])
      [] Kind(s, p, 0) = "(" ->
           IF Kind(s, p, 1) = ")" THEN Got(Advance(p, 2), [k |-> "seqExpr", items |-> << >>])
           ELSE Build(Phrase(s, p, <<Sym("("), Rule("expr"), Sym(")")>>), LAMBDA xs : xs[1])
      [] Kind(s, p, 0) = "name" -> FunctionCall(s, p)
      [] OTHER -> Failed(p)

(* element(name, type) and the like.                                       *)
NameAndType(s, p, name) ==
    IF Kind(s, p, 0) = ")" THEN p
    ELSE CHOOSE out \in {IF q.failed \/ Kind(s, q, 0) # "," THEN q
                         ELSE CHOOSE r \in {IF name = "element" THEN Optional(s, t, {"?"}) ELSE t : t \in {ScanQName(s, Advance(q, 1))}} : TRUE
                         : q \in {IF Kind(s, p, 0) = "*" THEN Advance(p, 1) ELSE ScanQName(s, p)}} : TRUE

TestArguments(s, p, name) ==
    CASE name \in {"element", "attribute"} -> NameAndType(s, p, name)
      [] name \in {"schema-element", "schema-attribute"} -> ScanQName(s, p)
      [] name = "processing-instruction" -> Optional(s, p, {"name", "string"})
      [] name = "document-node" /\ IsName(s, p, 0, {"element", "schema-element"}) /\ Kind(s, p, 1) = "(" -> Parse("kindTest", s, p)
      [] OTHER -> p

KindTest(s, p) ==
    LET name == Tok(s, p, 0).text
    IN  CHOOSE out \in
          {IF q.failed THEN q
           ELSE [Got(q, [NodeTest EXCEPT !.kind = IF name = "text" THEN "text" ELSE "node"]) EXCEPT !.unsupported = @ \/ name \notin {"node", "text"}]
           : q \in {LET args == TestArguments(s, Advance(p, 2), name) IN IF args.failed THEN args ELSE Expect(s, args, ")")}} : TRUE

-----------------------------------------------------------------------------
Parse(rule, s, from) ==
    CHOOSE out \in
      {CASE rule = "expr"   -> Expr(s, p)
         [] rule = "items"  -> Items(s, p)
         [] rule = "single" -> ExprSingle(s, p)
         [] rule = "bindings" -> Bindings(s, p)
         [] rule \in DOMAIN Operators -> CHOOSE r \in {Operands(rule, s, q) : q \in {Parse(Below[rule], s, p)}} : TRUE
         [] rule \in {"instance", "treat", "castable", "cast"} -> TypeOperator(rule, s, p)
         [] rule = "unary"  -> UnaryExpr(s, p)
         [] rule = "path"   -> PathExpr(s, p)
         [] rule = "step"   -> StepExpr(s, p)
         [] rule = "slash"  -> Got(p, Kind(s, p, 0) \in {"/", "//"})
         [] rule = "next step" -> NextStep(s, p)
         [] rule = "steps"  -> TrailingSteps(s, p)
         [] rule = "predicates" -> Predicates(s, p)
         [] rule = "primary" -> PrimaryExpr(s, p)
         [] rule = "arguments" -> IF Kind(s, p, 0) = ")" THEN Got(p, << >>) ELSE Items(s, p)
         [] rule = "qname"  -> ScanQName(s, p)
         [] rule = "kindTest" -> KindTest(s, p)
       : p \in {from}} : TRUE

(* All of it is read.                                                      *)
ParseTree(s) ==
    CHOOSE out \in {IF ~p.failed /\ Kind(s, p, 0) = "end" THEN p ELSE Failed(p)
                    : p \in {Parse("expr", s, [at |-> 1, x |-> << >>, refs |-> << >>, unsupported |-> FALSE, failed |-> FALSE])}} : TRUE

(* The same text is read the same way every time.                          *)
Parsed == [f \in DOMAIN Tests |-> [i \in DOMAIN Tests[f] |-> ParseTree(Tests[f][i].source)]]
=============================================================================
