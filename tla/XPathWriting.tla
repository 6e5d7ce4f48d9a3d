------------------------------ MODULE XPathWriting ------------------------------
(***************************************************************************)
(* How an expression is written, by the levels of XPath 2.0's grammar      *)
(* (appendix A.1): an operand of a looser level is put in parentheses.     *)
(* In the short style axes and steps are abbreviated where they can be.    *)
(***************************************************************************)
EXTENDS XPathParse

Symbol(c) == [kind |-> c, text |-> c, ws |-> TRUE]
NameToken(n) == [kind |-> "name", text |-> n, ws |-> TRUE]
Glued(t) == [t EXCEPT !.ws = FALSE]
EndToken == Symbol("end")

LevelOf(x) ==
    CASE x.k = "seqExpr" /\ x.items # << >> -> 0
      [] x.k = "pathExpr" /\ x.steps = << >> -> 0    \* a lone slash
      [] x.k \in {"forExpr", "quantified", "ifExpr"} -> 1
      [] x.k = "rangeExpr" -> 5
      [] x.k = "binary" -> CASE x.op = "or" -> 2 [] x.op = "and" -> 3 [] x.op \in {"+", "-"} -> 6
                             [] x.op \in {"*", "div", "idiv", "mod"} -> 7 [] x.op = "|" -> 8
                             [] x.op \in {"intersect", "except"} -> 9 [] OTHER -> 4
      [] x.k = "typeOp" -> CASE x.kind = "instance" -> 10 [] x.kind = "treat" -> 11 [] x.kind = "castable" -> 12 [] OTHER -> 13
      [] x.k = "unary" -> 14
      [] x.k = "pathExpr" /\ x.steps # << >> -> 15
      [] x.k = "filterExpr" -> 16
      [] OTHER -> 17

Parts(x) ==
    CASE x.k = "binary" -> <<x.l, x.r>>
      [] x.k = "rangeExpr" -> <<x.lo, x.hi>>
      [] x.k \in {"unary", "typeOp"} -> <<x.x>>
      [] x.k = "ifExpr" -> <<x.cond, x.then, x.els>>
      [] x.k = "call" -> x.args
      [] x.k = "seqExpr" -> x.items
      [] x.k = "filterExpr" -> <<x.x>> \o x.preds
      [] x.k \in {"forExpr", "quantified"} -> Append([i \in DOMAIN x.binds |-> x.binds[i].seq], x.body)
      [] x.k = "pathExpr" -> FoldLeft(LAMBDA acc, st : acc \o st.preds, x.start, x.steps)
      [] OTHER -> << >>

(* The type names of an expression, in the order they are read, and        *)
(* whether all of it can be evaluated.                                     *)
RECURSIVE TypeNames(_), InSubset(_)
TypeNames(x) ==
    FoldLeft(LAMBDA acc, y : acc \o TypeNames(y), << >>, Parts(x))
    \o IF x.k = "typeOp" THEN <<[prefix |-> "", local |-> x.typ, kind |-> x.kind]>> ELSE << >>

InSubset(x) ==
    /\ x.k = "binary" => x.op \notin {"is", "<<", ">>", "intersect", "except"}
    /\ x.k = "typeOp" => x.kind # "treat"
    /\ \A i \in DOMAIN Parts(x) : InSubset(Parts(x)[i])

RECURSIVE Write(_, _, _)

Listed(xs, level, short) ==
    FoldLeft(LAMBDA acc, x : (IF acc = << >> THEN acc ELSE Append(acc, Symbol(","))) \o Write(x, level, short), << >>, xs)
Paren(tokens) == <<Symbol("(")>> \o tokens \o <<Symbol(")")>>
WrittenPreds(preds, short) ==
    FoldLeft(LAMBDA acc, x : acc \o <<Symbol("[")>> \o Write(x, 0, short) \o <<Symbol("]")>>, << >>, preds)
WrittenBinds(binds, short) ==
    FoldLeft(LAMBDA acc, b : (IF acc = << >> THEN acc ELSE Append(acc, Symbol(",")))
                             \o <<Symbol("$"), NameToken(b.name), NameToken("in")>> \o Write(b.seq, 1, short), << >>, binds)

WrittenTest(t) ==
    CASE t.kind = "star" -> <<Symbol("*")>>
      [] t.kind = "name" -> <<NameToken(CHOOSE n \in DOMAIN Spelled : Spelled[n] = t.name)>>
      [] OTHER -> <<NameToken(t.kind)>> \o Paren(<< >>)

WrittenStep(st, short) ==
    (IF short /\ st.axis = "self" /\ st.test = NodeTest THEN <<Symbol(".")>>
     ELSE IF short /\ st.axis = "parent" /\ st.test = NodeTest THEN <<Symbol("..")>>
     ELSE IF short /\ st.axis = "child" THEN WrittenTest(st.test)
     ELSE IF short /\ st.axis = "attribute" THEN <<Symbol("@")>> \o WrittenTest(st.test)
     ELSE <<NameToken(st.axis), Symbol("::")>> \o WrittenTest(st.test))
    \o WrittenPreds(st.preds, short)

(* In the short style a step to any node below is the second slash of //.  *)
WrittenPath(x, short) ==
    LET begun == x.fromRoot \/ x.start # << >>
        Elided(i) == short /\ x.steps[i] = AnyBelow /\ i < Len(x.steps) /\ (begun \/ i > 1)
        steps == FoldLeft(LAMBDA acc, i :
                   IF Elided(i) /\ ~acc.pending THEN [acc EXCEPT !.pending = TRUE]
                   ELSE [pending |-> FALSE,
                         out |-> acc.out \o (IF acc.pending THEN <<Symbol("//")>> ELSE IF begun \/ i > 1 THEN <<Symbol("/")>> ELSE << >>)
                                 \o WrittenStep(x.steps[i], short)],
                   [pending |-> FALSE, out |-> << >>], [i \in DOMAIN x.steps |-> i])
    IN  IF x.steps = << >> THEN <<Symbol("/")>>
        ELSE (IF x.start = << >> THEN << >> ELSE Write(x.start[1], 16, short)) \o steps.out

OperatorToken(op) == IF op \in {"or", "and", "to", "div", "idiv", "mod", "eq", "ne", "lt", "le", "gt", "ge", "is", "intersect", "except"}
                     THEN NameToken(op) ELSE Symbol(op)

(* After a sequence type + and * would be taken for its occurrences.       *)
EndsInType(tokens) == Len(tokens) > 1 /\ tokens[Len(tokens) - 1] \in {NameToken("of"), NameToken("as")}
Infix(l, op, r, left, right, short) ==
    (CHOOSE out \in {IF op \in {"+", "*"} /\ EndsInType(ts) THEN Paren(ts) ELSE ts : ts \in {Write(l, left, short)}} : TRUE)
    \o <<OperatorToken(op)>> \o Write(r, right, short)

Plainly(x, short) ==
    CASE x.k = "litNum" -> <<[kind |-> "number", text |-> x.n, ws |-> TRUE]>>
      [] x.k = "litStr" -> <<[kind |-> "string", text |-> x.s, ws |-> TRUE]>>
      [] x.k = "varRef" -> <<Symbol("$"), NameToken(x.name)>>
      [] x.k = "seqExpr" -> IF x.items = << >> THEN Paren(<< >>) ELSE Listed(x.items, 1, short)
      [] x.k = "unary"  -> <<Symbol(x.op)>> \o Write(x.x, 14, short)
      [] x.k = "binary" -> Infix(x.l, x.op, x.r, IF LevelOf(x) = 4 THEN 5 ELSE LevelOf(x), LevelOf(x) + 1, short)
      [] x.k = "rangeExpr" -> Infix(x.lo, "to", x.hi, 6, 6, short)
      [] x.k = "typeOp" -> Write(x.x, LevelOf(x) + 1, short)
                           \o <<NameToken(x.kind), NameToken(IF x.kind = "instance" THEN "of" ELSE "as"), NameToken(x.typ)>>
      [] x.k = "ifExpr" -> <<NameToken("if")>> \o Paren(Write(x.cond, 0, short)) \o <<NameToken("then")>> \o Write(x.then, 1, short)
                           \o <<NameToken("else")>> \o Write(x.els, 1, short)
      [] x.k = "forExpr" -> <<NameToken("for")>> \o WrittenBinds(x.binds, short) \o <<NameToken("return")>> \o Write(x.body, 1, short)
      [] x.k = "quantified" -> <<NameToken(IF x.every THEN "every" ELSE "some")>> \o WrittenBinds(x.binds, short)
                               \o <<NameToken("satisfies")>> \o Write(x.body, 1, short)
      [] x.k = "call" -> (IF x.prefix = "" THEN <<NameToken(x.name)>>
                          ELSE <<NameToken(x.prefix), Glued(Symbol(":")), Glued(NameToken(x.name))>>) \o Paren(Listed(x.args, 1, short))
      [] x.k = "filterExpr" -> Write(x.x, 17, short) \o WrittenPreds(x.preds, short)
      [] x.k = "pathExpr" -> WrittenPath(x, short)

Write(x, level, short) ==
    CHOOSE out \in {IF LevelOf(y) < level THEN Paren(Plainly(y, short)) ELSE Plainly(y, short) : y \in {x}} : TRUE

Written_(x, short) == Append(Write(x, 0, short), EndToken)
=============================================================================
