----------------------------- MODULE AssertionRules -----------------------------
(***************************************************************************)
(* What the verdicts of tests and assertions promise.  The meaning of a    *)
(* test is given apart from the evaluator, by sets of nodes and document   *)
(* order, for the tests made of paths, positions, comparisons, count,      *)
(* not, and, or, some and every (the plain ones).                          *)
(***************************************************************************)
EXTENDS Assertions, XPathWriting

CONSTANTS Plain,      \* the families whose tests are plain, or the variable hole
          Identities, \* the families whose assertions are laws of XPath
          Meanings,   \* the items the variable hole may stand for
          OtherTrees  \* elements a value could be found in instead

-----------------------------------------------------------------------------
(* Document order, and the axes as relations.                              *)
Extends(p, q) == Len(p) > Len(q) /\ SubSeq(p, 1, Len(q)) = q
Precedes(p, q) ==
    \/ Extends(q, p)
    \/ \E k \in 1..Min({Len(p), Len(q)}) : SubSeq(p, 1, k - 1) = SubSeq(q, 1, k - 1) /\ p[k] < q[k]
Sibling(p, q) == p # << >> /\ q # << >> /\ Parent(p) = Parent(q) /\ p # q

OnAxis(axis, from, to) ==
    CASE axis = "self"   -> to = from
      [] axis = "child"  -> Extends(to, from) /\ Len(to) = Len(from) + 1
      [] axis = "parent" -> Extends(from, to) /\ Len(from) = Len(to) + 1
      [] axis = "descendant" -> Extends(to, from)
      [] axis = "ancestor"   -> Extends(from, to)
      [] axis = "descendant-or-self" -> to = from \/ Extends(to, from)
      [] axis = "ancestor-or-self"   -> to = from \/ Extends(from, to)
      [] axis = "following-sibling"  -> Sibling(to, from) /\ Precedes(from, to)
      [] axis = "preceding-sibling"  -> Sibling(to, from) /\ Precedes(to, from)
      [] axis = "following" -> Precedes(from, to) /\ ~Extends(to, from)
      [] axis = "preceding" -> Precedes(to, from) /\ ~Extends(from, to)

Backward == {"parent", "ancestor", "ancestor-or-self", "preceding", "preceding-sibling"}

NodesOn(tree, axis, i) ==
    CASE axis = "attribute" -> {Attribute(i.node, a[1]) : a \in ToSet(tree[i.node].attrs)}
      [] axis = "parent" /\ Has(i, "attr") -> {Element(i.owner)}
      [] axis # "attribute" /\ Has(i, "node") -> {Element(q) : q \in {q \in DOMAIN tree : OnAxis(axis, i.node, q)}}

UpTo(tree, axis, i, j) ==
    i = j \/ IF axis = "attribute"
             THEN \E k \in DOMAIN tree[i.owner].attrs : tree[i.owner].attrs[k][1] = i.attr
                     /\ \A n \in 1..k : tree[i.owner].attrs[n][1] # j.attr
             ELSE IF axis \in Backward THEN Precedes(j.node, i.node) ELSE Precedes(i.node, j.node)

(* The meaning of a plain test x for a context c = [tree, node, pos, size, *)
(* vars]; Nodes is that of a path, Atoms that of an operand.               *)
RECURSIVE Holds(_, _), Nodes(_, _)

Filtered(S, step, c) ==
    FoldLeft(LAMBDA left, pred :
               {i \in left : Holds(pred, [c EXCEPT !.node = i, !.size = Cardinality(left),
                                           !.pos = Cardinality({j \in left : UpTo(c.tree, step.axis, j, i)})])},
             S, step.preds)

Nodes(x, c) ==
    IF x.k = "varRef" THEN {c.vars[x.name]}
    ELSE FoldLeft(LAMBDA S, step :
                    UNION {Filtered({j \in NodesOn(c.tree, step.axis, i) : MatchesTest(c.tree, step.test, j)}, step, c) : i \in S},
                  IF x.start = << >> THEN {c.node} ELSE Nodes(x.start[1], c), x.steps)

Atoms(x, c) ==
    CASE x.k \in {"pathExpr", "varRef"} -> {Atomize(c.tree, i) : i \in Nodes(x, c)}
      [] x.k = "litNum" -> {Number(x.n)}
      [] x.k = "litStr" -> {String(x.s)}
      [] x.k = "call"   -> {Number(Whole(CASE x.name = "count" -> Cardinality(Nodes(x.args[1], c))
                                           [] x.name = "position" -> c.pos [] x.name = "last" -> c.size))}

Holds(x, c) ==
    CASE x.k = "binary" /\ x.op = "and" -> Holds(x.l, c) /\ Holds(x.r, c)
      [] x.k = "binary" /\ x.op = "or"  -> Holds(x.l, c) \/ Holds(x.r, c)
      [] x.k = "binary" /\ x.op \notin {"and", "or"} -> \E a \in Atoms(x.l, c), b \in Atoms(x.r, c) : CmpAtoms(x.op, a, b)
      [] x.k = "call" /\ x.name = "not" -> ~Holds(x.args[1], c)
      [] x.k = "litNum" -> Whole(c.pos) = x.n
      [] x.k = "call" /\ x.name = "last" -> c.pos = c.size
      [] x.k = "pathExpr" -> Nodes(x, c) # {}
      [] x.k = "quantified" ->
           LET found == Nodes(x.binds[1].seq, c)
               In(i) == Holds(x.body, [c EXCEPT !.vars = [n \in DOMAIN @ \cup {x.binds[1].name} |-> IF n = x.binds[1].name THEN i ELSE @[n]]])
           IN  IF x.every THEN \A i \in found : In(i) ELSE \E i \in found : In(i)

(* What a test was written for: [source, meant], meant being an expression *)
(* or none.                                                                *)
TestOf(test) == Tests[test[1]][test[2]]
Means(test, tree) == Holds(TestOf(test).meant[1], [tree |-> tree, node |-> Element(<< >>), pos |-> 1, size |-> 1, vars |-> << >>])

-----------------------------------------------------------------------------
(* An assertion is found violated exactly when it does not hold: the       *)
(* evaluator's sequences, its positions within each context node's axis    *)
(* and its unions amount to the sets and the document order of XPath       *)
(* (checkAssertions in xsdvalidate/assert.go, evalPath in xpath/eval.go).  *)
VerdictExact ==
    family \in Plain /\ answers # << >> =>
      LET k == Len(answers) IN answers[k] = IF Means(sit.types[type].asserts[k], sit.tree) THEN "true" ELSE "false"

(* The governing type is that of the first alternative whose test holds or *)
(* that has none; the declared type if there is none, and also if a test   *)
(* before it cannot be evaluated (selectGoverningType).  Tests see the     *)
(* inherited attributes.                                                   *)
Hole(test) == TestOf(test).meant[1].k = "varRef"

TableExact ==
    family \in Plain /\ type # "" =>
      LET tree == Inheriting(sit.tree, sit.inherited).tree
          decisive == {k \in DOMAIN sit.table : sit.table[k].test = << >> \/ Hole(sit.table[k].test[1]) \/ Means(sit.table[k].test[1], tree)}
          alt == sit.table[Least(decisive)]
      IN  type = IF decisive = {} \/ alt.type = "" \/ (alt.test # << >> /\ Hole(alt.test[1])) THEN sit.declared ELSE alt.type

(* An assertion with a part the evaluator does not know is only found      *)
(* violated, or satisfied, if it is whatever that part may mean (the       *)
(* header of xpath/eval.go: never reject an instance for syntax the        *)
(* evaluator does not understand).  That part is always a variable without *)
(* a value here.  A library call with a prefix and one argument is not     *)
(* covered: the code takes it for a cast (xpath/eval.go:1163) and rejects  *)
(* the instance, against that header.                                      *)
FailsOpen ==
    answers # << >> /\ Last(answers) \in {"true", "false"} =>
      \A m \in Meanings, k \in {Len(answers)} :
        EvalBool(sit.types[type].asserts[k], [AssertEnvironment EXCEPT !.bound = [n \in {"hole"} |-> m]]) = answers[k]

(* Whether a value satisfies the assertions of its simple type depends on  *)
(* the value alone: there is no context item (3.13.4), and an assertion    *)
(* that asks for one is false.  string() and its like without an argument  *)
(* do read the element and are left out.                                   *)
ValueOnly ==
    type # "" /\ stage \in {"asserts", "done"} =>
      \A t \in sit.types[type].simple, other \in OtherTrees :
        Collapse(NormalizedText) \in t.accepts =>
          (AssertSatisfied(t, other, NormalizedText) = "true" <=> failed = {})

(* A test is read as the expression it was written for: by the levels and  *)
(* the sides of XPath's grammar, names that are also keywords included     *)
(* (parse.go).  One with a token taken away is not read as if it were      *)
(* there, or another: what was read, written again, is what stood there.   *)
(* Exactly what is not well-formed, or casts to a complex type, is         *)
(* reported when the schema is built (src-ta, parser/xpathcheck.go).       *)
WithoutParens(tokens) == SelectSeq(tokens, LAMBDA t : t.kind \notin {"(", ")"})

ReadAsWritten ==
    stage = "schema" /\ reported # << >> =>
      LET k == Len(reported) IN
      sit.table[k].test # << >> =>
        \A test \in {TestOf(sit.table[k].test[1])}, p \in {Parsed[sit.table[k].test[1][1]][sit.table[k].test[1][2]]} :
          IF test.meant = << >>
          THEN reported[k] = "syntax" \/ p.unsupported \/ WithoutParens(test.source) = WithoutParens(Written_(p.x, TRUE))
          ELSE LET x == test.meant[1]
                   names == TypeNames(x)
               IN  /\ reported[k] = IF \E i \in DOMAIN names : <<names[i].prefix, names[i].local>> \in sit.complex
                                    THEN "complex type" ELSE "none"
                   /\ p.refs = names
                   /\ IF InSubset(x) THEN ~p.unsupported /\ p.x = x ELSE p.unsupported

(* Laws of XPath that tie functions, operators and axes to each other,     *)
(* written as assertions: each is true of every element.  A text is the    *)
(* parts substring cuts it into, counts around a node add up to the tree,  *)
(* the nearest on a reverse axis comes first, and so on.                   *)
IdentitiesHold ==
    family \in Identities => \A k \in DOMAIN answers : answers[k] = "true"
=============================================================================
