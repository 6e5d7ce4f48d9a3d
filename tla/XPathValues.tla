------------------------------ MODULE XPathValues ------------------------------
(***************************************************************************)
(* The values of the XPath evaluator: items, what they are converted to    *)
(* and compared as, and the nodes of a tree along its axes.                *)
(*                                                                         *)
(* An item is a number [num], a string [str], a Boolean [bool], a value of *)
(* a schema type [lex, kind], a positioned element [node] or an attribute  *)
(* [owner, attr]; a value is a sequence of items.  A text is a sequence of *)
(* characters.  A number is a fraction <<n, d>> in lowest terms; NaN, the  *)
(* infinities and what rounds in float64 are left out.                     *)
(***************************************************************************)
EXTENDS Integers, FiniteSets, SequencesExt

CONSTANTS Numerals,  \* the texts strconv.ParseFloat reads, with the numbers they stand for
          Written,   \* how a number is written by formatNumber
          CharOrder, \* the characters, in order
          Regexes    \* the patterns that compile, each [finds, groups, empty]

Number(i) == [num |-> i]
String(s) == [str |-> s]
Truth(b)  == [bool |-> b]
Typed(s, k) == [lex |-> s, kind |-> k]
Element(p)  == [node |-> p]
Attribute(p, a) == [owner |-> p, attr |-> a]

Has(i, field) == field \in DOMAIN i
IsNode(i) == Has(i, "node") \/ Has(i, "attr")

(* The result of an evaluation: a value, or why there is none.  A panic is *)
(* the end of the program.                                                 *)
Value(s) == [items |-> s, err |-> "none"]
Fail(e)  == [items |-> << >>, err |-> e]
Unsupported == Fail("unsupported")
Dynamic     == Fail("dynamic")
Panic       == Fail("panic")

(* A step goes on with the value of the one before, or stops at its error. *)
Then(r, F(_)) == CHOOSE out \in {IF s.err = "none" THEN F(s.items) ELSE s : s \in {r}} : TRUE

One(i) == Value(<<i>>)

-----------------------------------------------------------------------------
(* Numbers                                                                 *)
Zero == <<0, 1>>
Whole(n) == <<n, 1>>
Sign(n) == IF n < 0 THEN -1 ELSE 1
Magnitude(n) == n * Sign(n)

RECURSIVE Gcd(_, _)
Gcd(a, b) == IF b = 0 THEN a ELSE Gcd(b, a % b)

Fraction(n, d) ==
    LET g == Gcd(Magnitude(n), Magnitude(d)) IN <<Sign(d) * Sign(n) * (Magnitude(n) \div g), Magnitude(d) \div g>>

Plus(p, q)  == Fraction(p[1] * q[2] + q[1] * p[2], p[2] * q[2])
Minus(p)    == <<-p[1], p[2]>>
Times(p, q) == Fraction(p[1] * q[1], p[2] * q[2])
Over(p, q)  == Fraction(p[1] * q[2], p[2] * q[1])
Less(p, q)  == p[1] * q[2] < q[1] * p[2]

Floor(q)     == Whole(q[1] \div q[2])
Ceiling(q)   == Minus(Floor(Minus(q)))
Truncated(q) == IF q[1] < 0 THEN Ceiling(q) ELSE Floor(q)   \* int64(f)

(* Ties go up.                                                             *)
XPathRound(q) == Floor(Plus(q, <<1, 2>>))

(* arith; a division by zero is zero, mod is that of the integer parts and *)
(* panics when that of its divisor is zero.                                *)
Arith(op, a, b) ==
    LET ai == Truncated(a)[1]
        bi == Truncated(b)[1]
    IN  CASE op = "+" -> One(Number(Plus(a, b)))
          [] op = "-" -> One(Number(Plus(a, Minus(b))))
          [] op = "*" -> One(Number(Times(a, b)))
          [] op \in {"div", "idiv", "mod"} /\ b = Zero -> One(Number(Zero))
          [] op = "div" /\ b # Zero -> One(Number(Over(a, b)))
          [] op = "idiv" /\ b # Zero -> One(Number(Truncated(Over(a, b))))
          [] op = "mod" /\ b # Zero /\ bi = 0 -> Panic
          [] op = "mod" /\ bi # 0 -> One(Number(Whole(Sign(ai) * (Magnitude(ai) % Magnitude(bi)))))

-----------------------------------------------------------------------------
EffectiveBool(s) ==
    /\ s # << >>
    /\ Len(s) = 1 =>
         /\ Has(s[1], "bool") => s[1].bool
         /\ Has(s[1], "num") => s[1].num # Zero
         /\ Has(s[1], "str") => s[1].str # << >>

(* The maximal runs of characters that are not whitespace.                 *)
Words(s) ==
    LET Ends(k) == k = Len(s) \/ s[k + 1] = " "
        starts == SelectSeq([k \in DOMAIN s |-> k], LAMBDA k : s[k] # " " /\ (k = 1 \/ s[k - 1] = " "))
    IN  [w \in DOMAIN starts |-> SubSeq(s, starts[w], CHOOSE k \in starts[w]..Len(s) :
                                     Ends(k) /\ \A j \in starts[w]..(k - 1) : ~Ends(j))]

Collapse(s) == FoldLeft(LAMBDA acc, w : IF acc = << >> THEN w ELSE acc \o <<" ">> \o w, << >>, Words(s))

(* The number a text or an item is read as, if any; a typed string is none. *)
ReadNumber(s) == {Numerals[n] : n \in {Collapse(s)} \cap DOMAIN Numerals}

AsNumber(i) ==
    CASE Has(i, "num") -> {i.num}
      [] Has(i, "str") -> ReadNumber(i.str)
      [] Has(i, "lex") -> IF i.kind = "string" THEN {} ELSE ReadNumber(i.lex)
      [] OTHER -> {}

TrueText  == <<"t", "r", "u", "e">>
FalseText == <<"f", "a", "l", "s", "e">>

AtomString(i) ==
    CASE Has(i, "str")  -> i.str
      [] Has(i, "lex")  -> i.lex
      [] Has(i, "num")  -> Written[i.num]
      [] Has(i, "bool") -> IF i.bool THEN TrueText ELSE FalseText

Before(c, d) == \E j \in DOMAIN CharOrder : \E i \in 1..(j - 1) : CharOrder[i] = c /\ CharOrder[j] = d
TextLess(s, t) ==
    \E k \in 0..Len(s) : /\ k < Len(t) /\ \A i \in 1..k : s[i] = t[i]
                         /\ k = Len(s) \/ Before(s[k + 1], t[k + 1])

(* cmpNum and the string half of cmpAtoms                                  *)
Ordered(op, eq, lt, gt) ==
    CASE op = "="  -> eq
      [] op = "!=" -> ~eq
      [] op = "<"  -> lt
      [] op = "<=" -> lt \/ eq
      [] op = ">"  -> gt
      [] op = ">=" -> gt \/ eq

CmpNum(op, p, q)  == Ordered(op, p = q, Less(p, q), Less(q, p))
CmpText(op, s, t) == Ordered(op, s = t, TextLess(s, t), TextLess(t, s))

CmpAtoms(op, a, b) ==
    \/ \E p \in AsNumber(a), q \in AsNumber(b) : CmpNum(op, p, q)
    \/ (AsNumber(a) = {} \/ AsNumber(b) = {}) /\ CmpText(op, AtomString(a), AtomString(b))

(* compareSeq, of atoms: a value comparison takes one on each side.        *)
GeneralOp == [eq |-> "=", ne |-> "!=", lt |-> "<", le |-> "<=", gt |-> ">", ge |-> ">="]

CompareSeq(op, l, r) ==
    IF op \notin DOMAIN GeneralOp
    THEN One(Truth(\E i \in DOMAIN l, j \in DOMAIN r : CmpAtoms(op, l[i], r[j])))
    ELSE IF l = << >> \/ r = << >> THEN One(Truth(FALSE))
    ELSE IF Len(l) # 1 \/ Len(r) # 1 THEN Unsupported
    ELSE One(Truth(CmpAtoms(GeneralOp[op], l[1], r[1])))

-----------------------------------------------------------------------------
(* Texts                                                                   *)
(* The positions p with round(start) <= p and, where a length is given,    *)
(* p < round(start) + round(length).                                       *)
Substring(s, start, length) ==
    LET In(p) == /\ ~Less(Whole(p), XPathRound(start))
                 /\ \A n \in length : Less(Whole(p), Plus(XPathRound(start), XPathRound(n)))
        ps == SelectSeq([k \in DOMAIN s |-> k], In)
    IN  [k \in DOMAIN ps |-> s[ps[k]]]

Found(s, sub) == {i \in 0..(Len(s) - Len(sub)) : SubSeq(s, i + 1, i + Len(sub)) = sub}
Least(S) == CHOOSE i \in S : \A j \in S : i <= j

SubstringBefore(s, sub) == IF sub = << >> \/ Found(s, sub) = {} THEN << >> ELSE SubSeq(s, 1, Least(Found(s, sub)))
SubstringAfter(s, sub) ==
    IF sub = << >> \/ Found(s, sub) = {} THEN << >> ELSE SubSeq(s, Least(Found(s, sub)) + Len(sub) + 1, Len(s))

-----------------------------------------------------------------------------
(* Patterns.  What is kept of a compiled one: the characters it matches,   *)
(* one at a time, how many groups it has (each around all of it) and       *)
(* whether it matches the empty text.                                      *)
Compiles(p) == p \in DOMAIN Regexes
MatchesText(p, s) == Regexes[p].empty \/ \E k \in DOMAIN s : s[k] \in Regexes[p].finds

(* goReplacement: the longest run of digits that names a group; a single   *)
(* digit may name none and stands for nothing then.                        *)
Digit == [d \in {"0", "1", "2", "9"} |-> CASE d = "0" -> 0 [] d = "1" -> 1 [] d = "2" -> 2 [] d = "9" -> 9]
Numeric(s) == FoldLeft(LAMBDA acc, d : 10 * acc + Digit[d], 0, s)

RECURSIVE Template(_, _)
Template(s, groups) ==
    IF s = << >> THEN Value(<< >>)
    ELSE IF s[1] = "\\"
    THEN IF Len(s) = 1 \/ s[2] \notin {"\\", "$"} THEN Dynamic
         ELSE Then(Template(SubSeq(s, 3, Len(s)), groups), LAMBDA t : Value(<<[lit |-> s[2]]>> \o t))
    ELSE IF s[1] # "$" THEN Then(Template(Tail(s), groups), LAMBDA t : Value(<<[lit |-> s[1]]>> \o t))
    ELSE LET digits == {n \in 1..(Len(s) - 1) : \A k \in 2..(n + 1) : s[k] \in DOMAIN Digit}
             named  == {n \in digits : n = 1 \/ Numeric(SubSeq(s, 2, n + 1)) <= groups}
             last   == CHOOSE n \in named : \A m \in named : m <= n
         IN  IF digits = {} THEN Dynamic
             ELSE Then(Template(SubSeq(s, last + 2, Len(s)), groups),
                       LAMBDA t : Value(<<[group |-> Numeric(SubSeq(s, 2, last + 1))]>> \o t))

Replaced(p, s, template) ==
    FlattenSeq([k \in DOMAIN s |->
      IF s[k] \notin Regexes[p].finds THEN <<s[k]>>
      ELSE FlattenSeq([j \in DOMAIN template |->
             IF Has(template[j], "lit") THEN <<template[j].lit>>
             ELSE IF template[j].group <= Regexes[p].groups THEN <<s[k]>> ELSE << >>])])

Split(p, s) ==
    LET cuts == SelectSeq([k \in 1..(Len(s) + 1) |-> k], LAMBDA k : k = Len(s) + 1 \/ s[k] \in Regexes[p].finds)
    IN  [k \in DOMAIN cuts |-> SubSeq(s, IF k = 1 THEN 1 ELSE cuts[k - 1] + 1, cuts[k] - 1)]

-----------------------------------------------------------------------------
(* Navigation in an instance tree that is walked downward only.            *)
(*                                                                         *)
(* A positioned node (nodeCtx) is a node, the positioned node it was       *)
(* reached from and its index there: the sequence of indices that leads to *)
(* it from the root.  A tree maps these to [name, text, attrs]; the text   *)
(* of an element comes before its children.                                *)
Axes == {"child", "descendant", "descendant-or-self", "attribute", "self", "parent", "ancestor",
         "ancestor-or-self", "following-sibling", "preceding-sibling", "following", "preceding"}

Parent(p) == Front(p)

ChildrenOf(tree, p) ==
    [i \in 1..Cardinality({k \in 1..Cardinality(DOMAIN tree) : Append(p, k) \in DOMAIN tree}) |-> Append(p, i)]

RECURSIVE DescendantsOf(_, _)
DescendantsOf(tree, p) ==
    FlattenSeq([i \in DOMAIN ChildrenOf(tree, p) |-> <<Append(p, i)>> \o DescendantsOf(tree, Append(p, i))])

(* Nearest first.                                                          *)
AncestorsOf(p, orSelf) ==
    LET above == [i \in 1..Len(p) |-> SubSeq(p, 1, Len(p) - i)] IN IF orSelf THEN <<p>> \o above ELSE above

(* Preceding siblings come in reverse.                                     *)
Siblings(tree, p, forward) ==
    IF p = << >> THEN << >>
    ELSE LET all == ChildrenOf(tree, Parent(p))
             k == Last(p)
         IN  IF forward THEN SubSeq(all, k + 1, Len(all)) ELSE Reverse(SubSeq(all, 1, k - 1))

FollowingOf(tree, p) ==
    FlattenSeq([a \in 1..(Len(p) + 1) |->
      LET sibs == Siblings(tree, AncestorsOf(p, TRUE)[a], TRUE)
      IN  FlattenSeq([i \in DOMAIN sibs |-> <<sibs[i]>> \o DescendantsOf(tree, sibs[i])])])

(* Mutant: the subtrees are not reversed.                                  *)
PrecedingOfForward(tree, p) ==
    FlattenSeq([a \in 1..(Len(p) + 1) |->
      LET sibs == Siblings(tree, AncestorsOf(p, TRUE)[a], FALSE)
      IN  FlattenSeq([i \in DOMAIN sibs |-> <<sibs[i]>> \o DescendantsOf(tree, sibs[i])])])

PrecedingOf(tree, p) ==
    FlattenSeq([a \in 1..(Len(p) + 1) |->
      LET sibs == Siblings(tree, AncestorsOf(p, TRUE)[a], FALSE)
      IN  FlattenSeq([i \in DOMAIN sibs |-> Reverse(DescendantsOf(tree, sibs[i])) \o <<sibs[i]>>])])

Elements(ps) == [i \in DOMAIN ps |-> Element(ps[i])]

AxisFromNode(tree, axis, p) ==
    CASE axis = "self"       -> <<Element(p)>>
      [] axis = "child"      -> Elements(ChildrenOf(tree, p))
      [] axis = "attribute"  -> [i \in DOMAIN tree[p].attrs |-> Attribute(p, tree[p].attrs[i][1])]
      [] axis = "descendant" -> Elements(DescendantsOf(tree, p))
      [] axis = "descendant-or-self" -> <<Element(p)>> \o Elements(DescendantsOf(tree, p))
      [] axis = "parent"     -> IF p = << >> THEN << >> ELSE <<Element(Parent(p))>>
      [] axis = "ancestor"   -> Elements(AncestorsOf(p, FALSE))
      [] axis = "ancestor-or-self"  -> Elements(AncestorsOf(p, TRUE))
      [] axis = "following-sibling" -> Elements(Siblings(tree, p, TRUE))
      [] axis = "preceding-sibling" -> Elements(Siblings(tree, p, FALSE))
      [] axis = "following"  -> Elements(FollowingOf(tree, p))
      [] axis = "preceding"  -> Elements(PrecedingOf(tree, p))

(* Of an attribute only self and the axes upward.  The owner is not an     *)
(* ancestor, and the attribute not its own ancestor-or-self, here.         *)
AxisCandidates(tree, axis, i) ==
    IF Has(i, "node") THEN Value(AxisFromNode(tree, axis, i.node))
    ELSE IF ~Has(i, "attr") THEN Unsupported
    ELSE CASE axis = "self"     -> Value(<<i>>)
           [] axis = "parent"   -> Value(<<Element(i.owner)>>)
           [] axis = "ancestor" -> Value(Elements(AncestorsOf(i.owner, FALSE)))
           [] axis = "ancestor-or-self" -> Value(Elements(AncestorsOf(i.owner, TRUE)))
           [] OTHER -> Unsupported

(* Name tests go by local name; there are no text nodes.                   *)
MatchesTest(tree, test, i) ==
    \/ test.kind \in {"star", "node"}
    \/ test.kind = "name" /\ test.name = IF Has(i, "node") THEN tree[i.node].name ELSE i.attr

-----------------------------------------------------------------------------
(* nodeString                                                              *)
RECURSIVE StringValue(_, _)
StringValue(tree, p) ==
    tree[p].text \o FlattenSeq([i \in DOMAIN ChildrenOf(tree, p) |-> StringValue(tree, Append(p, i))])

AttrValue(tree, i) == (CHOOSE a \in ToSet(tree[i.owner].attrs) : a[1] = i.attr)[2]

Atomize(tree, i) ==
    IF Has(i, "node") THEN String(StringValue(tree, i.node))
    ELSE IF Has(i, "attr") THEN String(AttrValue(tree, i)) ELSE i

AtomizeAll(tree, s) == [k \in DOMAIN s |-> Atomize(tree, s[k])]

=============================================================================
