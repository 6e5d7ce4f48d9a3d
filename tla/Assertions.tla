------------------------------- MODULE Assertions -------------------------------
(***************************************************************************)
(* A declaration with type alternatives is read: their tests are checked.  *)
(* Then one element is assessed: the alternatives are tried in order, its  *)
(* simple content is checked against the assertions of its simple type,    *)
(* then the assertions of its complex type are checked.                    *)
(*                                                                         *)
(* A situation is                                                          *)
(*   tree, inherited:  the element and the attributes it inherits          *)
(*   table, declared:  the alternatives, each [test, type] with a test or  *)
(*                     none and a type or none, and the declared type      *)
(*   default:          the value of an empty element, if any               *)
(*   complex:          the names of the schema's complex types             *)
(*   assessed:         whether there is an instance at all                 *)
(*   types:            name -> [simple, asserts], simple being {} or a     *)
(*                     simple type                                         *)
(* A test is named by its family and its place there.                      *)
(* A simple type is [variety, item, members, asserts, kind, accepts]; all  *)
(* of them collapse whitespace.                                            *)
(***************************************************************************)
EXTENDS XPathEval

CONSTANT Families   \* family -> situations, a function

VARIABLES family, sit, stage, next, reported, type, failed, answers
vars == <<family, sit, stage, next, reported, type, failed, answers>>

-----------------------------------------------------------------------------
(* Environments: of an alternative's test, of a complex and of a simple    *)
(* type's assertion.  The element's own attributes hide inherited ones.    *)
Environment(tree) == [tree |-> tree, bound |-> << >>, value |-> {}, absent |-> FALSE, inherited |-> FALSE]

Inheriting(tree, inherited) ==
    LET own == ToSet(tree[<< >>].attrs)
        more == SelectSeq(inherited, LAMBDA a : \A b \in own : b[1] # a[1])
    IN  [Environment([tree EXCEPT ![<< >>].attrs = @ \o more]) EXCEPT !.inherited = inherited # << >>]

(* An empty list binds nothing.                                            *)
WithValue(tree, atoms) ==
    [Environment(tree) EXCEPT !.value = IF atoms = << >> THEN {} ELSE {atoms}]

ValueAlone(tree, atoms) == [Environment(tree) EXCEPT !.value = {atoms}, !.absent = TRUE]

AtomicAtoms(t, s) == <<Typed(Collapse(s), t.kind)>>
ListAtoms(t, s) == [k \in DOMAIN Words(s) |-> Typed(Words(s)[k], (CHOOSE i \in t.item : TRUE).kind)]
SimpleContentAtoms(t, s) == IF t.variety = "list" THEN ListAtoms(t, s) ELSE AtomicAtoms(t, s)

-----------------------------------------------------------------------------
(* The assertions of a simple type.  An answer is "true", "false" or       *)
(* "panic"; what cannot be evaluated counts as true.                       *)
AndThen(a, b) == CHOOSE out \in {IF x = "true" THEN b ELSE x : x \in {a}} : TRUE

EvalTypeAssertions(t, tree, atoms) ==
    FoldLeft(LAMBDA acc, x : AndThen(acc, CHOOSE out \in {IF a = "none" THEN "true" ELSE a :
                                                       a \in {EvalBool(x, ValueAlone(tree, atoms))}} : TRUE),
             "true", t.asserts)

RECURSIVE AssertSatisfied(_, _, _)
AssertSatisfied(t, tree, s) ==
    CASE t.variety = "list" ->
           AndThen(FoldLeft(LAMBDA acc, w : AndThen(acc, AssertSatisfied(CHOOSE i \in t.item : TRUE, tree, w)), "true", Words(s)),
                   EvalTypeAssertions(t, tree, ListAtoms(t, s)))
      [] t.variety = "union" ->
           LET fits == SelectSeq(t.members, LAMBDA m : Collapse(s) \in m.accepts)
               chosen == FoldLeft(LAMBDA acc, m : CHOOSE out \in {IF x = "false" THEN AssertSatisfied(m, tree, s) ELSE x : x \in {acc}} : TRUE,
                                  "false", fits)
           IN  AndThen(chosen, EvalTypeAssertions(t, tree, AtomicAtoms(t, s)))
      [] t.variety = "atomic" -> EvalTypeAssertions(t, tree, AtomicAtoms(t, s))

-----------------------------------------------------------------------------
(* checkXPathTest: a test with a static error, or that casts to a complex  *)
(* type, is reported.                                                      *)
StaticError(test) ==
    CHOOSE found \in {IF p.failed THEN "syntax"
                       ELSE IF \E i \in DOMAIN p.refs : <<p.refs[i].prefix, p.refs[i].local>> \in sit.complex THEN "complex type"
                       ELSE "none" : p \in {Parsed[test[1]][test[2]]}} : TRUE

CheckTest ==
    /\ stage = "schema" /\ next <= Len(sit.table)
    /\ LET test == sit.table[next].test
       IN  \E found \in {IF test = << >> THEN "none" ELSE StaticError(test[1])} : reported' = Append(reported, found)
    /\ next' = next + 1
    /\ UNCHANGED <<family, sit, stage, type, failed, answers>>

SchemaRead ==
    /\ stage = "schema" /\ next > Len(sit.table)
    /\ stage' = (IF sit.assessed THEN "table" ELSE "done") /\ next' = 1
    /\ UNCHANGED <<family, sit, reported, type, failed, answers>>

-----------------------------------------------------------------------------
Govern(t) == type' = t /\ stage' = "content" /\ next' = 1

(* Mutant: a test that cannot be evaluated is passed over.                 *)
TryOrPassOver(a, t) ==
    IF a = "true" THEN Govern(t)
    ELSE IF a = "panic" THEN stage' = "crashed" /\ UNCHANGED <<next, type>>
    ELSE next' = next + 1 /\ UNCHANGED <<stage, type>>

Try(a, t) ==
    IF a = "true" THEN Govern(t)
    ELSE IF a = "none" THEN Govern(sit.declared)
    ELSE IF a = "panic" THEN stage' = "crashed" /\ UNCHANGED <<next, type>>
    ELSE next' = next + 1 /\ UNCHANGED <<stage, type>>

TryAlternative ==
    /\ stage = "table" /\ next <= Len(sit.table)
    /\ LET alt == sit.table[next]
           chosen == IF alt.type = "" THEN sit.declared ELSE alt.type
       IN  IF alt.test = << >> THEN Govern(chosen)
           ELSE \E a \in {EvalBool(alt.test[1], Inheriting(sit.tree, sit.inherited))} : Try(a, chosen)
    /\ UNCHANGED <<family, sit, reported, failed, answers>>

NoAlternative ==
    /\ stage = "table" /\ next > Len(sit.table) /\ Govern(sit.declared)
    /\ UNCHANGED <<family, sit, reported, failed, answers>>

(* validateSimpleContent: an empty element has the default value.          *)
NormalizedText == IF sit.tree[<< >>].text = << >> /\ sit.default # << >> THEN sit.default[1] ELSE sit.tree[<< >>].text

CheckContent ==
    /\ stage = "content"
    /\ IF sit.types[type].simple = {} THEN stage' = "asserts" /\ UNCHANGED failed
       ELSE \E t \in sit.types[type].simple :
            \E a \in {IF Collapse(NormalizedText) \notin t.accepts THEN "no value" ELSE AssertSatisfied(t, sit.tree, NormalizedText)} :
              /\ stage' = (IF a = "panic" THEN "crashed" ELSE "asserts")
              /\ failed' = (IF a = "true" THEN failed ELSE failed \cup {a})
    /\ UNCHANGED <<family, sit, next, reported, type, answers>>

(* $value is the element's own text here.                                  *)
AssertEnvironment ==
    LET simple == sit.types[type].simple
    IN  IF simple = {} THEN Environment(sit.tree)
        ELSE WithValue(sit.tree, SimpleContentAtoms(CHOOSE t \in simple : TRUE, sit.tree[<< >>].text))

CheckAssertion ==
    /\ stage = "asserts"
    /\ IF next > Len(sit.types[type].asserts) THEN stage' = "done" /\ UNCHANGED <<next, answers>>
       ELSE \E a \in {EvalBool(sit.types[type].asserts[next], AssertEnvironment)} :
              /\ answers' = Append(answers, a) /\ next' = next + 1
              /\ stage' = (IF a = "panic" THEN "crashed" ELSE stage)
    /\ UNCHANGED <<family, sit, reported, type, failed>>

Init ==
    /\ \E f \in DOMAIN Families : family = f /\ \E i \in DOMAIN Families[f] : sit = Families[f][i]
    /\ stage = "schema" /\ next = 1 /\ reported = << >> /\ type = "" /\ failed = {} /\ answers = << >>

Next == CheckTest \/ SchemaRead \/ TryAlternative \/ NoAlternative \/ CheckContent \/ CheckAssertion

Spec == Init /\ [][Next]_vars
=============================================================================
