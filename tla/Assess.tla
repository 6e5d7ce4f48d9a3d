------------------------------- MODULE Assess -------------------------------
(***************************************************************************)
(* xsdvalidate.Validator.Assess: one depth-first walk of the instance that *)
(* assigns types, harvests IDs and evaluates identity constraints, then    *)
(* two passes over what the walk deferred (flushKeyrefs, checkIDRefs).     *)
(*                                                                         *)
(* The Go call stack is the path from the root to `cur', the element whose *)
(* activation is on top; `next' is the loop index of each activation's     *)
(* `for i, k := range kids' loop.                                          *)
(***************************************************************************)
EXTENDS Instance, SequencesExt

CONSTANT ValueOf(_)   \* the value a lexical form denotes in its type

VARIABLES
    doc,        \* the instance being assessed
    phase,      \* "start", "walk", "keyrefs", "idrefs", "done" or "panic"
    cur,        \* the element whose activation is on top of the stack
    next,       \* next[e]: children of e already handed to assessChild
    clock,      \* assessor.dfsClock
    enter,      \* enter[e]: the clock read on entry to assessElement
    leave,      \* leave[e]: the clock read after e's content was assessed
    visited,    \* elements given a governing type (keys of Result.Types)
    skipped,    \* assessor.skipped
    keyTables,  \* assessor.keyTables (a set: only membership is read)
    pending,    \* assessor.pendingKeyrefs not yet checked
    ids,        \* assessor.ids: value -> the element that bears it
    idrefs,     \* assessor.idrefs not yet checked, as [v, at]
    errs        \* the errors recorded, as [kind, at]

walkVars == <<cur, next, clock, enter, leave, visited, skipped>>
vars == <<doc, phase, walkVars, keyTables, pending, ids, idrefs, errs>>

Error(kind, e) == [kind |-> kind, at |-> e]

Init ==
    /\ doc \in Docs
    /\ phase = "start"
    /\ cur = NoElement
    /\ next = [e \in doc.els |-> 0]
    /\ clock = 0
    /\ enter = << >> /\ leave = << >>
    /\ visited = {} /\ skipped = {}
    /\ keyTables = {} /\ pending = {}
    /\ ids = << >> /\ idrefs = {}
    /\ errs = {}

-----------------------------------------------------------------------------
(* cvc-id: harvesting xs:ID and xs:IDREF values (collectID).               *)

(* The items harvested from e in the order the code meets them; an ID in   *)
(* an attribute binds to e, one in simple content to e's parent.  A nilled *)
(* element contributes its attributes only.                                *)
Harvest(d, e) ==
    LET Bind(items, o) == [i \in DOMAIN items |-> [k |-> items[i].k, v |-> items[i].v,
                                                   owner |-> o, at |-> e]]
    IN  Bind(d.attrs[e], e)
        \o (IF HasSimpleContent(d, e) /\ ~Nilled(d, e)
            THEN Bind(d.text[e], d.parent[e]) ELSE << >>)

(* collectID over all of them: a value belongs to the first element it is  *)
(* found on, and a later item of the same value must bind to that element; *)
(* an ID with no element to bind to (simple content of the root) binds     *)
(* nothing.                                                                *)
IDItems(d, e) == {i \in DOMAIN Harvest(d, e) : /\ Harvest(d, e)[i].k = "ID"
                                               /\ Harvest(d, e)[i].owner # NoElement}
IDRefItems(d, e) == {[v |-> Harvest(d, e)[i].v, at |-> e] :
                       i \in {j \in DOMAIN Harvest(d, e) : Harvest(d, e)[j].k = "IDREF"}}

FirstBearer(d, e, v) ==
    LET items == {i \in IDItems(d, e) : Harvest(d, e)[i].v = v}
    IN  Harvest(d, e)[CHOOSE i \in items : \A j \in items : i <= j].owner

(* Mutant: a later bearer of a value replaces the earlier one.             *)
BearersOverwritten(d, e) ==
    LET found == {Harvest(d, e)[i].v : i \in IDItems(d, e)}
    IN  [v \in DOMAIN ids \cup found |-> IF v \in found THEN FirstBearer(d, e, v) ELSE ids[v]]

Bearers(d, e) ==
    LET found == {Harvest(d, e)[i].v : i \in IDItems(d, e)}
    IN  [v \in DOMAIN ids \cup found |-> IF v \in DOMAIN ids THEN ids[v] ELSE FirstBearer(d, e, v)]

IDErrs(d, e) ==
    (IF \E i \in IDItems(d, e) : Harvest(d, e)[i].owner # Bearers(d, e)[Harvest(d, e)[i].v]
     THEN {Error("id-duplicate", e)} ELSE {})
    \cup
    (IF \E i \in DOMAIN Harvest(d, e) :
           Harvest(d, e)[i].k = "ID" /\ Harvest(d, e)[i].owner = NoElement
     THEN {Error("id-unbound", e)} ELSE {})

-----------------------------------------------------------------------------
(* cvc-identity-constraint: selecting targets and building tuples.         *)

(* selfAndDescendants is pruned at skipped elements; applyElementSteps     *)
(* maps a node to its matching children that are not skipped ("." leaves   *)
(* the set unchanged).                                                     *)
SelfAndDescendants(d, e) ==
    {x \in d.els : e \in d.anc[x] /\ skipped \cap d.anc[x] \subseteq d.anc[e] \ {e}}

ApplyStep(d, set, step) ==
    IF step = "." THEN set
    ELSE {c \in d.els \ skipped : d.parent[c] \in set /\ step \in {"*", d.name[c]}}

(* The nodes one path leads to, from a node or, after ".//", from every    *)
(* node below it.                                                          *)
Reached(d, bases, steps) ==
    LET set[k \in 0..Len(steps)] ==
            IF k = 0 THEN bases ELSE ApplyStep(d, set[k - 1], steps[k])
    IN  set[Len(steps)]

Bases(d, from, path) == IF path.descendant THEN SelfAndDescendants(d, from) ELSE {from}

PathTargets(d, from, path) == Reached(d, Bases(d, from, path), path.steps)

(* selectTargets: the nodes of every alternative, each node once.          *)
SelectTargets(d, scope, selector) ==
    UNION {PathTargets(d, scope, path) : path \in ToSet(selector)}

(* A node is met by the first alternative that leads to it; those of one   *)
(* alternative come base by base in document order, those of one base in   *)
(* document order too.                                                     *)
Position(d, e) == CHOOSE i \in 1..Len(d.order) : d.order[i] = e

Alternative(d, scope, selector, t) ==
    CHOOSE a \in DOMAIN selector :
        /\ t \in PathTargets(d, scope, selector[a])
        /\ \A b \in DOMAIN selector : b < a => t \notin PathTargets(d, scope, selector[b])

Turn(d, scope, selector, t) ==
    LET alt  == Alternative(d, scope, selector, t)
        path == selector[alt]
        base == CHOOSE b \in Bases(d, scope, path) : t \in Reached(d, {b}, path.steps)
        n    == Len(d.order)
    IN  (alt * n + Position(d, base)) * n + Position(d, t)

(* selectFieldNodes: the nodes, as <<element, name>>, to which some        *)
(* alternative leads: the element itself or the attributes its last step   *)
(* names.                                                                  *)
FieldNodes(d, target, field) ==
    UNION {UNION {{e} \X (path.last \cap DOMAIN d.values[e]) : e \in PathTargets(d, target, path)} :
             path \in ToSet(field)}

(* fieldValue: a node carries a type if the walk typed its element, the    *)
(* type is simple and the value parses.                                    *)
FieldValue(d, node) ==
    LET value == d.values[node[1]][node[2]]
    IN  [lex |-> value.lex, typed |-> node[1] \in visited /\ value.typed]

(* fieldsEqual: in the value space when both nodes were typed by the walk, *)
(* by collapsed lexical form otherwise.                                    *)
FieldsEqual(a, b) ==
    IF a.typed /\ b.typed THEN ValueOf(a.lex) = ValueOf(b.lex) ELSE a.lex = b.lex

TupleEqual(s, t) == /\ Len(s) = Len(t)
                    /\ \A i \in DOMAIN s : FieldsEqual(s[i], t[i])

TupleInSet(t, tuples) == \E u \in tuples : TupleEqual(t.vals, u.vals)

(* evalConstraint: a target all of whose fields are single nodes gives a   *)
(* tuple, which a key or unique keeps only if it equals none kept before.  *)
Many(d, ic, t) ==
    \E f \in ToSet(ic.fields) : ~AtMostOne(FieldNodes(d, t, f))
Full(d, ic, t) ==
    \A f \in ToSet(ic.fields) : JustOne(FieldNodes(d, t, f))
Missing(d, ic, t) == ~Many(d, ic, t) /\ ~Full(d, ic, t)

KeyTuple(d, ic, t) ==
    [at   |-> t,
     vals |-> [i \in DOMAIN ic.fields |->
                 FieldValue(d, CHOOSE n \in FieldNodes(d, t, ic.fields[i]) : TRUE)]]

Kept(tuple, turn) ==
    CHOOSE K \in SUBSET DOMAIN tuple :
        \A t \in DOMAIN tuple :
            t \in K <=> \A u \in K : turn[u] < turn[t] => ~TupleEqual(tuple[t].vals, tuple[u].vals)

EvalConstraint(d, scope, ic) ==
    LET targets == SelectTargets(d, scope, ic.selector)
        full    == {t \in targets : Full(d, ic, t)}
        tuple   == [t \in full |-> KeyTuple(d, ic, t)]
        turn    == [t \in full |-> Turn(d, scope, ic.selector, t)]
        kept    == IF ic.category = "keyref" THEN full ELSE Kept(tuple, turn)
        Report(kind, cond) == IF cond THEN {Error(kind, scope)} ELSE {}
    IN  [tuples |-> {tuple[t] : t \in kept},
         errs   |-> Report("ic-many", \E t \in targets : Many(d, ic, t))
                    \cup Report("ic-missing", /\ ic.category = "key"
                                              /\ \E t \in targets : Missing(d, ic, t))
                    \cup Report("ic-duplicate", kept # full)]

(* checkIdentityConstraints: key and unique tables first, then the keyrefs *)
(* whose referred constraint was resolved; both carry [enter, leave].      *)
IsTable(ic)    == ic.category # "keyref"
IsDeferred(ic) == ic.category = "keyref" /\ ic.refer # "none"
TableICs(d, e)    == {ic \in ToSet(d.ics[e]) : IsTable(ic)}
DeferredICs(d, e) == {ic \in ToSet(d.ics[e]) : IsDeferred(ic)}

Tables(d, e, chosen) ==
    {[ic     |-> ic,
      tuples |-> EvalConstraint(d, e, ic).tuples,
      enter  |-> enter[e],
      leave  |-> clock,
      at     |-> e] : ic \in chosen}

ConstraintErrs(d, e) ==
    UNION {EvalConstraint(d, e, ic).errs :
             ic \in TableICs(d, e) \cup DeferredICs(d, e)}

-----------------------------------------------------------------------------
(* The walk.                                                               *)

(* The errors assessElement / assessType record about e on the way in.     *)
ContentErrs(d, e) ==
    (IF d.sound[e] THEN {} ELSE {Error("value", e)})
    \cup (IF Nilled(d, e) /\ d.kids[e] # << >> THEN {Error("nilled-content", e)} ELSE {})
    \cup (IF ~Nilled(d, e) /\ d.kind[e] = "elements" /\ ~d.match[e]
          THEN {Error("particle", e)} ELSE {})
    \cup (IF ~Nilled(d, e) /\ d.kind[e] # "elements" /\ d.kids[e] # << >>
          THEN {Error("no-children", e)} ELSE {})

(* assessComplexType names decl.Name in its "simple content but contains   *)
(* element children" report, and decl is nil under a bare type.            *)
NilDeclaration(d, e) ==
    /\ Placement(d, e) = "type"
    /\ d.kind[e] = "simpleContent"
    /\ d.kids[e] # << >>

(* Mutant: entering an element does not advance the clock.                 *)
TickMissing == clock
Tick == clock + 1

(* Entering e: assessElement (which reads the clock) or, under a bare      *)
(* type, assessLocallyTyped (which does not); attributes are assessed and  *)
(* the content is checked before the first child is.                       *)
Enter(e) ==
    /\ visited' = visited \cup {e}
    /\ IF Placement(doc, e) = "decl"
       THEN enter' = Assign(enter, e, clock) /\ clock' = Tick
       ELSE UNCHANGED <<enter, clock>>
    /\ ids' = Bearers(doc, e)
    /\ idrefs' = idrefs \cup IDRefItems(doc, e)
    /\ errs' = errs \cup IDErrs(doc, e) \cup ContentErrs(doc, e)
    /\ cur' = e
    /\ phase' = IF NilDeclaration(doc, e) THEN "panic" ELSE "walk"

(* assessRoot with a governing declaration or a usable xsi:type.           *)
AssessRoot ==
    /\ phase = "start"
    /\ Placement(doc, doc.root) \in {"decl", "type"}
    /\ Enter(doc.root)
    /\ UNCHANGED <<doc, next, leave, skipped, keyTables, pending>>

(* assessRoot with neither: one cvc-elt error and nothing is walked.       *)
RejectRoot ==
    /\ phase = "start"
    /\ Placement(doc, doc.root) \notin {"decl", "type"}
    /\ errs' = errs \cup {Error("no-declaration", doc.root)}
    /\ phase' = "keyrefs"
    /\ UNCHANGED <<doc, walkVars, keyTables, pending, ids, idrefs>>

(* The next child of the running activation.                               *)
HasChild == phase = "walk" /\ next[cur] < Len(Walked(doc, cur))
Child    == Walked(doc, cur)[next[cur] + 1]

(* assessChild for a child that is assessed.                               *)
AssessChild ==
    /\ HasChild
    /\ Placement(doc, Child) \in {"decl", "type"}
    /\ next' = [next EXCEPT ![cur] = @ + 1]
    /\ Enter(Child)
    /\ UNCHANGED <<doc, leave, skipped, keyTables, pending>>

(* Mutant: an undeclared child under a strict wildcard goes unreported.    *)
PassErrsNone(k) == {}
PassErrs(k) ==
    IF Placement(doc, k) = "error" THEN {Error("no-declaration", k)} ELSE {}

(* assessChild for a child that is not: recorded as skipped, ignored, or   *)
(* reported (strict wildcard without a declaration).                       *)
PassChild ==
    /\ HasChild
    /\ Placement(doc, Child) \in {"skip", "ignore", "error"}
    /\ next' = [next EXCEPT ![cur] = @ + 1]
    /\ skipped' = IF Placement(doc, Child) = "skip" THEN skipped \cup {Child} ELSE skipped
    /\ errs' = errs \cup PassErrs(Child)
    /\ UNCHANGED <<doc, phase, cur, clock, enter, leave, visited, keyTables, pending,
                   ids, idrefs>>

(* checkDynamicEDC runs after assessElement returned to a wildcard child.  *)
EDCErrs(d, e) ==
    IF d.term[e] \in {"lax", "strict"} /\ d.global[e] /\ d.local[e] /\ ~d.consistent[e]
    THEN {Error("edc", e)} ELSE {}

(* Mutant: the end of the root's activation does not end the walk.         *)
PhaseAfterReturnWalking == "walk"
PhaseAfterReturn == IF cur = doc.root THEN "keyrefs" ELSE "walk"

(* The content of cur is assessed: evaluate the identity constraints of an *)
(* element that had a declaration and was not nilled, then return to the   *)
(* parent's loop, or end the walk at the root.                             *)
Return ==
    /\ phase = "walk"
    /\ next[cur] = Len(Walked(doc, cur))
    /\ IF Placement(doc, cur) = "decl" /\ ~Nilled(doc, cur)
       THEN /\ keyTables' = keyTables \cup Tables(doc, cur, TableICs(doc, cur))
            /\ pending' = pending \cup Tables(doc, cur, DeferredICs(doc, cur))
            /\ errs' = errs \cup ConstraintErrs(doc, cur) \cup EDCErrs(doc, cur)
            /\ leave' = Assign(leave, cur, clock)
       ELSE /\ errs' = errs \cup EDCErrs(doc, cur)
            /\ UNCHANGED <<keyTables, pending, leave>>
    /\ cur' = doc.parent[cur]
    /\ phase' = PhaseAfterReturn
    /\ UNCHANGED <<doc, next, clock, enter, visited, skipped, ids, idrefs>>

-----------------------------------------------------------------------------
(* After the walk.                                                         *)

(* inScopeKeyTuples: the tables of the referred constraint whose interval  *)
(* lies within the keyref's.                                               *)
(* Mutant: a table above the keyref's element is in scope too.             *)
WithinUpperOnly(kt, pk) == kt.leave <= pk.leave
Within(kt, pk) == pk.enter <= kt.enter /\ kt.leave <= pk.leave

InScopeTuples(pk) ==
    UNION {kt.tuples : kt \in {t \in keyTables : t.ic.id = pk.ic.refer /\ Within(t, pk)}}

(* One round of flushKeyrefs' loop.                                        *)
FlushKeyref(pk) ==
    /\ phase = "keyrefs"
    /\ pk \in pending
    /\ errs' = IF \A t \in pk.tuples : TupleInSet(t, InScopeTuples(pk))
               THEN errs ELSE errs \cup {Error("keyref", pk.at)}
    /\ pending' = pending \ {pk}
    /\ UNCHANGED <<doc, phase, walkVars, keyTables, ids, idrefs>>

KeyrefsDone ==
    /\ phase = "keyrefs"
    /\ pending = {}
    /\ phase' = "idrefs"
    /\ UNCHANGED <<doc, walkVars, keyTables, pending, ids, idrefs, errs>>

(* One round of checkIDRefs' loop.                                         *)
CheckIDRef(r) ==
    /\ phase = "idrefs"
    /\ r \in idrefs
    /\ errs' = IF r.v \in DOMAIN ids THEN errs ELSE errs \cup {Error("idref", r.at)}
    /\ idrefs' = idrefs \ {r}
    /\ UNCHANGED <<doc, phase, walkVars, keyTables, pending, ids>>

Finish ==
    /\ phase = "idrefs"
    /\ idrefs = {}
    /\ phase' = "done"
    /\ UNCHANGED <<doc, walkVars, keyTables, pending, ids, idrefs, errs>>

Next ==
    \/ AssessRoot \/ RejectRoot
    \/ AssessChild \/ PassChild \/ Return
    \/ (\E pk \in pending : FlushKeyref(pk)) \/ KeyrefsDone
    \/ (\E r \in idrefs : CheckIDRef(r)) \/ Finish

(* Assess is a plain function call: while it has a step to take it takes   *)
(* it.                                                                     *)
Spec == Init /\ [][Next]_vars /\ WF_vars(Next)

-----------------------------------------------------------------------------
(* Properties.                                                             *)

(* Types of the assessor's state: the stack top is an assessed element     *)
(* while the walk runs, and interval ends are clock readings.              *)
TypeOK ==
    /\ IsTree(doc)
    /\ phase \in {"start", "walk", "keyrefs", "idrefs", "done", "panic"}
    /\ phase = "start" => visited = {}
    /\ phase \in {"walk", "panic"} => cur \in visited
    /\ next \in [doc.els -> Nat]
    /\ clock \in Nat
    /\ visited \in SUBSET doc.els
    /\ skipped \in SUBSET doc.els
    /\ enter \in [DOMAIN enter -> Nat] /\ DOMAIN enter \subseteq visited
    /\ leave \in [DOMAIN leave -> Nat] /\ DOMAIN leave \subseteq DOMAIN enter

(* The Euler-tour claim of idc.go and assess.go: once an element's         *)
(* interval is closed, another entered element's enter index lies in it    *)
(* iff that element is below it; so interval containment, the test         *)
(* inScopeKeyTuples makes, IS the subtree relation.                        *)
Encloses(a, b) == enter[a] <= enter[b] /\ leave[b] <= leave[a]

IntervalNesting ==
    \A a, b \in DOMAIN leave : Encloses(a, b) <=> a \in doc.anc[b]

(* So the numeric test of inScopeKeyTuples selects exactly the tables      *)
(* scoped at the keyref's element or below it.                             *)
ScopeIsSubtree ==
    \A kt \in keyTables, pk \in pending : Within(kt, pk) <=> pk.at \in doc.anc[kt.at]

(* A processContents="skip" region is opaque to identity constraints: no   *)
(* tuple of any table or deferred keyref comes from an element at or below *)
(* a skipped one, although the region is only marked while the walk runs   *)
(* (assess.go: "excluded from identity-constraint target/field             *)
(* selection").                                                            *)
SkipOpaque ==
    \A table \in keyTables \cup pending :
        \A t \in table.tuples : doc.anc[t.at] \cap skipped = {}

(* The declarative judgement of the same document.                         *)
Verdict == IF phase # "done" THEN "pending"
           ELSE IF errs = {} THEN "valid" ELSE "invalid"

Abstract == INSTANCE AssessSpec WITH verdict <- Verdict

(* flushKeyrefs, working from intervals and tables recorded in walk order, *)
(* reports a keyref at exactly the elements where the node tables of the   *)
(* subtree lack a match, provided the keys themselves are distinct.        *)
KeyrefVerdict ==
    phase \in {"idrefs", "done"} =>
        \A e \in Abstract!Constrained(doc) :
            (\A x \in errs : x.kind # "ic-duplicate") =>
            (Error("keyref", e) \in errs <=>
                \E ic \in ToSet(doc.ics[e]) :
                    /\ IsDeferred(ic)
                    /\ ~Abstract!KeyrefOK(doc, e, ic))

(* cvc-id: IDs and IDREFs get the verdict of the whole document whatever   *)
(* the order in which bearers and references are met.                      *)
IDVerdict ==
    phase = "done" =>
        /\ (\E x \in errs : x.kind = "id-duplicate") <=>
              ~(\A p, q \in {b \in Abstract!Borne(doc) : b[2] # NoElement} :
                   p[1] = q[1] => p[2] = q[2])
        /\ (\E x \in errs : x.kind = "idref") <=>
              ~(Abstract!Referenced(doc) \subseteq
                  {p[1] : p \in {b \in Abstract!Borne(doc) : b[2] # NoElement}})

(* Errors stand where the document calls for them, not just in number.     *)
IdentityExact == SkipOpaque /\ KeyrefVerdict /\ IDVerdict

(* The whole assessor implements the one-step judgement.                   *)
Implements == Abstract!Spec

(* Assess returns; it never crashes (fuzz_test.go's first invariant).      *)
NeverPanics == phase # "panic"
=============================================================================
