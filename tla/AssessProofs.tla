---------------------------- MODULE AssessProofs ----------------------------
(***************************************************************************)
(* For every set of documents, in the order of the argument:               *)
(*   IInv           the walk's clock intervals nest exactly as the elements *)
(*                  do, so the numeric scope test of keyrefs is the subtree *)
(*                  relation; an invariant about the path from the root to  *)
(*                  the element being assessed (the open activations)       *)
(*   WalkOK         the walk visits the elements the specification assesses *)
(*                  and skips those it skips; below an element that is left *)
(*                  nothing is missing any more                             *)
(*   IDsOK          the ID table holds a bearer of each value found so far  *)
(*   ConstraintsOK  a table made on the way out of an element holds the     *)
(*                  tuples the specification states without a walk          *)
(*   CausesOK       every error has its cause, every cause its error        *)
(* and so the assessor judges as the specification does.                   *)
(***************************************************************************)
EXTENDS Assess, Induction

(* The elements whose activation is on the call stack.                     *)
Open == IF phase \in {"walk", "panic"} THEN doc.anc[cur] ELSE {}

(* Children are entered in order, once each.                               *)
VisitedInOrder ==
    \A e \in visited : e # doc.root =>
        \E i \in 1..next[doc.parent[e]] :
            i <= Len(doc.kids[doc.parent[e]]) /\ doc.kids[doc.parent[e]][i] = e

AncestorsVisited == \A e \in visited : doc.anc[e] \subseteq visited

TickedIsDeclared == \A e \in visited : e \in DOMAIN enter <=> Placement(doc, e) = "decl"

ClockBounds ==
    /\ \A e \in DOMAIN enter : enter[e] < clock
    /\ \A e \in DOMAIN leave : enter[e] < leave[e] /\ leave[e] <= clock

ClosedIsNotOpen == \A e \in DOMAIN leave : e \notin Open

(* An element is entered after its ancestors and closed before they are.   *)
AncestorsFirst ==
    \A a, b \in DOMAIN enter : a \in doc.anc[b] => enter[a] <= enter[b]
AncestorsLast ==
    \A a, b \in DOMAIN leave : a \in doc.anc[b] => leave[b] <= leave[a]

(* Everything entered since an open element was is below it; everything    *)
(* entered within a closed interval is below its element.                  *)
OpenEncloses ==
    \A a \in DOMAIN enter, b \in DOMAIN enter :
        a \in Open /\ enter[a] <= enter[b] => a \in doc.anc[b]
ClosedEncloses ==
    \A a \in DOMAIN leave, b \in DOMAIN enter :
        a \notin doc.anc[b] => enter[b] < enter[a] \/ leave[a] <= enter[b]

(* Tables and deferred keyrefs carry the interval of a closed element.     *)
TablesAreScoped ==
    \A t \in keyTables \cup pending :
        /\ t.at \in DOMAIN leave
        /\ t.enter = enter[t.at]
        /\ t.leave = leave[t.at]

Intervals ==
    /\ TickedIsDeclared /\ ClockBounds /\ ClosedIsNotOpen
    /\ AncestorsFirst /\ AncestorsLast
    /\ OpenEncloses /\ ClosedEncloses
    /\ TablesAreScoped

IInv ==
    /\ TypeOK
    /\ VisitedInOrder /\ AncestorsVisited
    /\ Intervals

-----------------------------------------------------------------------------
(* Facts about trees. *)

(* Every element is its own ancestor, a non-root's parent is an element    *)
(* and contributes all its other ancestors.                                *)
LEMMA TreeFacts ==
    ASSUME NEW d, IsTree(d), NEW e \in d.els
    PROVE  /\ d.root \in d.els
           /\ e \in d.anc[e]
           /\ d.anc[e] \subseteq d.els
           /\ d.anc[d.root] = {d.root}
           /\ e # d.root => /\ d.parent[e] \in d.els
                            /\ d.anc[e] = d.anc[d.parent[e]] \cup {e}
                            /\ e \notin d.anc[d.parent[e]]
BY DEF IsTree

(* A child that is still to be visited is a non-root child of its parent,  *)
(* found at the position the loop index points to.                         *)
LEMMA ChildFacts ==
    ASSUME TypeOK, HasChild
    PROVE  /\ cur \in doc.els
           /\ next[cur] + 1 \in 1..Len(doc.kids[cur])
           /\ Child = doc.kids[cur][next[cur] + 1]
           /\ Child \in doc.els
           /\ Child # doc.root
           /\ doc.parent[Child] = cur
<1>1. cur \in doc.els /\ next[cur] \in Nat /\ IsTree(doc)
  BY DEF TypeOK, HasChild
<1>2. Walked(doc, cur) = doc.kids[cur]
  BY <1>1 DEF HasChild, Walked
<1>3. doc.kids[cur] \in Seq(doc.els)
  BY <1>1 DEF IsTree
<1>4. next[cur] + 1 \in 1..Len(doc.kids[cur])
  BY <1>1, <1>2, <1>3 DEF HasChild
<1>5. Child = doc.kids[cur][next[cur] + 1] /\ Child \in doc.els
  BY <1>2, <1>3, <1>4 DEF Child
<1>6. doc.parent[Child] = cur /\ Child # doc.root
  BY <1>1, <1>4, <1>5 DEF IsTree
<1> QED BY <1>1, <1>4, <1>5, <1>6

(* It has not been visited before.                                         *)
LEMMA ChildIsNew ==
    ASSUME TypeOK, VisitedInOrder, HasChild
    PROVE  Child \notin visited
<1> SUFFICES ASSUME Child \in visited PROVE FALSE
  OBVIOUS
<1>1. PICK i \in 1..next[cur] : i <= Len(doc.kids[cur]) /\ doc.kids[cur][i] = Child
  BY ChildFacts DEF VisitedInOrder
<1>0. cur \in doc.els /\ IsTree(doc)
  BY ChildFacts DEF TypeOK
<1>2. next[cur] \in Nat /\ doc.kids[cur] \in Seq(doc.els)
  BY <1>0 DEF TypeOK, IsTree
<1>3. i \in 1..Len(doc.kids[cur]) /\ next[cur] + 1 \in 1..Len(doc.kids[cur])
  BY <1>1, <1>2, ChildFacts
<1>4. doc.kids[cur][i] = doc.kids[cur][next[cur] + 1]
  BY <1>1, ChildFacts
<1>5. i = next[cur] + 1
  BY <1>0, <1>3, <1>4 DEF IsTree
<1> QED BY <1>1, <1>2, <1>5
-----------------------------------------------------------------------------
(* Entering an element that is new, whose other ancestors are exactly the  *)
(* open elements, preserves what the invariant says of intervals.          *)
LEMMA EnterIntervals ==
    ASSUME TypeOK, TypeOK', AncestorsVisited, Intervals,
           NEW e \in doc.els, e \notin visited,
           Enter(e),
           doc.anc[e] = Open \cup {e},
           UNCHANGED <<doc, leave, keyTables, pending>>
    PROVE  Intervals'
<1> DEFINE ticks == Placement(doc, e) = "decl"
<1>1. /\ Open' = Open \cup {e}
      /\ visited' = visited \cup {e}
      /\ e \notin DOMAIN enter /\ e \notin DOMAIN leave
      /\ clock \in Nat
  BY DEF Enter, Open, TypeOK
<1>2. CASE ~ticks
  <2>1. enter' = enter /\ clock' = clock
    BY <1>2 DEF Enter
  <2> QED
    BY <1>1, <1>2, <2>1
    DEF Intervals, TickedIsDeclared, ClockBounds, ClosedIsNotOpen, AncestorsFirst,
        AncestorsLast, OpenEncloses, ClosedEncloses, TablesAreScoped
<1>3. CASE ticks
  <2>1. /\ DOMAIN enter' = DOMAIN enter \cup {e}
        /\ enter'[e] = clock
        /\ \A x \in DOMAIN enter : enter'[x] = enter[x]
        /\ clock' = clock + 1
    BY <1>1, <1>3 DEF Enter, Assign, Tick
  <2>2. \A x \in DOMAIN enter : enter[x] \in Nat /\ enter[x] < clock
    BY DEF TypeOK, Intervals, ClockBounds
  <2>3. \A x \in DOMAIN leave :
           /\ x \in DOMAIN enter /\ leave[x] \in Nat
           /\ enter[x] < leave[x] /\ leave[x] <= clock
    BY DEF TypeOK, Intervals, ClockBounds
  <2>4. TickedIsDeclared' /\ ClockBounds' /\ ClosedIsNotOpen'
    BY <1>1, <1>3, <2>1, <2>2, <2>3
    DEF Intervals, TickedIsDeclared, ClockBounds, ClosedIsNotOpen
  <2>5. AncestorsFirst'
    <3> SUFFICES ASSUME NEW a \in DOMAIN enter', NEW b \in DOMAIN enter', a \in doc.anc[b]
                 PROVE  enter'[a] <= enter'[b]
      BY DEF AncestorsFirst
    <3>1. CASE b = e
      BY <1>1, <2>1, <2>2, <3>1
    <3>2. CASE b # e /\ a # e
      BY <2>1, <3>2 DEF Intervals, AncestorsFirst
    <3>3. CASE b # e /\ a = e
      BY <2>1, <3>3 DEF TypeOK, AncestorsVisited
    <3> QED BY <3>1, <3>2, <3>3
  <2>6. AncestorsLast'
    BY <2>1 DEF Intervals, AncestorsLast
  <2>7. OpenEncloses'
    BY <1>1, <2>1, <2>2 DEF Intervals, OpenEncloses
  <2>8. ClosedEncloses'
    BY <1>1, <2>1, <2>2, <2>3 DEF Intervals, ClosedEncloses, ClosedIsNotOpen
  <2>9. TablesAreScoped'
    BY <2>1, <2>3 DEF Intervals, TablesAreScoped
  <2> QED BY <2>4, <2>5, <2>6, <2>7, <2>8, <2>9 DEF Intervals
<1> QED BY <1>2, <1>3

-----------------------------------------------------------------------------
(* The initial state.                                                      *)
LEMMA InitIInv == Init => IInv
BY DocsAssumption DEF Init, IsInstance, IInv, TypeOK, VisitedInOrder, AncestorsVisited, Intervals,
       TickedIsDeclared, ClockBounds, ClosedIsNotOpen, AncestorsFirst, AncestorsLast, OpenEncloses,
       ClosedEncloses, TablesAreScoped

(* Steps that leave the walk's state and the tables' membership alone, or  *)
(* only shrink what is pending once nothing is open.                       *)
LEMMA QuietStep ==
    ASSUME IInv, UNCHANGED <<doc, walkVars, keyTables>>,
           pending' \subseteq pending,
           phase \in {"start", "keyrefs", "idrefs"} /\ phase' \in {"keyrefs", "idrefs", "done"}
    PROVE  IInv'
<1>1. Open = {} /\ Open' = {}
  BY DEF Open
<1>2. TypeOK'
  BY DEF IInv, TypeOK, walkVars
<1>3. VisitedInOrder' /\ AncestorsVisited'
  BY DEF IInv, VisitedInOrder, AncestorsVisited, walkVars
<1>4. Intervals'
  BY <1>1 DEF IInv, walkVars, Intervals, TickedIsDeclared, ClockBounds, ClosedIsNotOpen,
     AncestorsFirst, AncestorsLast, OpenEncloses, ClosedEncloses, TablesAreScoped
<1> QED BY <1>2, <1>3, <1>4 DEF IInv

(* assessRoot and assessChild on a child that is assessed.                 *)
LEMMA AssessRootIInv == IInv /\ AssessRoot => IInv'
<1> SUFFICES ASSUME IInv, AssessRoot PROVE IInv'
  OBVIOUS
<1> DEFINE r == doc.root
<1>0. IsTree(doc) /\ visited = {} /\ Open = {}
  BY DEF IInv, TypeOK, AssessRoot, Open
<1>1. r \in doc.els /\ doc.anc[r] = {r} /\ visited = {} /\ Open = {}
  BY <1>0 DEF IsTree
<1>2. Enter(r) /\ UNCHANGED <<doc, next, leave, skipped, keyTables, pending>>
  BY DEF AssessRoot
<1>3. TypeOK'
  BY <1>1, <1>2 DEF IInv, TypeOK, Enter, Assign, Tick
<1>4. VisitedInOrder' /\ AncestorsVisited'
  BY <1>1, <1>2 DEF Enter, VisitedInOrder, AncestorsVisited
<1>5. Intervals'
  BY <1>1, <1>2, <1>3, EnterIntervals DEF IInv
<1> QED BY <1>3, <1>4, <1>5 DEF IInv

(* Handing over the next child (assessChild): entering it, skipping it or  *)
(* reporting it keeps the invariant.                                       *)
LEMMA AssessChildIInv == IInv /\ AssessChild => IInv'
<1> SUFFICES ASSUME IInv, AssessChild PROVE IInv'
  OBVIOUS
<1> DEFINE k == Child
<1>1. HasChild /\ TypeOK /\ VisitedInOrder
  BY DEF IInv, AssessChild
<1>2. /\ cur \in doc.els /\ cur \in visited /\ k \in doc.els /\ k # doc.root
      /\ doc.parent[k] = cur
      /\ next[cur] + 1 \in 1..Len(doc.kids[cur])
      /\ k = doc.kids[cur][next[cur] + 1]
  BY <1>1, ChildFacts DEF TypeOK, HasChild
<1>3. k \notin visited
  BY <1>1, ChildIsNew
<1>4. doc.anc[k] = Open \cup {k}
  BY <1>1, <1>2, TreeFacts DEF TypeOK, HasChild, Open
<1>5. /\ Enter(k) /\ UNCHANGED <<doc, leave, skipped, keyTables, pending>>
      /\ next' = [next EXCEPT ![cur] = @ + 1]
  BY DEF AssessChild
<1>6. TypeOK'
  BY <1>1, <1>2, <1>3, <1>5, SMTT(20) DEF TypeOK, Enter, Assign, Tick
<1>7. VisitedInOrder'
  <2> SUFFICES ASSUME NEW e \in visited', e # doc.root
               PROVE  \E i \in 1..next'[doc.parent[e]] :
                         i <= Len(doc.kids[doc.parent[e]]) /\ doc.kids[doc.parent[e]][i] = e
    BY <1>5 DEF VisitedInOrder
  <2>1. CASE e = k
    <3>1. next'[cur] = next[cur] + 1 /\ next[cur] \in Nat
      BY <1>1, <1>2, <1>5 DEF TypeOK
    <3>2. next[cur] + 1 \in 1..next'[doc.parent[e]]
      BY <1>2, <2>1, <3>1
    <3>3. /\ next[cur] + 1 <= Len(doc.kids[doc.parent[e]])
          /\ doc.kids[doc.parent[e]][next[cur] + 1] = e
      BY <1>2, <2>1
    <3> WITNESS next[cur] + 1 \in 1..next'[doc.parent[e]]
    <3> QED BY <3>3
  <2>2. CASE e # k
    <3>1. e \in visited /\ e \in doc.els
      BY <1>1, <1>5, <2>2 DEF Enter, TypeOK
    <3>2. doc.parent[e] \in doc.els
      BY <1>1, <3>1, TreeFacts DEF TypeOK
    <3>3. next[doc.parent[e]] \in Nat /\ next'[doc.parent[e]] >= next[doc.parent[e]]
      BY <1>1, <1>2, <1>5, <3>2 DEF TypeOK
    <3>4. next'[doc.parent[e]] \in Nat
      BY <1>5, <1>6, <3>2 DEF TypeOK
    <3>5. PICK i \in 1..next[doc.parent[e]] :
             i <= Len(doc.kids[doc.parent[e]]) /\ doc.kids[doc.parent[e]][i] = e
      BY <1>1, <3>1 DEF VisitedInOrder
    <3>6. i \in 1..next'[doc.parent[e]]
      BY <3>3, <3>4
    <3> QED BY <3>5, <3>6
  <2> QED BY <2>1, <2>2
<1>8. AncestorsVisited'
  BY <1>1, <1>2, <1>4, <1>5 DEF IInv, AncestorsVisited, Enter, Open, HasChild
<1>9. Intervals'
  BY <1>1, <1>2, <1>3, <1>4, <1>5, <1>6, EnterIntervals DEF IInv
<1> QED BY <1>6, <1>7, <1>8, <1>9 DEF IInv

(* A child that is passed over only moves the loop index.                  *)
LEMMA PassChildIInv == IInv /\ PassChild => IInv'
<1> SUFFICES ASSUME IInv, PassChild PROVE IInv'
  OBVIOUS
<1>1. HasChild /\ TypeOK
  BY DEF IInv, PassChild
<1>2. /\ UNCHANGED <<doc, phase, cur, clock, enter, leave, visited, keyTables, pending>>
      /\ next' = [next EXCEPT ![cur] = @ + 1]
      /\ skipped' \subseteq skipped \cup {Child}
  BY DEF PassChild
<1>3. TypeOK'
  BY <1>1, <1>2, ChildFacts DEF TypeOK
<1>4. VisitedInOrder'
  <2> SUFFICES ASSUME NEW e \in visited, e # doc.root
               PROVE  \E i \in 1..next'[doc.parent[e]] :
                         i <= Len(doc.kids[doc.parent[e]]) /\ doc.kids[doc.parent[e]][i] = e
    BY <1>2 DEF VisitedInOrder
  <2>1. doc.parent[e] \in doc.els
    BY <1>1, TreeFacts DEF TypeOK
  <2>2. next[doc.parent[e]] \in Nat /\ next'[doc.parent[e]] >= next[doc.parent[e]]
    BY <1>1, <1>2, <2>1, ChildFacts DEF TypeOK
  <2>3. next'[doc.parent[e]] \in Nat
    BY <1>2, <1>3, <2>1 DEF TypeOK
  <2> QED BY <2>2, <2>3 DEF IInv, VisitedInOrder
<1>5. AncestorsVisited'
  BY <1>2 DEF IInv, AncestorsVisited
<1>6. Open' = Open
  BY <1>2 DEF Open
<1>7. Intervals'
  BY <1>2, <1>6 DEF IInv, Intervals, TickedIsDeclared, ClockBounds, ClosedIsNotOpen,
     AncestorsFirst, AncestorsLast, OpenEncloses, ClosedEncloses, TablesAreScoped
<1> QED BY <1>3, <1>4, <1>5, <1>7 DEF IInv

(* Returning from an element closes its interval: everything entered since *)
(* it was is below it, and everything closed before it was closed earlier. *)
LEMMA ReturnIInv == IInv /\ Return => IInv'
<1> SUFFICES ASSUME IInv, Return PROVE IInv'
  OBVIOUS
<1>1. /\ TypeOK /\ Intervals /\ phase = "walk" /\ cur \in visited /\ cur \in doc.els
      /\ clock \in Nat
  BY DEF IInv, TypeOK, Return
<1>2. /\ UNCHANGED <<doc, next, clock, enter, visited, skipped>>
      /\ cur' = doc.parent[cur]
      /\ phase' = IF cur = doc.root THEN "keyrefs" ELSE "walk"
  BY DEF Return, PhaseAfterReturn
<1>3. /\ Open = doc.anc[cur] /\ cur \in Open
      /\ Open' = Open \ {cur}
      /\ cur # doc.root => cur' \in visited
  <2>1. cur # doc.root => /\ doc.parent[cur] \in doc.els
                          /\ doc.anc[cur] = doc.anc[doc.parent[cur]] \cup {cur}
                          /\ cur \notin doc.anc[doc.parent[cur]]
                          /\ doc.parent[cur] \in doc.anc[doc.parent[cur]]
    BY <1>1, TreeFacts DEF TypeOK
  <2>2. cur \in doc.anc[cur] /\ doc.anc[doc.root] = {doc.root}
    BY <1>1, TreeFacts DEF TypeOK
  <2> QED BY <1>1, <1>2, <2>1, <2>2 DEF Open, IInv, AncestorsVisited
<1>4. VisitedInOrder' /\ AncestorsVisited'
  BY <1>2 DEF IInv, VisitedInOrder, AncestorsVisited
<1>5. CASE ~(Placement(doc, cur) = "decl" /\ ~Nilled(doc, cur))
  <2>1. UNCHANGED <<keyTables, pending, leave>>
    BY <1>5 DEF Return
  <2>2. TypeOK'
    BY <1>1, <1>2, <1>3, <2>1 DEF TypeOK
  <2>3. Intervals'
    BY <1>1, <1>2, <1>3, <2>1
    DEF Intervals, TickedIsDeclared, ClockBounds, ClosedIsNotOpen, AncestorsFirst,
        AncestorsLast, OpenEncloses, ClosedEncloses, TablesAreScoped
  <2> QED BY <1>4, <2>2, <2>3 DEF IInv
<1>6. CASE Placement(doc, cur) = "decl" /\ ~Nilled(doc, cur)
  <2>1. /\ leave' = Assign(leave, cur, clock)
        /\ keyTables' = keyTables \cup Tables(doc, cur, TableICs(doc, cur))
        /\ pending' = pending \cup Tables(doc, cur, DeferredICs(doc, cur))
    BY <1>6 DEF Return
  <2>2. cur \in DOMAIN enter /\ cur \notin DOMAIN leave
    BY <1>1, <1>3, <1>6 DEF Intervals, TickedIsDeclared, ClosedIsNotOpen
  <2>3. /\ DOMAIN leave' = DOMAIN leave \cup {cur}
        /\ leave'[cur] = clock
        /\ \A x \in DOMAIN leave : leave'[x] = leave[x]
    BY <2>1, <2>2 DEF Assign
  <2>4. \A x \in DOMAIN enter : enter[x] \in Nat /\ enter[x] < clock
    BY <1>1 DEF TypeOK, Intervals, ClockBounds
  <2>5. \A x \in DOMAIN leave : /\ x \in DOMAIN enter /\ leave[x] \in Nat
                                /\ enter[x] < leave[x] /\ leave[x] <= clock
    BY <1>1 DEF TypeOK, Intervals, ClockBounds
  <2>6. TypeOK'
    BY <1>1, <1>2, <1>3, <2>1, <2>2 DEF TypeOK, Assign
  <2>7. TickedIsDeclared' /\ ClockBounds' /\ ClosedIsNotOpen'
    BY <1>1, <1>2, <1>3, <2>2, <2>3, <2>4, <2>5
    DEF Intervals, TickedIsDeclared, ClockBounds, ClosedIsNotOpen
  <2>8. AncestorsFirst'
    BY <1>1, <1>2 DEF Intervals, AncestorsFirst
  <2>9. AncestorsLast'
    <3> SUFFICES ASSUME NEW a \in DOMAIN leave', NEW b \in DOMAIN leave', a \in doc.anc[b]
                 PROVE  leave'[b] <= leave'[a]
      BY <1>2 DEF AncestorsLast
    <3>1. CASE a = cur
      BY <1>1, <2>3, <2>5, <3>1
    <3>2. CASE a # cur /\ b = cur
      BY <1>1, <1>3, <2>3, <3>2 DEF Intervals, ClosedIsNotOpen
    <3>3. CASE a # cur /\ b # cur
      BY <1>1, <2>3, <3>3 DEF Intervals, AncestorsLast
    <3> QED BY <3>1, <3>2, <3>3
  <2>10. OpenEncloses'
    BY <1>1, <1>2, <1>3 DEF Intervals, OpenEncloses
  <2>11. ClosedEncloses'
    <3> SUFFICES ASSUME NEW a \in DOMAIN leave', NEW b \in DOMAIN enter, a \notin doc.anc[b]
                 PROVE  enter[b] < enter[a] \/ leave'[a] <= enter[b]
      BY <1>2 DEF ClosedEncloses
    <3>1. CASE a = cur
      BY <1>1, <1>3, <2>2, <2>4, <3>1 DEF Intervals, OpenEncloses
    <3>2. CASE a # cur
      BY <1>1, <2>3, <3>2 DEF Intervals, ClosedEncloses
    <3> QED BY <3>1, <3>2
  <2>12. TablesAreScoped'
    <3>1. \A t \in Tables(doc, cur, TableICs(doc, cur)) \cup Tables(doc, cur, DeferredICs(doc, cur)) :
             t.at = cur /\ t.enter = enter[cur] /\ t.leave = clock
      BY DEF Tables
    <3> QED BY <1>1, <1>2, <2>1, <2>3, <3>1 DEF Intervals, TablesAreScoped
  <2> QED BY <1>4, <2>6, <2>7, <2>8, <2>9, <2>10, <2>11, <2>12 DEF IInv, Intervals
<1> QED BY <1>5, <1>6

-----------------------------------------------------------------------------
(* The invariant holds throughout every assessment.                        *)
THEOREM WalkInvariant == Spec => []IInv
<1>1. Init => IInv
  BY InitIInv
<1>2. IInv /\ [Next]_vars => IInv'
  <2> SUFFICES ASSUME IInv, [Next]_vars PROVE IInv'
    OBVIOUS
  <2>1. CASE AssessRoot
    BY <2>1, AssessRootIInv
  <2>2. CASE RejectRoot
    BY <2>2, QuietStep DEF RejectRoot
  <2>3. CASE AssessChild
    BY <2>3, AssessChildIInv
  <2>4. CASE PassChild
    BY <2>4, PassChildIInv
  <2>5. CASE Return
    BY <2>5, ReturnIInv
  <2>6. ASSUME NEW pk \in pending, FlushKeyref(pk) PROVE IInv'
    BY <2>6, QuietStep DEF FlushKeyref
  <2>7. CASE KeyrefsDone
    BY <2>7, QuietStep DEF KeyrefsDone
  <2>8. ASSUME NEW r \in idrefs, CheckIDRef(r) PROVE IInv'
    BY <2>8, QuietStep DEF CheckIDRef
  <2>9. CASE Finish
    BY <2>9, QuietStep DEF Finish
  <2>10. CASE UNCHANGED vars
    <3>1. Open' = Open
      BY <2>10 DEF vars, walkVars, Open
    <3> QED
      BY <2>10, <3>1 DEF vars, walkVars, IInv, TypeOK, VisitedInOrder, AncestorsVisited,
         Intervals, TickedIsDeclared, ClockBounds, ClosedIsNotOpen, AncestorsFirst,
         AncestorsLast, OpenEncloses, ClosedEncloses, TablesAreScoped
  <2> QED
    BY <2>1, <2>2, <2>3, <2>4, <2>5, <2>6, <2>7, <2>8, <2>9, <2>10 DEF Next
<1> QED BY <1>1, <1>2, PTL DEF Spec

(* The assessor's state always has its type.                               *)
THEOREM TypeCorrect == Spec => []TypeOK
<1>1. IInv => TypeOK
  BY DEF IInv
<1> QED BY <1>1, WalkInvariant, PTL

(* Clock intervals of closed elements nest exactly as the elements do.     *)
LEMMA NestingFromIInv == IInv => IntervalNesting
<1> SUFFICES ASSUME IInv, NEW a \in DOMAIN leave, NEW b \in DOMAIN leave
             PROVE  Encloses(a, b) <=> a \in doc.anc[b]
  BY DEF IntervalNesting
<1>1. /\ a \in DOMAIN enter /\ enter[a] \in Nat /\ leave[a] \in Nat
      /\ b \in DOMAIN enter /\ enter[b] \in Nat /\ leave[b] \in Nat
      /\ enter[b] < leave[b]
  BY DEF IInv, TypeOK, Intervals, ClockBounds
<1>2. a \in doc.anc[b] => Encloses(a, b)
  BY <1>1 DEF IInv, Intervals, AncestorsFirst, AncestorsLast, Encloses
<1>3. a \notin doc.anc[b] => ~Encloses(a, b)
  BY <1>1 DEF IInv, Intervals, ClosedEncloses, Encloses
<1> QED BY <1>2, <1>3

(* The [enter, leave] intervals the clock hands out nest exactly as the    *)
(* elements they were read at do.                                          *)
THEOREM Nesting == Spec => []IntervalNesting
BY NestingFromIInv, WalkInvariant, PTL

(* A keyref's numeric scope test selects exactly its subtree's tables.     *)
THEOREM KeyrefScope == Spec => []ScopeIsSubtree
<1>1. IInv => ScopeIsSubtree
  BY NestingFromIInv DEF IInv, Intervals, TablesAreScoped, IntervalNesting, ScopeIsSubtree,
     Within, Encloses
<1> QED BY <1>1, WalkInvariant, PTL

(* An induction from the root down.                                        *)
LEMMA TreeInduction ==
    ASSUME NEW d, IsTree(d), NEW X, d.root \in X,
           \A e \in d.els \ {d.root} : d.parent[e] \in X => e \in X
    PROVE  d.els \subseteq X
<1> DEFINE S == {n \in Nat : \A e \in d.els : Cardinality(d.anc[e]) <= n => e \in X}
<1>1. ASSUME NEW e \in d.els PROVE IsFiniteSet(d.anc[e]) /\ Cardinality(d.anc[e]) \in Nat \ {0}
  <2>1. d.anc[e] \subseteq d.els /\ IsFiniteSet(d.els) /\ e \in d.anc[e]
    BY TreeFacts DEF IsTree
  <2>2. IsFiniteSet(d.anc[e])
    BY <2>1, FS_Subset
  <2> QED  BY <2>1, <2>2, FS_CardinalityType, FS_EmptySet
<1>2. 0 \in S
  BY <1>1
<1>3. ASSUME NEW n \in Nat, n \in S PROVE n + 1 \in S
  <2> SUFFICES ASSUME NEW e \in d.els, Cardinality(d.anc[e]) <= n + 1, e # d.root PROVE e \in X
    OBVIOUS
  <2>1. d.parent[e] \in d.els /\ d.anc[e] = d.anc[d.parent[e]] \cup {e} /\ e \notin d.anc[d.parent[e]]
    BY TreeFacts
  <2>2. Cardinality(d.anc[e]) = Cardinality(d.anc[d.parent[e]]) + 1
    BY <1>1, <2>1, FS_AddElement
  <2>3. d.parent[e] \in X
    BY <1>1, <1>3, <2>1, <2>2
  <2> QED  BY <2>3
<1>4. Nat \subseteq S
  <2> HIDE DEF S
  <2> QED  BY <1>2, <1>3, InductionOnNat
<1> QED  BY <1>1, <1>4

LEMMA RootAbove ==
    ASSUME NEW d, IsTree(d), NEW e \in d.els
    PROVE  d.root \in d.anc[e]
<1> DEFINE X == {x \in d.els : d.root \in d.anc[x]}
<1>1. d.root \in X /\ \A x \in d.els \ {d.root} : d.parent[x] \in X => x \in X
  BY TreeFacts
<1> HIDE DEF X
<1>2. d.els \subseteq X
  BY <1>1, TreeInduction
<1> QED  BY <1>2 DEF X

LEMMA AncestorsInherited ==
    ASSUME NEW d, IsTree(d), NEW e \in d.els, NEW a \in d.anc[e]
    PROVE  a \in d.els /\ d.anc[a] \subseteq d.anc[e]
<1> DEFINE X == {x \in d.els : \A y \in d.anc[x] : d.anc[y] \subseteq d.anc[x]}
<1>1. d.root \in X /\ \A x \in d.els \ {d.root} : d.parent[x] \in X => x \in X
  BY TreeFacts
<1> HIDE DEF X
<1>2. d.els \subseteq X
  BY <1>1, TreeInduction
<1> QED  BY <1>2, TreeFacts DEF X

(* Of two elements above a third one is above the other, and never both.   *)
LEMMA AncestorsInLine ==
    ASSUME NEW d, IsTree(d), NEW e \in d.els, NEW a \in d.anc[e], NEW b \in d.anc[e]
    PROVE  a \in d.anc[b] \/ b \in d.anc[a]
<1> DEFINE X == {x \in d.els : \A y, z \in d.anc[x] : y \in d.anc[z] \/ z \in d.anc[y]}
<1>1. d.root \in X
  <2>1. d.root \in d.els /\ d.anc[d.root] = {d.root}
    BY DEF IsTree
  <2> QED  BY <2>1
<1>2. ASSUME NEW x \in d.els \ {d.root}, d.parent[x] \in X PROVE x \in X
  <2>1. d.anc[x] = d.anc[d.parent[x]] \cup {x} /\ x \in d.anc[x] /\ d.anc[x] \subseteq d.els
    BY TreeFacts
  <2>2. \A y \in d.anc[x] : y \in d.anc[x] /\ y \in d.anc[y]
    BY <2>1, TreeFacts
  <2> QED  BY <1>2, <2>1, <2>2
<1> HIDE DEF X
<1>3. d.els \subseteq X
  BY <1>1, <1>2, TreeInduction
<1> QED  BY <1>3 DEF X

LEMMA OneAbove ==
    ASSUME NEW d, IsTree(d), NEW a \in d.els, NEW b \in d.els, a \in d.anc[b], b \in d.anc[a]
    PROVE  a = b
<1> SUFFICES ASSUME a # b PROVE FALSE
  OBVIOUS
<1>1. b # d.root
  BY TreeFacts
<1>2. d.parent[b] \in d.els /\ a \in d.anc[d.parent[b]] /\ b \notin d.anc[d.parent[b]]
  BY <1>1, TreeFacts
<1>3. d.anc[a] \subseteq d.anc[d.parent[b]]
  BY <1>2, AncestorsInherited
<1> QED  BY <1>2, <1>3

-----------------------------------------------------------------------------
(* What the abstract specification says of a tree is what this one says.   *)
LEMMA SameTerms ==
    ASSUME NEW d, NEW e
    PROVE  /\ Abstract!Placement(d, e) = Placement(d, e)
           /\ Abstract!Nilled(d, e) <=> Nilled(d, e)
           /\ Abstract!HasSimpleContent(d, e) <=> HasSimpleContent(d, e)
           /\ Abstract!Walked(d, e) = Walked(d, e)
<1>1. Abstract!Placement(d, e) = Placement(d, e)
  BY DEF Abstract!Placement, Placement
<1>2. Abstract!Nilled(d, e) <=> Nilled(d, e)
  BY <1>1 DEF Abstract!Nilled, Nilled
<1>3. Abstract!HasSimpleContent(d, e) <=> HasSimpleContent(d, e)
  BY DEF Abstract!HasSimpleContent, HasSimpleContent
<1>4. Abstract!Walked(d, e) = Walked(d, e)
  BY <1>2 DEF Abstract!Walked, Walked
<1> QED  BY <1>1, <1>2, <1>3, <1>4

Governed(d, e) == Placement(d, e) \in {"decl", "type"}

(* e is among the children that are handed to assessChild.                 *)
HandedOver(d, e) ==
    e # d.root /\ \E i \in 1..Len(Walked(d, d.parent[e])) : Walked(d, d.parent[e])[i] = e

LEMMA WalkedIsList ==
    ASSUME NEW d, IsTree(d), NEW e \in d.els
    PROVE  /\ Walked(d, e) \in Seq(d.els) /\ Len(Walked(d, e)) \in Nat
           /\ DOMAIN Walked(d, e) = 1..Len(Walked(d, e))
           /\ ToSet(Walked(d, e)) = {Walked(d, e)[i] : i \in 1..Len(Walked(d, e))}
           /\ \A i \in 1..Len(Walked(d, e)) : /\ Walked(d, e)[i] \in d.els \ {d.root}
                                              /\ d.parent[Walked(d, e)[i]] = e
           /\ \A i, j \in 1..Len(Walked(d, e)) : Walked(d, e)[i] = Walked(d, e)[j] => i = j
<1>1. d.kids[e] \in Seq(d.els)
  BY DEF IsTree
<1>2. \A i \in 1..Len(d.kids[e]) : d.parent[d.kids[e][i]] = e /\ \A j \in 1..Len(d.kids[e]) : d.kids[e][i] = d.kids[e][j] => i = j
  BY DEF IsTree
<1>3. Walked(d, e) = d.kids[e] \/ Walked(d, e) = << >>
  BY DEF Walked
<1>4. e # NoElement /\ \A x \in d.els : d.parent[x] = NoElement <=> x = d.root
  BY DEF IsTree
<1>5. CASE Walked(d, e) = d.kids[e]
  BY <1>1, <1>2, <1>4, <1>5 DEF ToSet
<1>6. CASE Walked(d, e) = << >>
  BY <1>6 DEF ToSet
<1> QED  BY <1>3, <1>5, <1>6

LEMMA AssessedIs ==
    ASSUME NEW d, IsTree(d), NEW e \in d.els
    PROVE  e \in Abstract!Assessed(d) <=>
             Governed(d, e) /\ (e = d.root \/ (HandedOver(d, e) /\ d.parent[e] \in Abstract!Assessed(d)))
<1>1. \A x : Abstract!Entered(d, x) <=> Governed(d, x)
  BY SameTerms DEF Abstract!Entered, Governed
<1>2. \A x \in d.els : Abstract!Dispatched(d, x) <=> x = d.root \/ HandedOver(d, x)
  <2> SUFFICES ASSUME NEW x \in d.els PROVE Abstract!Dispatched(d, x) <=> x = d.root \/ HandedOver(d, x)
    OBVIOUS
  <2>1. Abstract!Dispatched(d, x) <=> x = d.root \/ x \in ToSet(Walked(d, d.parent[x]))
    BY SameTerms DEF Abstract!Dispatched, Abstract!ToSet, ToSet
  <2>2. x # d.root => ToSet(Walked(d, d.parent[x])) = {Walked(d, d.parent[x])[i] : i \in 1..Len(Walked(d, d.parent[x]))}
    BY TreeFacts, WalkedIsList
  <2> QED  BY <2>1, <2>2 DEF HandedOver
<1>3. e \in Abstract!Assessed(d) <=> \A a \in d.anc[e] : Governed(d, a) /\ (a = d.root \/ HandedOver(d, a))
  BY <1>1, <1>2, TreeFacts DEF Abstract!Assessed
<1>4. CASE e = d.root
  BY <1>3, <1>4, TreeFacts
<1>5. CASE e # d.root
  <2>1. d.parent[e] \in d.els /\ d.anc[e] = d.anc[d.parent[e]] \cup {e}
    BY <1>5, TreeFacts
  <2>2. d.parent[e] \in Abstract!Assessed(d) <=> \A a \in d.anc[d.parent[e]] : Governed(d, a) /\ (a = d.root \/ HandedOver(d, a))
    BY <1>1, <1>2, <2>1, TreeFacts DEF Abstract!Assessed
  <2> QED  BY <1>3, <1>5, <2>1, <2>2
<1> QED  BY <1>4, <1>5

LEMMA SkippedIs ==
    ASSUME NEW d, IsTree(d), NEW e \in d.els
    PROVE  e \in Abstract!Skipped(d) <=>
             Placement(d, e) = "skip" /\ d.parent[e] \in Abstract!Assessed(d) /\ HandedOver(d, e)
<1>1. e \in Abstract!Skipped(d) <=> Placement(d, e) = "skip" /\ d.parent[e] \in Abstract!Assessed(d) /\ Abstract!Dispatched(d, e)
  BY SameTerms DEF Abstract!Skipped
<1>2. d.parent[e] \in Abstract!Assessed(d) => e # d.root
  BY DEF Abstract!Assessed, IsTree
<1>3. e # d.root => (Abstract!Dispatched(d, e) <=> HandedOver(d, e))
  <2> SUFFICES ASSUME e # d.root PROVE Abstract!Dispatched(d, e) <=> HandedOver(d, e)
    OBVIOUS
  <2>1. Abstract!Dispatched(d, e) <=> e \in ToSet(Walked(d, d.parent[e]))
    BY SameTerms DEF Abstract!Dispatched, Abstract!ToSet, ToSet
  <2>2. ToSet(Walked(d, d.parent[e])) = {Walked(d, d.parent[e])[i] : i \in 1..Len(Walked(d, d.parent[e]))}
    BY TreeFacts, WalkedIsList
  <2> QED  BY <2>1, <2>2 DEF HandedOver
<1> QED  BY <1>1, <1>2, <1>3 DEF HandedOver

LEMMA AssessedBasics ==
    ASSUME NEW d
    PROVE  Abstract!Assessed(d) \subseteq d.els /\ Abstract!Skipped(d) \subseteq d.els
BY DEF Abstract!Assessed, Abstract!Skipped

-----------------------------------------------------------------------------
(* The walk visits exactly the elements that are assessed.                 *)

(* What has become of a child that was handed over.                        *)
Settled(k) ==
    /\ Governed(doc, k) => k \in visited
    /\ Placement(doc, k) = "skip" => k \in skipped

(* An element still open has handed over the children its loop index has   *)
(* passed, one that was left all of them.                                  *)
Progress ==
    /\ \A e \in doc.els : next[e] <= Len(Walked(doc, e))
    /\ \A e \in doc.els \ visited : next[e] = 0
    /\ \A e \in visited : \A i \in 1..next[e] : Settled(Walked(doc, e)[i])
    /\ \A e \in visited \ Open : next[e] = Len(Walked(doc, e))

(* Nothing else was visited or skipped.                                    *)
OnlyAssessed ==
    /\ \A e \in visited : Governed(doc, e) /\ (e = doc.root \/ (HandedOver(doc, e) /\ doc.parent[e] \in visited))
    /\ \A e \in skipped : Placement(doc, e) = "skip" /\ HandedOver(doc, e) /\ doc.parent[e] \in visited
    /\ phase # "start" /\ Governed(doc, doc.root) => doc.root \in visited

WalkOK == doc \in Docs /\ Progress /\ OnlyAssessed

LEMMA DocIsInstance == WalkOK => IsInstance(doc) /\ IsTree(doc)
BY DocsAssumption DEF WalkOK, IsInstance

(* Where a step that enters an element goes.                               *)
LEMMA ChildStep ==
    ASSUME IInv, AssessChild
    PROVE  /\ phase = "walk" /\ cur \in doc.els /\ cur \in visited /\ Child \in doc.els /\ Child # doc.root
           /\ doc.parent[Child] = cur /\ Child \notin visited
           /\ doc.anc[Child] = Open \cup {Child} /\ Open = doc.anc[cur] /\ Open' = Open \cup {Child}
           /\ next[cur] \in Nat /\ next[cur] < Len(Walked(doc, cur)) /\ Child = Walked(doc, cur)[next[cur] + 1]
           /\ Governed(doc, Child)
           /\ next' = [next EXCEPT ![cur] = @ + 1] /\ visited' = visited \cup {Child}
           /\ cur' = Child /\ Enter(Child)
           /\ UNCHANGED <<doc, leave, skipped, keyTables, pending>>
<1>1. HasChild /\ TypeOK /\ VisitedInOrder
  BY DEF IInv, AssessChild
<1>2. /\ cur \in doc.els /\ cur \in visited /\ Child \in doc.els /\ Child # doc.root
      /\ doc.parent[Child] = cur /\ next[cur] \in Nat
  BY <1>1, ChildFacts DEF TypeOK, HasChild
<1>3. Child \notin visited
  BY <1>1, ChildIsNew
<1>4. doc.anc[Child] = Open \cup {Child} /\ Open = doc.anc[cur]
  BY <1>1, <1>2, TreeFacts DEF TypeOK, HasChild, Open
<1>5. /\ Enter(Child) /\ UNCHANGED <<doc, leave, skipped, keyTables, pending>>
      /\ next' = [next EXCEPT ![cur] = @ + 1] /\ Governed(doc, Child)
  BY DEF AssessChild, Governed
<1>6. visited' = visited \cup {Child} /\ cur' = Child /\ phase' \in {"walk", "panic"}
  BY <1>5 DEF Enter
<1>7. Open' = Open \cup {Child}
  BY <1>4, <1>5, <1>6 DEF Open
<1> QED  BY <1>1, <1>2, <1>3, <1>4, <1>5, <1>6, <1>7 DEF HasChild, Child

LEMMA RootStep ==
    ASSUME IInv, AssessRoot
    PROVE  /\ doc.root \in doc.els /\ visited = {} /\ Open = {} /\ Open' = {doc.root} /\ doc.anc[doc.root] = {doc.root}
           /\ Governed(doc, doc.root) /\ visited' = {doc.root} /\ cur' = doc.root /\ Enter(doc.root)
           /\ UNCHANGED <<doc, next, leave, skipped, keyTables, pending>>
<1>1. IsTree(doc) /\ visited = {} /\ Open = {}
  BY DEF IInv, TypeOK, AssessRoot, Open
<1>2. doc.root \in doc.els /\ doc.anc[doc.root] = {doc.root}
  BY <1>1 DEF IsTree
<1>3. Enter(doc.root) /\ UNCHANGED <<doc, next, leave, skipped, keyTables, pending>> /\ Governed(doc, doc.root)
  BY DEF AssessRoot, Governed
<1>4. visited' = visited \cup {doc.root} /\ cur' = doc.root /\ phase' \in {"walk", "panic"}
  BY <1>3 DEF Enter
<1> QED  BY <1>1, <1>2, <1>3, <1>4 DEF Open

LEMMA PassStep ==
    ASSUME IInv, PassChild
    PROVE  /\ phase = "walk" /\ cur \in doc.els /\ cur \in visited /\ Child \in doc.els /\ Child # doc.root
           /\ doc.parent[Child] = cur /\ Child \notin visited
           /\ Open = doc.anc[cur] /\ Open' = Open
           /\ next[cur] \in Nat /\ next[cur] < Len(Walked(doc, cur)) /\ Child = Walked(doc, cur)[next[cur] + 1]
           /\ ~Governed(doc, Child)
           /\ next' = [next EXCEPT ![cur] = @ + 1]
           /\ skipped' = IF Placement(doc, Child) = "skip" THEN skipped \cup {Child} ELSE skipped
           /\ errs' = errs \cup PassErrs(Child)
           /\ UNCHANGED <<doc, phase, cur, clock, enter, leave, visited, keyTables, pending, ids, idrefs>>
<1>1. HasChild /\ TypeOK /\ VisitedInOrder
  BY DEF IInv, PassChild
<1>2. /\ cur \in doc.els /\ cur \in visited /\ Child \in doc.els /\ Child # doc.root
      /\ doc.parent[Child] = cur /\ next[cur] \in Nat
  BY <1>1, ChildFacts DEF TypeOK, HasChild
<1>3. Child \notin visited
  BY <1>1, ChildIsNew
<1>4. ~Governed(doc, Child)
  BY DEF PassChild, Governed
<1>5. UNCHANGED <<phase, cur, doc>>
  BY DEF PassChild
<1> QED  BY <1>1, <1>2, <1>3, <1>4, <1>5 DEF PassChild, Open, HasChild, Child

LEMMA ReturnStep ==
    ASSUME IInv, Return
    PROVE  /\ phase = "walk" /\ cur \in doc.els /\ cur \in visited
           /\ Open = doc.anc[cur] /\ cur \in Open /\ Open' = Open \ {cur}
           /\ next[cur] = Len(Walked(doc, cur))
           /\ phase' = (IF cur = doc.root THEN "keyrefs" ELSE "walk")
           /\ UNCHANGED <<doc, next, clock, enter, visited, skipped, ids, idrefs>>
<1>1. TypeOK /\ phase = "walk" /\ cur \in visited /\ cur \in doc.els
  BY DEF IInv, TypeOK, Return
<1>2. /\ UNCHANGED <<doc, next, clock, enter, visited, skipped, ids, idrefs>>
      /\ cur' = doc.parent[cur] /\ next[cur] = Len(Walked(doc, cur))
      /\ phase' = IF cur = doc.root THEN "keyrefs" ELSE "walk"
  BY DEF Return, PhaseAfterReturn
<1>3. cur # doc.root => /\ doc.parent[cur] \in doc.els
                        /\ doc.anc[cur] = doc.anc[doc.parent[cur]] \cup {cur}
                        /\ cur \notin doc.anc[doc.parent[cur]]
  BY <1>1, TreeFacts DEF TypeOK
<1>4. cur \in doc.anc[cur] /\ doc.anc[doc.root] = {doc.root}
  BY <1>1, TreeFacts DEF TypeOK
<1> QED BY <1>1, <1>2, <1>3, <1>4 DEF Open

LEMMA InitWalk == Init => WalkOK
<1> SUFFICES ASSUME Init PROVE WalkOK
  OBVIOUS
<1>1. doc \in Docs /\ IsTree(doc) /\ next = [e \in doc.els |-> 0] /\ visited = {} /\ skipped = {} /\ phase = "start"
  BY DocsAssumption DEF Init, IsInstance
<1>2. \A e \in doc.els : Len(Walked(doc, e)) \in Nat
  BY <1>1, WalkedIsList
<1> QED  BY <1>1, <1>2 DEF WalkOK, Progress, OnlyAssessed

LEMMA EnterWalk ==
    ASSUME IInv, WalkOK, NEW e \in doc.els, e \notin visited, visited' = visited \cup {e}, Governed(doc, e),
           Open' = Open \cup {e}, UNCHANGED <<doc, skipped>>, phase # "start" \/ e = doc.root,
           \/ e = doc.root /\ next' = next
           \/ /\ e # doc.root /\ doc.parent[e] = cur /\ cur \in doc.els /\ cur \in visited /\ cur \in Open
              /\ next[cur] \in Nat /\ next[cur] < Len(Walked(doc, cur)) /\ e = Walked(doc, cur)[next[cur] + 1]
              /\ next' = [next EXCEPT ![cur] = @ + 1]
    PROVE  WalkOK'
<1>1. IsTree(doc) /\ next \in [doc.els -> Nat] /\ visited \subseteq doc.els
  BY DEF IInv, TypeOK
<1>2. \A x \in doc.els : Len(Walked(doc, x)) \in Nat
  BY <1>1, WalkedIsList
<1>3. next' \in [doc.els -> Nat] /\ \A x \in doc.els : next'[x] = next[x] \/ (x = cur /\ e # doc.root /\ next'[x] = next[x] + 1)
  BY <1>1
<1>4. OnlyAssessed'
  <2>1. e = doc.root \/ (HandedOver(doc, e) /\ cur \in visited)
    BY <1>2 DEF HandedOver
  <2> QED  BY <2>1 DEF WalkOK, OnlyAssessed
<1>5. \A x \in doc.els : next'[x] <= Len(Walked(doc, x))
  BY <1>1, <1>2, <1>3 DEF WalkOK, Progress
<1>6. \A x \in doc.els \ visited' : next'[x] = 0
  BY <1>1, <1>3 DEF WalkOK, Progress
<1>7. \A x \in visited' : \A i \in 1..next'[x] : Settled(Walked(doc, x)[i])'
  <2> SUFFICES ASSUME NEW x \in visited', NEW i \in 1..next'[x] PROVE Settled(Walked(doc, x)[i])'
    OBVIOUS
  <2>1. CASE i \in 1..next[x] /\ x # e
    <3>1. Settled(Walked(doc, x)[i])
      BY <2>1 DEF WalkOK, Progress
    <3> QED  BY <3>1 DEF Settled
  <2>2. CASE x = e
    BY <1>1, <1>3, <2>2 DEF WalkOK, Progress
  <2>3. CASE x # e /\ i \notin 1..next[x]
    <3>1. x = cur /\ i = next[cur] + 1 /\ e = Walked(doc, cur)[next[cur] + 1]
      BY <1>1, <1>3, <2>3
    <3> QED  BY <3>1 DEF Settled, Governed
  <2> QED  BY <2>1, <2>2, <2>3
<1>8. \A x \in visited' \ Open' : next'[x] = Len(Walked(doc, x))
  BY <1>1, <1>3 DEF WalkOK, Progress
<1> QED  BY <1>4, <1>5, <1>6, <1>7, <1>8 DEF WalkOK, Progress

LEMMA QuietWalk ==
    ASSUME IInv, WalkOK, UNCHANGED <<doc, next, visited, skipped>>, Open' = Open,
           phase = "start" => phase' = "start" \/ ~Governed(doc, doc.root)
    PROVE  WalkOK'
<1>1. \A k : Settled(k)' <=> Settled(k)
  BY DEF Settled
<1> QED  BY <1>1 DEF WalkOK, Progress, OnlyAssessed

LEMMA NextWalk == IInv /\ WalkOK /\ [Next]_vars => WalkOK'
<1> SUFFICES ASSUME IInv, WalkOK, [Next]_vars PROVE WalkOK'
  OBVIOUS
<1>1. CASE AssessRoot
  BY <1>1, RootStep, EnterWalk
<1>2. CASE AssessChild
  <2>1. cur \in Open
    BY <1>2, ChildStep, TreeFacts DEF IInv, TypeOK
  <2> QED  BY <1>2, <2>1, ChildStep, EnterWalk
<1>3. CASE PassChild
  <2>1. /\ phase = "walk" /\ cur \in doc.els /\ cur \in visited /\ Open' = Open /\ doc.parent[Child] = cur /\ Child # doc.root
        /\ next[cur] \in Nat /\ next[cur] < Len(Walked(doc, cur)) /\ Child = Walked(doc, cur)[next[cur] + 1]
        /\ ~Governed(doc, Child) /\ next' = [next EXCEPT ![cur] = @ + 1]
        /\ skipped' = IF Placement(doc, Child) = "skip" THEN skipped \cup {Child} ELSE skipped
        /\ UNCHANGED <<doc, phase, visited>> /\ cur \in Open
    BY <1>3, PassStep, TreeFacts DEF IInv, TypeOK
  <2>2. IsTree(doc) /\ next \in [doc.els -> Nat] /\ visited \subseteq doc.els
    BY DEF IInv, TypeOK
  <2>3. \A x \in doc.els : Len(Walked(doc, x)) \in Nat
    BY <2>2, WalkedIsList
  <2>4. next' \in [doc.els -> Nat] /\ \A x \in doc.els : next'[x] = next[x] \/ (x = cur /\ next'[x] = next[x] + 1)
    BY <2>1, <2>2
  <2>5. OnlyAssessed'
    <3>1. HandedOver(doc, Child)
      BY <2>1, <2>3 DEF HandedOver
    <3> QED  BY <2>1, <3>1 DEF WalkOK, OnlyAssessed
  <2>6. \A x \in doc.els : next'[x] <= Len(Walked(doc, x))
    BY <2>1, <2>2, <2>3, <2>4 DEF WalkOK, Progress
  <2>7. \A x \in doc.els \ visited' : next'[x] = 0
    BY <2>1, <2>2, <2>4 DEF WalkOK, Progress
  <2>8. \A x \in visited' : \A i \in 1..next'[x] : Settled(Walked(doc, x)[i])'
    <3> SUFFICES ASSUME NEW x \in visited, NEW i \in 1..next'[x] PROVE Settled(Walked(doc, x)[i])'
      BY <2>1
    <3>1. CASE i \in 1..next[x]
      <4>1. Settled(Walked(doc, x)[i])
        BY <3>1 DEF WalkOK, Progress
      <4> QED  BY <2>1, <4>1 DEF Settled
    <3>2. CASE i \notin 1..next[x]
      <4>1. x = cur /\ i = next[cur] + 1 /\ Walked(doc, x)[i] = Child
        BY <2>1, <2>2, <2>4, <3>2
      <4> QED  BY <2>1, <4>1 DEF Settled
    <3> QED  BY <3>1, <3>2
  <2>9. \A x \in visited' \ Open' : next'[x] = Len(Walked(doc, x))
    BY <2>1, <2>2, <2>4 DEF WalkOK, Progress
  <2> QED  BY <2>1, <2>5, <2>6, <2>7, <2>8, <2>9 DEF WalkOK, Progress
<1>4. CASE Return
  <2>1. /\ phase = "walk" /\ Open' = Open \ {cur} /\ next[cur] = Len(Walked(doc, cur))
        /\ phase' # "start" /\ UNCHANGED <<doc, next, visited, skipped>>
    BY <1>4, ReturnStep
  <2>2. \A k : Settled(k)' <=> Settled(k)
    BY <2>1 DEF Settled
  <2> QED  BY <2>1, <2>2 DEF WalkOK, Progress, OnlyAssessed
<1>5. CASE RejectRoot
  <2>1. ~Governed(doc, doc.root) /\ UNCHANGED <<doc, next, visited, skipped>> /\ Open' = Open
    BY <1>5 DEF RejectRoot, walkVars, Governed, Open
  <2> QED  BY <2>1, QuietWalk
<1>6. ASSUME NEW pk \in pending, FlushKeyref(pk) PROVE WalkOK'
  <2>1. phase # "start" /\ UNCHANGED <<doc, next, visited, skipped>> /\ Open' = Open
    BY <1>6 DEF FlushKeyref, walkVars, Open
  <2> QED  BY <2>1, QuietWalk
<1>7. CASE KeyrefsDone
  <2>1. phase # "start" /\ UNCHANGED <<doc, next, visited, skipped>> /\ Open' = Open
    BY <1>7 DEF KeyrefsDone, walkVars, Open
  <2> QED  BY <2>1, QuietWalk
<1>8. ASSUME NEW r \in idrefs, CheckIDRef(r) PROVE WalkOK'
  <2>1. phase # "start" /\ UNCHANGED <<doc, next, visited, skipped>> /\ Open' = Open
    BY <1>8 DEF CheckIDRef, walkVars, Open
  <2> QED  BY <2>1, QuietWalk
<1>9. CASE Finish
  <2>1. phase # "start" /\ UNCHANGED <<doc, next, visited, skipped>> /\ Open' = Open
    BY <1>9 DEF Finish, walkVars, Open
  <2> QED  BY <2>1, QuietWalk
<1>10. CASE UNCHANGED vars
  <2>1. UNCHANGED <<doc, next, visited, skipped, phase>> /\ Open' = Open
    BY <1>10 DEF vars, walkVars, Open
  <2> QED  BY <2>1, QuietWalk
<1> QED  BY <1>1, <1>2, <1>3, <1>4, <1>5, <1>6, <1>7, <1>8, <1>9, <1>10 DEF Next

LEMMA VisitedIsAssessed ==
    ASSUME IInv, WalkOK
    PROVE  visited \subseteq Abstract!Assessed(doc) /\ skipped \subseteq Abstract!Skipped(doc)
           /\ visited \cap skipped = {} /\ visited \subseteq doc.els /\ skipped \subseteq doc.els
<1> DEFINE X == {x \in doc.els : x \in visited => x \in Abstract!Assessed(doc)}
<1>1. IsTree(doc) /\ visited \subseteq doc.els /\ skipped \subseteq doc.els /\ doc.root \in doc.els
  BY DEF IInv, TypeOK, IsTree
<1>2. doc.root \in X
  BY <1>1, AssessedIs DEF WalkOK, OnlyAssessed
<1>3. ASSUME NEW x \in doc.els \ {doc.root}, doc.parent[x] \in X PROVE x \in X
  BY <1>1, <1>3, AssessedIs DEF WalkOK, OnlyAssessed
<1> HIDE DEF X
<1>4. doc.els \subseteq X
  BY <1>1, <1>2, <1>3, TreeInduction
<1>5. visited \subseteq Abstract!Assessed(doc)
  BY <1>1, <1>4 DEF X
<1>6. skipped \subseteq Abstract!Skipped(doc)
  BY <1>1, <1>5, SkippedIs DEF WalkOK, OnlyAssessed
<1>7. visited \cap skipped = {}
  BY DEF WalkOK, OnlyAssessed, Governed
<1> QED  BY <1>1, <1>5, <1>6, <1>7

(* Below an element whose subtree has been walked nothing is missing.      *)
LEMMA SubtreeDone ==
    ASSUME IInv, WalkOK, NEW s \in visited,
           \A x \in visited : s \in doc.anc[x] => next[x] = Len(Walked(doc, x)),
           NEW y \in doc.els, s \in doc.anc[y]
    PROVE  (y \in visited <=> y \in Abstract!Assessed(doc)) /\ (y \in skipped <=> y \in Abstract!Skipped(doc))
<1> DEFINE X == {x \in doc.els : s \in doc.anc[x] /\ x \in Abstract!Assessed(doc) => x \in visited}
<1>1. IsTree(doc) /\ visited \subseteq doc.els /\ doc.root \in doc.els /\ doc.anc[doc.root] = {doc.root}
  BY DEF IInv, TypeOK, IsTree
<1>2. visited \subseteq Abstract!Assessed(doc) /\ skipped \subseteq Abstract!Skipped(doc)
  BY VisitedIsAssessed
<1>3. doc.root \in X
  BY <1>1
<1>4. ASSUME NEW x \in doc.els, HandedOver(doc, x), doc.parent[x] \in visited, s \in doc.anc[doc.parent[x]]
      PROVE  Settled(x)
  <2>1. PICK i \in 1..Len(Walked(doc, doc.parent[x])) : Walked(doc, doc.parent[x])[i] = x
    BY <1>4 DEF HandedOver
  <2>2. i \in 1..next[doc.parent[x]]
    BY <1>4, <2>1
  <2> QED  BY <1>4, <2>1, <2>2 DEF WalkOK, Progress
<1>5. \A x \in doc.els : s \in doc.anc[x] => x = s \/ (x # doc.root /\ s \in doc.anc[doc.parent[x]] /\ doc.parent[x] \in doc.els)
  BY <1>1, TreeFacts
<1>6. ASSUME NEW x \in doc.els \ {doc.root}, doc.parent[x] \in X PROVE x \in X
  <2> SUFFICES ASSUME s \in doc.anc[x], x \in Abstract!Assessed(doc), x # s PROVE x \in visited
    OBVIOUS
  <2>1. Governed(doc, x) /\ HandedOver(doc, x) /\ doc.parent[x] \in Abstract!Assessed(doc)
    BY <1>1, AssessedIs
  <2>2. s \in doc.anc[doc.parent[x]] /\ doc.parent[x] \in visited
    BY <1>5, <1>6, <2>1
  <2> QED  BY <1>4, <2>1, <2>2 DEF Settled
<1> HIDE DEF X
<1>7. doc.els \subseteq X
  BY <1>1, <1>3, <1>6, TreeInduction
<1>8. ASSUME y \in Abstract!Skipped(doc) PROVE y \in skipped
  <2>1. Placement(doc, y) = "skip" /\ doc.parent[y] \in Abstract!Assessed(doc) /\ HandedOver(doc, y)
    BY <1>1, <1>8, SkippedIs
  <2>2. y # s
    BY <2>1 DEF WalkOK, OnlyAssessed, Governed
  <2>3. s \in doc.anc[doc.parent[y]] /\ doc.parent[y] \in visited
    BY <1>5, <1>7, <2>1, <2>2 DEF X
  <2> QED  BY <1>4, <2>1, <2>3 DEF Settled
<1> QED  BY <1>2, <1>7, <1>8 DEF X

LEMMA ReturnDone ==
    ASSUME IInv, WalkOK, Return, NEW y \in doc.els, cur \in doc.anc[y]
    PROVE  (y \in visited <=> y \in Abstract!Assessed(doc)) /\ (y \in skipped <=> y \in Abstract!Skipped(doc))
<1>1. cur \in doc.els /\ cur \in visited /\ Open = doc.anc[cur] /\ next[cur] = Len(Walked(doc, cur))
  BY ReturnStep
<1>2. IsTree(doc) /\ visited \subseteq doc.els
  BY DEF IInv, TypeOK
<1>3. ASSUME NEW x \in visited, cur \in doc.anc[x] PROVE next[x] = Len(Walked(doc, x))
  <2>1. x \in Open => x = cur
    BY <1>1, <1>2, <1>3, OneAbove
  <2> QED  BY <1>1, <2>1 DEF WalkOK, Progress
<1> QED  BY <1>1, <1>3, SubtreeDone

LEMMA WalkDone ==
    ASSUME IInv, WalkOK, phase \in {"keyrefs", "idrefs", "done"}
    PROVE  visited = Abstract!Assessed(doc) /\ skipped = Abstract!Skipped(doc)
<1>1. IsTree(doc) /\ visited \subseteq doc.els /\ skipped \subseteq doc.els /\ doc.root \in doc.els /\ Open = {}
  BY DEF IInv, TypeOK, Open, IsTree
<1>2. Abstract!Assessed(doc) \subseteq doc.els /\ Abstract!Skipped(doc) \subseteq doc.els
  BY AssessedBasics
<1>3. CASE Governed(doc, doc.root)
  <2>1. doc.root \in visited
    BY <1>3 DEF WalkOK, OnlyAssessed
  <2>2. \A x \in visited : next[x] = Len(Walked(doc, x))
    BY <1>1 DEF WalkOK, Progress
  <2>3. \A y \in doc.els : (y \in visited <=> y \in Abstract!Assessed(doc)) /\ (y \in skipped <=> y \in Abstract!Skipped(doc))
    BY <1>1, <2>1, <2>2, SubtreeDone, RootAbove
  <2> QED  BY <1>1, <1>2, <2>3
<1>4. CASE ~Governed(doc, doc.root)
  <2> DEFINE X == {x \in doc.els : x \notin Abstract!Assessed(doc)}
  <2>1. doc.root \in X /\ \A x \in doc.els \ {doc.root} : doc.parent[x] \in X => x \in X
    BY <1>1, <1>4, AssessedIs
  <2> HIDE DEF X
  <2>2. doc.els \subseteq X
    BY <1>1, <2>1, TreeInduction
  <2>3. Abstract!Assessed(doc) = {}
    BY <1>2, <2>2 DEF X
  <2>4. Abstract!Skipped(doc) = {}
    BY <1>1, <1>2, <2>3, SkippedIs
  <2> QED  BY <2>3, <2>4, VisitedIsAssessed
<1> QED  BY <1>3, <1>4

-----------------------------------------------------------------------------
(* Errors, by kind.                                                        *)
LEMMA ErrorKinds ==
    ASSUME NEW d, NEW e
    PROVE  /\ \A x \in ContentErrs(d, e) : x.kind \in {"value", "nilled-content", "particle", "no-children"} /\ x.at = e
           /\ \A x \in IDErrs(d, e) : x.kind \in {"id-duplicate", "id-unbound"} /\ x.at = e
           /\ \A x \in ConstraintErrs(d, e) : x.kind \in {"ic-many", "ic-missing", "ic-duplicate"} /\ x.at = e
           /\ \A x \in EDCErrs(d, e) : x.kind = "edc" /\ x.at = e
           /\ \A k : \A x \in PassErrs(k) : x.kind = "no-declaration" /\ x.at = k
<1>1. \A x \in ContentErrs(d, e) : x.kind \in {"value", "nilled-content", "particle", "no-children"} /\ x.at = e
  BY DEF ContentErrs, Error
<1>2. \A x \in IDErrs(d, e) : x.kind \in {"id-duplicate", "id-unbound"} /\ x.at = e
  BY DEF IDErrs, Error
<1>3. \A ic : \A x \in EvalConstraint(d, e, ic).errs : x.kind \in {"ic-many", "ic-missing", "ic-duplicate"} /\ x.at = e
  BY DEF EvalConstraint, Error
<1>4. \A x \in ConstraintErrs(d, e) : x.kind \in {"ic-many", "ic-missing", "ic-duplicate"} /\ x.at = e
  BY <1>3 DEF ConstraintErrs
<1>5. (\A x \in EDCErrs(d, e) : x.kind = "edc" /\ x.at = e) /\ (\A k : \A x \in PassErrs(k) : x.kind = "no-declaration" /\ x.at = k)
  BY DEF EDCErrs, PassErrs, Error
<1> QED  BY <1>1, <1>2, <1>4, <1>5

ErrorOf(kind) == \E x \in errs : x.kind = kind

-----------------------------------------------------------------------------
(* IDs: what the table holds and what was found when it was filled.        *)
LEMMA HarvestList ==
    ASSUME NEW d, IsInstance(d), NEW e \in d.els
    PROVE  /\ \E n \in Nat : DOMAIN Harvest(d, e) = 1..n
           /\ \A i \in DOMAIN Harvest(d, e) :
                 \/ \E j \in DOMAIN d.attrs[e] :
                       Harvest(d, e)[i] = [k |-> d.attrs[e][j].k, v |-> d.attrs[e][j].v, owner |-> e, at |-> e]
                 \/ /\ HasSimpleContent(d, e) /\ ~Nilled(d, e)
                    /\ \E j \in DOMAIN d.text[e] :
                          Harvest(d, e)[i] = [k |-> d.text[e][j].k, v |-> d.text[e][j].v, owner |-> d.parent[e], at |-> e]
           /\ \A j \in DOMAIN d.attrs[e] : \E i \in DOMAIN Harvest(d, e) :
                 Harvest(d, e)[i] = [k |-> d.attrs[e][j].k, v |-> d.attrs[e][j].v, owner |-> e, at |-> e]
           /\ HasSimpleContent(d, e) /\ ~Nilled(d, e) => \A j \in DOMAIN d.text[e] : \E i \in DOMAIN Harvest(d, e) :
                 Harvest(d, e)[i] = [k |-> d.text[e][j].k, v |-> d.text[e][j].v, owner |-> d.parent[e], at |-> e]
<1> DEFINE Bind(items, o) == [i \in DOMAIN items |-> [k |-> items[i].k, v |-> items[i].v, owner |-> o, at |-> e]]
           A == Bind(d.attrs[e], e)
           T == IF HasSimpleContent(d, e) /\ ~Nilled(d, e) THEN Bind(d.text[e], d.parent[e]) ELSE << >>
           R == {A[i] : i \in DOMAIN A} \cup {T[i] : i \in DOMAIN T}
<1>1. IsList(d.attrs[e]) /\ IsList(d.text[e])
  BY DEF IsInstance
<1>2. Len(d.attrs[e]) \in Nat /\ DOMAIN d.attrs[e] = 1..Len(d.attrs[e]) /\ Len(d.text[e]) \in Nat /\ DOMAIN d.text[e] = 1..Len(d.text[e])
  BY <1>1 DEF IsList
<1>3. Harvest(d, e) = A \o T
  BY DEF Harvest
<1>4. A \in Seq(R) /\ Len(A) = Len(d.attrs[e]) /\ DOMAIN A = DOMAIN d.attrs[e]
  <2>1. A \in [1..Len(d.attrs[e]) -> R] /\ DOMAIN A = DOMAIN d.attrs[e]
    BY <1>2
  <2> HIDE DEF A, R
  <2> QED  BY <1>2, <2>1
<1>5. T \in Seq(R) /\ (HasSimpleContent(d, e) /\ ~Nilled(d, e) => Len(T) = Len(d.text[e]) /\ DOMAIN T = DOMAIN d.text[e])
      /\ (~(HasSimpleContent(d, e) /\ ~Nilled(d, e)) => Len(T) = 0 /\ DOMAIN T = {})
  <2>1. CASE HasSimpleContent(d, e) /\ ~Nilled(d, e)
    <3>1. T = [i \in DOMAIN d.text[e] |-> [k |-> d.text[e][i].k, v |-> d.text[e][i].v, owner |-> d.parent[e], at |-> e]]
      BY <2>1
    <3>2. T \in [1..Len(d.text[e]) -> {T[i] : i \in DOMAIN T}] /\ DOMAIN T = DOMAIN d.text[e]
      BY <1>2, <3>1
    <3>3. T \in [1..Len(d.text[e]) -> R]
      BY <3>2
    <3> HIDE DEF T, R
    <3> QED  BY <1>2, <2>1, <3>2, <3>3
  <2>2. CASE ~(HasSimpleContent(d, e) /\ ~Nilled(d, e))
    <3>1. T = << >>
      BY <2>2
    <3> HIDE DEF T, R
    <3> QED  BY <2>2, <3>1
  <2> QED  BY <2>1, <2>2
<1>6. \A j \in DOMAIN A : A[j] = [k |-> d.attrs[e][j].k, v |-> d.attrs[e][j].v, owner |-> e, at |-> e]
  OBVIOUS
<1>7. \A j \in DOMAIN T : HasSimpleContent(d, e) /\ ~Nilled(d, e) /\ T[j] = [k |-> d.text[e][j].k, v |-> d.text[e][j].v, owner |-> d.parent[e], at |-> e]
  BY <1>5
<1> HIDE DEF A, T, R
<1>8. /\ DOMAIN (A \o T) = 1..(Len(A) + Len(T)) /\ Len(A) \in Nat /\ Len(T) \in Nat
      /\ DOMAIN A = 1..Len(A) /\ DOMAIN T = 1..Len(T)
      /\ \A i \in 1..(Len(A) + Len(T)) : (A \o T)[i] = IF i <= Len(A) THEN A[i] ELSE T[i - Len(A)]
  BY <1>4, <1>5, SMTT(20)
<1>9. \A i \in DOMAIN (A \o T) : (\E j \in DOMAIN A : (A \o T)[i] = A[j]) \/ (\E j \in DOMAIN T : (A \o T)[i] = T[j])
  <2> SUFFICES ASSUME NEW i \in DOMAIN (A \o T) PROVE (\E j \in DOMAIN A : (A \o T)[i] = A[j]) \/ (\E j \in DOMAIN T : (A \o T)[i] = T[j])
    OBVIOUS
  <2>1. CASE i <= Len(A)
    BY <1>8, <2>1
  <2>2. CASE i > Len(A)
    <3>1. i - Len(A) \in DOMAIN T /\ (A \o T)[i] = T[i - Len(A)]
      BY <1>8, <2>2
    <3> QED  BY <3>1
  <2> QED  BY <1>8, <2>1, <2>2
<1>10. (\A j \in DOMAIN A : j \in DOMAIN (A \o T) /\ (A \o T)[j] = A[j])
       /\ (\A j \in DOMAIN T : j + Len(A) \in DOMAIN (A \o T) /\ (A \o T)[j + Len(A)] = T[j])
  BY <1>8
<1>11. (\A j \in DOMAIN A : \E i \in DOMAIN (A \o T) : (A \o T)[i] = A[j]) /\ (\A j \in DOMAIN T : \E i \in DOMAIN (A \o T) : (A \o T)[i] = T[j])
  BY <1>10
<1>12. \E n \in Nat : DOMAIN Harvest(d, e) = 1..n
  BY <1>3, <1>8
<1>13. \A i \in DOMAIN Harvest(d, e) :
                 \/ \E j \in DOMAIN d.attrs[e] :
                       Harvest(d, e)[i] = [k |-> d.attrs[e][j].k, v |-> d.attrs[e][j].v, owner |-> e, at |-> e]
                 \/ /\ HasSimpleContent(d, e) /\ ~Nilled(d, e)
                    /\ \E j \in DOMAIN d.text[e] :
                          Harvest(d, e)[i] = [k |-> d.text[e][j].k, v |-> d.text[e][j].v, owner |-> d.parent[e], at |-> e]
  BY <1>3, <1>4, <1>5, <1>6, <1>7, <1>9, ZenonT(20)
<1>14. \A j \in DOMAIN d.attrs[e] : \E i \in DOMAIN Harvest(d, e) :
                 Harvest(d, e)[i] = [k |-> d.attrs[e][j].k, v |-> d.attrs[e][j].v, owner |-> e, at |-> e]
  BY <1>3, <1>4, <1>6, <1>11
<1>15. HasSimpleContent(d, e) /\ ~Nilled(d, e) => \A j \in DOMAIN d.text[e] : \E i \in DOMAIN Harvest(d, e) :
                 Harvest(d, e)[i] = [k |-> d.text[e][j].k, v |-> d.text[e][j].v, owner |-> d.parent[e], at |-> e]
  BY <1>3, <1>5, <1>7, <1>11
<1> QED  BY <1>12, <1>13, <1>14, <1>15

(* The IDs and references harvested from the elements V.                   *)
IDsOf(d, e) == {<<Harvest(d, e)[i].v, Harvest(d, e)[i].owner>> : i \in IDItems(d, e)}
Bound(d, V) == UNION {IDsOf(d, e) : e \in V}
Refs(d, V)  == UNION {IDRefItems(d, e) : e \in V}

(* The first bearer of a value found on e is one of its bearers.           *)
LEMMA FirstIsBearer ==
    ASSUME NEW d, IsInstance(d), NEW e \in d.els, NEW i \in IDItems(d, e)
    PROVE  <<Harvest(d, e)[i].v, FirstBearer(d, e, Harvest(d, e)[i].v)>> \in IDsOf(d, e)
<1> DEFINE v == Harvest(d, e)[i].v
           S == {j \in IDItems(d, e) : Harvest(d, e)[j].v = v}
<1>1. S \subseteq Nat /\ i \in S
  BY HarvestList DEF IDItems
<1>2. \E j \in S : \A k \in S : j <= k
  BY <1>1, LeastNumber
<1>3. (CHOOSE j \in S : \A k \in S : j <= k) \in S
  BY <1>2
<1> QED  BY <1>3 DEF FirstBearer, IDsOf

(* The table after e was entered.                                          *)
LEMMA BearersIs ==
    ASSUME NEW d, IsInstance(d), NEW e \in d.els
    PROVE  /\ \A v : v \in DOMAIN Bearers(d, e) <=> v \in DOMAIN ids \/ \E p \in IDsOf(d, e) : p[1] = v
           /\ \A v \in DOMAIN ids : Bearers(d, e)[v] = ids[v]
           /\ \A v \in DOMAIN Bearers(d, e) \ DOMAIN ids : <<v, Bearers(d, e)[v]>> \in IDsOf(d, e)
           /\ (\E x \in IDErrs(d, e) : x.kind = "id-duplicate") <=> \E p \in IDsOf(d, e) : p[2] # Bearers(d, e)[p[1]]
           /\ (\E x \in IDErrs(d, e) : x.kind = "idref") <=> FALSE
<1>0. /\ \A i \in IDItems(d, e) : <<Harvest(d, e)[i].v, Harvest(d, e)[i].owner>> \in IDsOf(d, e)
      /\ \A p \in IDsOf(d, e) : \E i \in IDItems(d, e) : p[1] = Harvest(d, e)[i].v /\ p[2] = Harvest(d, e)[i].owner
  BY DEF IDsOf
<1>1. \A v \in DOMAIN ids : Bearers(d, e)[v] = ids[v]
  BY DEF Bearers
<1>2. \A v : v \in DOMAIN Bearers(d, e) <=> v \in DOMAIN ids \/ \E p \in IDsOf(d, e) : p[1] = v
  <2>1. DOMAIN Bearers(d, e) = DOMAIN ids \cup {Harvest(d, e)[i].v : i \in IDItems(d, e)}
    BY DEF Bearers
  <2>2. \A v : v \in {Harvest(d, e)[i].v : i \in IDItems(d, e)} <=> \E i \in IDItems(d, e) : Harvest(d, e)[i].v = v
    OBVIOUS
  <2>3. \A v : v \in {Harvest(d, e)[i].v : i \in IDItems(d, e)} <=> \E p \in IDsOf(d, e) : p[1] = v
    <3> SUFFICES ASSUME NEW v PROVE (\E i \in IDItems(d, e) : Harvest(d, e)[i].v = v) <=> \E p \in IDsOf(d, e) : p[1] = v
      BY <2>2
    <3>1. ASSUME NEW i \in IDItems(d, e), Harvest(d, e)[i].v = v PROVE \E p \in IDsOf(d, e) : p[1] = v
      <4>1. <<Harvest(d, e)[i].v, Harvest(d, e)[i].owner>> \in IDsOf(d, e)
        BY <1>0, <3>1
      <4> QED  BY <3>1, <4>1
    <3>2. ASSUME NEW p \in IDsOf(d, e), p[1] = v PROVE \E i \in IDItems(d, e) : Harvest(d, e)[i].v = v
      BY <1>0, <3>2
    <3> QED  BY <3>1, <3>2
  <2> QED  BY <2>1, <2>3
<1>3. ASSUME NEW v \in DOMAIN Bearers(d, e) \ DOMAIN ids PROVE <<v, Bearers(d, e)[v]>> \in IDsOf(d, e)
  <2>1. Bearers(d, e)[v] = FirstBearer(d, e, v)
    BY <1>3 DEF Bearers
  <2>2. PICK i \in IDItems(d, e) : Harvest(d, e)[i].v = v
    BY <1>3 DEF Bearers
  <2> QED  BY <2>1, <2>2, FirstIsBearer
<1>4. (\E x \in IDErrs(d, e) : x.kind = "id-duplicate") <=> \E p \in IDsOf(d, e) : p[2] # Bearers(d, e)[p[1]]
  <2>1. (\E x \in IDErrs(d, e) : x.kind = "id-duplicate") <=> \E i \in IDItems(d, e) : Harvest(d, e)[i].owner # Bearers(d, e)[Harvest(d, e)[i].v]
    <3> DEFINE dup == \E i \in IDItems(d, e) : Harvest(d, e)[i].owner # Bearers(d, e)[Harvest(d, e)[i].v]
               unb == \E i \in DOMAIN Harvest(d, e) : Harvest(d, e)[i].k = "ID" /\ Harvest(d, e)[i].owner = NoElement
    <3>1. IDErrs(d, e) = (IF dup THEN {Error("id-duplicate", e)} ELSE {}) \cup (IF unb THEN {Error("id-unbound", e)} ELSE {})
      BY DEF IDErrs
    <3> HIDE DEF dup, unb
    <3>2. (\E x \in IDErrs(d, e) : x.kind = "id-duplicate") <=> dup
      <4> DEFINE E1 == Error("id-duplicate", e)
                 E2 == Error("id-unbound", e)
      <4>1. E1.kind = "id-duplicate" /\ E2.kind = "id-unbound"
        BY DEF Error
      <4> HIDE DEF E1, E2
      <4>2. CASE dup
        <5>1. E1 \in IDErrs(d, e)
          BY <3>1, <4>2 DEF E1
        <5> QED  BY <4>1, <4>2, <5>1
      <4>3. CASE ~dup
        <5>1. \A x \in IDErrs(d, e) : x = E2
          BY <3>1, <4>3 DEF E2
        <5> QED  BY <4>1, <4>3, <5>1
      <4> QED  BY <4>2, <4>3
    <3> QED  BY <3>2 DEF dup
  <2>2. ASSUME NEW i \in IDItems(d, e), Harvest(d, e)[i].owner # Bearers(d, e)[Harvest(d, e)[i].v]
        PROVE  \E p \in IDsOf(d, e) : p[2] # Bearers(d, e)[p[1]]
    <3>1. <<Harvest(d, e)[i].v, Harvest(d, e)[i].owner>> \in IDsOf(d, e)
      BY <1>0
    <3> QED  BY <2>2, <3>1
  <2> QED  BY <1>0, <2>1, <2>2
<1> QED  BY <1>1, <1>2, <1>3, <1>4, ErrorKinds

BearersOK ==
    /\ \A v : v \in DOMAIN ids <=> \E p \in Bound(doc, visited) : p[1] = v
    /\ \A v \in DOMAIN ids : <<v, ids[v]>> \in Bound(doc, visited)
    /\ ErrorOf("id-duplicate") <=> \E p \in Bound(doc, visited) : p[2] # ids[p[1]]

RefsOK ==
    /\ idrefs \subseteq Refs(doc, visited)
    /\ phase \in {"start", "walk", "panic", "keyrefs"} => idrefs = Refs(doc, visited)
    /\ phase = "done" => idrefs = {}
    /\ ErrorOf("idref") <=> \E r \in Refs(doc, visited) \ idrefs : r.v \notin DOMAIN ids

IDsOK == BearersOK /\ RefsOK

LEMMA InitIDs == Init => IDsOK
<1> SUFFICES ASSUME Init PROVE IDsOK
  OBVIOUS
<1>1. visited = {} /\ errs = {} /\ idrefs = {} /\ phase = "start" /\ DOMAIN ids = {}
  BY DEF Init
<1>2. Bound(doc, visited) = {} /\ Refs(doc, visited) = {}
  BY <1>1 DEF Bound, Refs
<1> QED  BY <1>1, <1>2 DEF IDsOK, BearersOK, RefsOK, ErrorOf

LEMMA EnterIDs ==
    ASSUME IInv, WalkOK, IDsOK, NEW e \in doc.els, Enter(e), doc' = doc, phase \in {"start", "walk"}
    PROVE  IDsOK'
<1>1. IsInstance(doc)
  BY DocIsInstance
<1>2. /\ ids' = Bearers(doc, e) /\ idrefs' = idrefs \cup IDRefItems(doc, e) /\ phase' \in {"walk", "panic"}
      /\ errs' = errs \cup IDErrs(doc, e) \cup ContentErrs(doc, e) /\ visited' = visited \cup {e}
  BY DEF Enter
<1>3. Bound(doc, visited') = Bound(doc, visited) \cup IDsOf(doc, e) /\ Refs(doc, visited') = Refs(doc, visited) \cup IDRefItems(doc, e)
  BY <1>2 DEF Bound, Refs
<1>4. Bound(doc, visited)' = Bound(doc, visited') /\ Refs(doc, visited)' = Refs(doc, visited')
  BY DEF Bound, Refs, IDsOf, IDRefItems, IDItems, Harvest, HasSimpleContent, Nilled, Placement
<1>5. /\ ErrorOf("id-duplicate")' <=> ErrorOf("id-duplicate") \/ \E p \in IDsOf(doc, e) : p[2] # Bearers(doc, e)[p[1]]
      /\ ErrorOf("idref")' <=> ErrorOf("idref")
  <2>1. \A x \in ContentErrs(doc, e) : x.kind \in {"value", "nilled-content", "particle", "no-children"}
    BY ErrorKinds
  <2>2. \A x \in IDErrs(doc, e) : x.kind \in {"id-duplicate", "id-unbound"}
    BY ErrorKinds
  <2>3. (\E x \in IDErrs(doc, e) : x.kind = "id-duplicate") <=> \E p \in IDsOf(doc, e) : p[2] # Bearers(doc, e)[p[1]]
    BY <1>1, BearersIs
  <2> QED  BY <1>2, <2>1, <2>2, <2>3 DEF ErrorOf
<1>6. BearersOK'
  <2>1. /\ \A v : v \in DOMAIN ids' <=> v \in DOMAIN ids \/ \E p \in IDsOf(doc, e) : p[1] = v
        /\ \A v \in DOMAIN ids : ids'[v] = ids[v]
        /\ \A v \in DOMAIN ids' \ DOMAIN ids : <<v, ids'[v]>> \in IDsOf(doc, e)
    BY <1>1, <1>2, BearersIs
  <2>2. \A p \in Bound(doc, visited) : p[1] \in DOMAIN ids
    BY DEF IDsOK, BearersOK
  <2>3. ErrorOf("id-duplicate")' <=> \E p \in Bound(doc, visited') : p[2] # ids'[p[1]]
    BY <1>2, <1>3, <1>5, <2>1, <2>2 DEF IDsOK, BearersOK
  <2>4. \A v : v \in DOMAIN ids' <=> \E p \in Bound(doc, visited') : p[1] = v
    BY <1>3, <2>1 DEF IDsOK, BearersOK
  <2>5. \A v \in DOMAIN ids' : <<v, ids'[v]>> \in Bound(doc, visited')
    BY <1>3, <2>1 DEF IDsOK, BearersOK
  <2> QED  BY <1>4, <2>3, <2>4, <2>5 DEF BearersOK
<1>7. RefsOK'
  <2>1. idrefs = Refs(doc, visited) /\ ~ErrorOf("idref") /\ idrefs' = Refs(doc, visited')
    BY <1>2, <1>3 DEF IDsOK, RefsOK
  <2> QED  BY <1>2, <1>4, <1>5, <2>1 DEF RefsOK
<1> QED  BY <1>6, <1>7 DEF IDsOK

LEMMA QuietIDs ==
    ASSUME IDsOK, UNCHANGED <<doc, visited, ids, idrefs>>, ErrorOf("id-duplicate")' <=> ErrorOf("id-duplicate"),
           ErrorOf("idref")' <=> ErrorOf("idref"),
           phase' \in {"start", "walk", "panic", "keyrefs"} => phase \in {"start", "walk", "panic", "keyrefs"},
           phase' = "done" => idrefs = {}
    PROVE  IDsOK'
<1>1. Bound(doc, visited)' = Bound(doc, visited) /\ Refs(doc, visited)' = Refs(doc, visited)
  BY DEF Bound, Refs, IDsOf, IDRefItems, IDItems, Harvest, HasSimpleContent, Nilled, Placement
<1> QED  BY <1>1 DEF IDsOK, BearersOK, RefsOK

LEMMA NextIDs == IInv /\ WalkOK /\ IDsOK /\ [Next]_vars => IDsOK'
<1> SUFFICES ASSUME IInv, WalkOK, IDsOK, [Next]_vars PROVE IDsOK'
  OBVIOUS
<1>1. CASE AssessRoot
  <2>1. phase = "start"
    BY <1>1 DEF AssessRoot
  <2> QED  BY <1>1, <2>1, RootStep, EnterIDs
<1>2. CASE AssessChild
  BY <1>2, ChildStep, EnterIDs
<1>3. CASE PassChild
  <2>1. UNCHANGED <<doc, phase, visited, ids, idrefs>> /\ errs' = errs \cup PassErrs(Child)
    BY <1>3, PassStep
  <2>2. ErrorOf("id-duplicate")' <=> ErrorOf("id-duplicate")
    BY <2>1, ErrorKinds DEF ErrorOf
  <2>3. ErrorOf("idref")' <=> ErrorOf("idref")
    BY <2>1, ErrorKinds DEF ErrorOf
  <2> QED  BY <2>1, <2>2, <2>3, QuietIDs DEF IDsOK, RefsOK
<1>4. CASE Return
  <2>1. UNCHANGED <<doc, visited, ids, idrefs>> /\ phase = "walk" /\ phase' \in {"walk", "keyrefs"}
    BY <1>4, ReturnStep
  <2>2. errs' = errs \cup ConstraintErrs(doc, cur) \cup EDCErrs(doc, cur) \/ errs' = errs \cup EDCErrs(doc, cur)
    BY <1>4 DEF Return
  <2>3. (ErrorOf("id-duplicate")' <=> ErrorOf("id-duplicate")) /\ (ErrorOf("idref")' <=> ErrorOf("idref"))
    BY <2>2, ErrorKinds DEF ErrorOf
  <2> QED  BY <2>1, <2>3, QuietIDs
<1>5. CASE RejectRoot
  <2>1. UNCHANGED <<doc, visited, ids, idrefs>> /\ phase = "start" /\ phase' = "keyrefs" /\ errs' = errs \cup {Error("no-declaration", doc.root)}
    BY <1>5 DEF RejectRoot, walkVars
  <2>2. (ErrorOf("id-duplicate")' <=> ErrorOf("id-duplicate")) /\ (ErrorOf("idref")' <=> ErrorOf("idref"))
    BY <2>1 DEF ErrorOf, Error
  <2> QED  BY <2>1, <2>2, QuietIDs
<1>6. ASSUME NEW pk \in pending, FlushKeyref(pk) PROVE IDsOK'
  <2>1. UNCHANGED <<doc, visited, ids, idrefs, phase>> /\ phase = "keyrefs" /\ (errs' = errs \/ errs' = errs \cup {Error("keyref", pk.at)})
    BY <1>6 DEF FlushKeyref, walkVars
  <2>2. (ErrorOf("id-duplicate")' <=> ErrorOf("id-duplicate")) /\ (ErrorOf("idref")' <=> ErrorOf("idref"))
    BY <2>1 DEF ErrorOf, Error
  <2> QED  BY <2>1, <2>2, QuietIDs
<1>7. CASE KeyrefsDone
  <2>1. UNCHANGED <<doc, visited, ids, idrefs, errs>> /\ phase = "keyrefs" /\ phase' = "idrefs"
    BY <1>7 DEF KeyrefsDone, walkVars
  <2>2. (ErrorOf("id-duplicate")' <=> ErrorOf("id-duplicate")) /\ (ErrorOf("idref")' <=> ErrorOf("idref"))
    BY <2>1 DEF ErrorOf
  <2> QED  BY <2>1, <2>2, QuietIDs
<1>8. ASSUME NEW r \in idrefs, CheckIDRef(r) PROVE IDsOK'
  <2>1. UNCHANGED <<doc, visited, ids, phase>> /\ phase = "idrefs" /\ idrefs' = idrefs \ {r}
        /\ (r.v \in DOMAIN ids => errs' = errs) /\ (r.v \notin DOMAIN ids => errs' = errs \cup {Error("idref", r.at)})
    BY <1>8 DEF CheckIDRef, walkVars
  <2>2. Bound(doc, visited)' = Bound(doc, visited) /\ Refs(doc, visited)' = Refs(doc, visited)
    BY <2>1 DEF Bound, Refs, IDsOf, IDRefItems, IDItems, Harvest, HasSimpleContent, Nilled, Placement
  <2>0. Error("idref", r.at).kind = "idref"
    BY DEF Error
  <2>3. (ErrorOf("id-duplicate")' <=> ErrorOf("id-duplicate")) /\ (ErrorOf("idref")' <=> ErrorOf("idref") \/ r.v \notin DOMAIN ids)
    BY <2>0, <2>1 DEF ErrorOf
  <2>4. BearersOK'
    BY <2>1, <2>2, <2>3 DEF IDsOK, BearersOK
  <2>5. RefsOK'
    BY <2>1, <2>2, <2>3 DEF IDsOK, RefsOK
  <2> QED  BY <2>4, <2>5 DEF IDsOK
<1>9. CASE Finish
  <2>1. UNCHANGED <<doc, visited, ids, idrefs, errs>> /\ phase = "idrefs" /\ phase' = "done" /\ idrefs = {}
    BY <1>9 DEF Finish, walkVars
  <2>2. (ErrorOf("id-duplicate")' <=> ErrorOf("id-duplicate")) /\ (ErrorOf("idref")' <=> ErrorOf("idref"))
    BY <2>1 DEF ErrorOf
  <2> QED  BY <2>1, <2>2, QuietIDs
<1>10. CASE UNCHANGED vars
  <2>1. UNCHANGED <<doc, visited, ids, idrefs, errs, phase>>
    BY <1>10 DEF vars, walkVars
  <2>2. (ErrorOf("id-duplicate")' <=> ErrorOf("id-duplicate")) /\ (ErrorOf("idref")' <=> ErrorOf("idref"))
    BY <2>1 DEF ErrorOf
  <2> QED  BY <2>1, <2>2, QuietIDs DEF IDsOK, RefsOK
<1> QED  BY <1>1, <1>2, <1>3, <1>4, <1>5, <1>6, <1>7, <1>8, <1>9, <1>10 DEF Next

Bears(d, e, kind, v, o) ==
    \/ o = e /\ \E j \in DOMAIN d.attrs[e] : d.attrs[e][j].k = kind /\ d.attrs[e][j].v = v
    \/ /\ HasSimpleContent(d, e) /\ ~Nilled(d, e) /\ o = d.parent[e]
       /\ \E j \in DOMAIN d.text[e] : d.text[e][j].k = kind /\ d.text[e][j].v = v

LEMMA HarvestBears ==
    ASSUME NEW d, IsInstance(d), NEW e \in d.els, NEW kind, NEW v, NEW o
    PROVE  Bears(d, e, kind, v, o) <=> \E i \in DOMAIN Harvest(d, e) : /\ Harvest(d, e)[i].k = kind /\ Harvest(d, e)[i].v = v
                                                                      /\ Harvest(d, e)[i].owner = o
<1> DEFINE Item(s, j, p) == [k |-> s[j].k, v |-> s[j].v, owner |-> p, at |-> e]
<1>1. \A s, j, p : Item(s, j, p).k = s[j].k /\ Item(s, j, p).v = s[j].v /\ Item(s, j, p).owner = p
  OBVIOUS
<1>2. \A i \in DOMAIN Harvest(d, e) :
         \/ \E j \in DOMAIN d.attrs[e] : Harvest(d, e)[i] = Item(d.attrs[e], j, e)
         \/ HasSimpleContent(d, e) /\ ~Nilled(d, e) /\ \E j \in DOMAIN d.text[e] : Harvest(d, e)[i] = Item(d.text[e], j, d.parent[e])
  BY HarvestList
<1>3. \A j \in DOMAIN d.attrs[e] : \E i \in DOMAIN Harvest(d, e) : Harvest(d, e)[i] = Item(d.attrs[e], j, e)
  BY HarvestList
<1>4. HasSimpleContent(d, e) /\ ~Nilled(d, e) => \A j \in DOMAIN d.text[e] : \E i \in DOMAIN Harvest(d, e) : Harvest(d, e)[i] = Item(d.text[e], j, d.parent[e])
  BY HarvestList
<1> HIDE DEF Item
<1>5. ASSUME NEW i \in DOMAIN Harvest(d, e), Harvest(d, e)[i].k = kind, Harvest(d, e)[i].v = v, Harvest(d, e)[i].owner = o
      PROVE  Bears(d, e, kind, v, o)
  BY <1>1, <1>2, <1>5 DEF Bears
<1>6. ASSUME Bears(d, e, kind, v, o)
      PROVE  \E i \in DOMAIN Harvest(d, e) : Harvest(d, e)[i].k = kind /\ Harvest(d, e)[i].v = v /\ Harvest(d, e)[i].owner = o
  BY <1>1, <1>3, <1>4, <1>6 DEF Bears
<1> QED  BY <1>5, <1>6

(* What a pair of the table comes from.                                    *)
LEMMA BoundIs ==
    ASSUME NEW d, IsInstance(d), NEW V \in SUBSET d.els
    PROVE  /\ \A p \in Bound(d, V) : p = <<p[1], p[2]>> /\ p[2] # NoElement /\ \E e \in V : Bears(d, e, "ID", p[1], p[2])
           /\ \A e \in V : \A v, o : Bears(d, e, "ID", v, o) /\ o # NoElement => <<v, o>> \in Bound(d, V)
<1>1. ASSUME NEW p \in Bound(d, V) PROVE p = <<p[1], p[2]>> /\ p[2] # NoElement /\ \E e \in V : Bears(d, e, "ID", p[1], p[2])
  <2>1. PICK e \in V : p \in IDsOf(d, e)
    BY DEF Bound
  <2>2. PICK i \in IDItems(d, e) : p = <<Harvest(d, e)[i].v, Harvest(d, e)[i].owner>>
    BY <2>1 DEF IDsOf
  <2>3. p[1] = Harvest(d, e)[i].v /\ p[2] = Harvest(d, e)[i].owner /\ p = <<p[1], p[2]>>
    BY <2>2
  <2>4. i \in DOMAIN Harvest(d, e) /\ Harvest(d, e)[i].k = "ID" /\ Harvest(d, e)[i].owner # NoElement
    BY DEF IDItems
  <2> QED  BY <2>3, <2>4, HarvestBears
<1>2. ASSUME NEW e \in V, NEW v, NEW o, Bears(d, e, "ID", v, o), o # NoElement PROVE <<v, o>> \in Bound(d, V)
  <2>1. PICK i \in DOMAIN Harvest(d, e) : Harvest(d, e)[i].k = "ID" /\ Harvest(d, e)[i].v = v /\ Harvest(d, e)[i].owner = o
    BY <1>2, HarvestBears
  <2>2. <<v, o>> \in IDsOf(d, e)
    BY <1>2, <2>1 DEF IDsOf, IDItems
  <2> QED  BY <2>2 DEF Bound
<1> QED  BY <1>1, <1>2

LEMMA RefsIs ==
    ASSUME NEW d, IsInstance(d), NEW V \in SUBSET d.els, NEW v
    PROVE  (\E r \in Refs(d, V) : r.v = v) <=> \E e \in V : \E o : Bears(d, e, "IDREF", v, o)
<1>1. ASSUME NEW r \in Refs(d, V), r.v = v PROVE \E e \in V : \E o : Bears(d, e, "IDREF", v, o)
  <2>1. PICK e \in V : r \in IDRefItems(d, e)
    BY DEF Refs
  <2>2. PICK i \in DOMAIN Harvest(d, e) : Harvest(d, e)[i].k = "IDREF" /\ r = [v |-> Harvest(d, e)[i].v, at |-> e]
    BY <2>1 DEF IDRefItems
  <2>3. Harvest(d, e)[i].v = v
    BY <1>1, <2>2
  <2>4. Bears(d, e, "IDREF", v, Harvest(d, e)[i].owner)
    BY <2>2, <2>3, HarvestBears
  <2> QED  BY <2>4
<1>2. ASSUME NEW e \in V, NEW o, Bears(d, e, "IDREF", v, o) PROVE \E r \in Refs(d, V) : r.v = v
  <2>1. PICK i \in DOMAIN Harvest(d, e) : Harvest(d, e)[i].k = "IDREF" /\ Harvest(d, e)[i].v = v
    BY <1>2, HarvestBears
  <2>2. [v |-> Harvest(d, e)[i].v, at |-> e] \in Refs(d, V) /\ [v |-> Harvest(d, e)[i].v, at |-> e].v = v
    BY <2>1 DEF Refs, IDRefItems
  <2> QED  BY <2>2
<1> QED  BY <1>1, <1>2

(* The same of the document's IDs and references as a whole.               *)
LEMMA AbstractIDs ==
    ASSUME NEW d, IsInstance(d)
    PROVE  /\ \A p \in Abstract!Borne(d) : p = <<p[1], p[2]>> /\ \E e \in Abstract!Assessed(d) : Bears(d, e, "ID", p[1], p[2])
           /\ \A e \in Abstract!Assessed(d) : \A v, o : Bears(d, e, "ID", v, o) => <<v, o>> \in Abstract!Borne(d)
           /\ \A v : v \in Abstract!Referenced(d) <=> \E e \in Abstract!Assessed(d) : \E o : Bears(d, e, "IDREF", v, o)
<1> DEFINE A == Abstract!Assessed(d)
           HasText(e) == HasSimpleContent(d, e) /\ ~Nilled(d, e)
           InAttrs(e, kind, v) == \E j \in DOMAIN d.attrs[e] : d.attrs[e][j].k = kind /\ d.attrs[e][j].v = v
           InText(e, kind, v)  == \E j \in DOMAIN d.text[e] : d.text[e][j].k = kind /\ d.text[e][j].v = v
<1>1. \A e, kind, v : /\ (\E y \in {x \in Abstract!ToSet(d.attrs[e]) : x.k = kind} : y.v = v) <=> InAttrs(e, kind, v)
                      /\ (\E y \in {x \in Abstract!ToSet(d.text[e]) : x.k = kind} : y.v = v) <=> InText(e, kind, v)
  BY DEF Abstract!ToSet
<1>2. \A e : (Abstract!HasSimpleContent(d, e) /\ ~Abstract!Nilled(d, e)) <=> HasText(e)
  BY SameTerms
<1>3. \A e, kind, v, o : Bears(d, e, kind, v, o) <=> (o = e /\ InAttrs(e, kind, v)) \/ (HasText(e) /\ o = d.parent[e] /\ InText(e, kind, v))
  BY DEF Bears
<1> HIDE DEF HasText, InAttrs, InText
<1>4. ASSUME NEW p \in Abstract!Borne(d)
      PROVE  p = <<p[1], p[2]>> /\ \E e \in A : Bears(d, e, "ID", p[1], p[2])
  <2>1. \/ \E e \in A : p \in {<<x.v, e>> : x \in {y \in Abstract!ToSet(d.attrs[e]) : y.k = "ID"}}
        \/ \E e \in A : /\ Abstract!HasSimpleContent(d, e) /\ ~Abstract!Nilled(d, e)
                          /\ p \in {<<x.v, d.parent[e]>> : x \in {y \in Abstract!ToSet(d.text[e]) : y.k = "ID"}}
    <3> HIDE DEF A
    <3> QED  BY DEF Abstract!Borne, A
  <2>2. ASSUME NEW e \in A, p \in {<<x.v, e>> : x \in {y \in Abstract!ToSet(d.attrs[e]) : y.k = "ID"}}
        PROVE  p = <<p[1], p[2]>> /\ \E f \in A : Bears(d, f, "ID", p[1], p[2])
    <3>1. PICK x \in {y \in Abstract!ToSet(d.attrs[e]) : y.k = "ID"} : p = <<x.v, e>>
      BY <2>2
    <3>2. p[1] = x.v /\ p[2] = e /\ p = <<p[1], p[2]>>
      BY <3>1
    <3>3. InAttrs(e, "ID", x.v)
      BY <1>1
    <3> QED  BY <1>3, <3>2, <3>3
  <2>3. ASSUME NEW e \in A, Abstract!HasSimpleContent(d, e) /\ ~Abstract!Nilled(d, e),
               p \in {<<x.v, d.parent[e]>> : x \in {y \in Abstract!ToSet(d.text[e]) : y.k = "ID"}}
        PROVE  p = <<p[1], p[2]>> /\ \E f \in A : Bears(d, f, "ID", p[1], p[2])
    <3>1. PICK x \in {y \in Abstract!ToSet(d.text[e]) : y.k = "ID"} : p = <<x.v, d.parent[e]>>
      BY <2>3
    <3>2. p[1] = x.v /\ p[2] = d.parent[e] /\ p = <<p[1], p[2]>>
      BY <3>1
    <3>3. InText(e, "ID", x.v) /\ HasText(e)
      BY <1>1, <1>2, <2>3
    <3> QED  BY <1>3, <3>2, <3>3
  <2> QED  BY <2>1, <2>2, <2>3
<1>5. ASSUME NEW e \in A, NEW v, NEW o, Bears(d, e, "ID", v, o) PROVE <<v, o>> \in Abstract!Borne(d)
  <2>1. CASE o = e /\ InAttrs(e, "ID", v)
    <3>1. PICK x \in {y \in Abstract!ToSet(d.attrs[e]) : y.k = "ID"} : x.v = v
      BY <1>1, <2>1
    <3>2. <<v, o>> \in {<<y.v, e>> : y \in {z \in Abstract!ToSet(d.attrs[e]) : z.k = "ID"}}
      BY <2>1, <3>1
    <3> HIDE DEF A
    <3> QED  BY <3>2 DEF Abstract!Borne, A
  <2>2. CASE HasText(e) /\ o = d.parent[e] /\ InText(e, "ID", v)
    <3>1. PICK x \in {y \in Abstract!ToSet(d.text[e]) : y.k = "ID"} : x.v = v
      BY <1>1, <2>2
    <3>2. <<v, o>> \in {<<y.v, d.parent[e]>> : y \in {z \in Abstract!ToSet(d.text[e]) : z.k = "ID"}}
      BY <2>2, <3>1
    <3>3. e \in {y \in Abstract!Assessed(d) : Abstract!HasSimpleContent(d, y) /\ ~Abstract!Nilled(d, y)}
      BY <1>2, <2>2
    <3> HIDE DEF A
    <3> QED  BY <3>2, <3>3 DEF Abstract!Borne, A
  <2> QED  BY <1>3, <1>5, <2>1, <2>2
<1>6. ASSUME NEW v PROVE v \in Abstract!Referenced(d) <=> \E e \in A : \E o : Bears(d, e, "IDREF", v, o)
  <2>1. v \in Abstract!Referenced(d) <=>
           \/ \E e \in A : \E x \in {y \in Abstract!ToSet(d.attrs[e]) : y.k = "IDREF"} : x.v = v
           \/ \E e \in A : /\ Abstract!HasSimpleContent(d, e) /\ ~Abstract!Nilled(d, e)
                            /\ \E x \in {y \in Abstract!ToSet(d.text[e]) : y.k = "IDREF"} : x.v = v
    <3> HIDE DEF A
    <3> QED  BY DEF Abstract!Referenced, A
  <2>2. v \in Abstract!Referenced(d) <=> (\E e \in A : InAttrs(e, "IDREF", v)) \/ \E e \in A : HasText(e) /\ InText(e, "IDREF", v)
    BY ONLY <1>1, <1>2, <2>1
  <2>3. \A e : (\E o : Bears(d, e, "IDREF", v, o)) <=> InAttrs(e, "IDREF", v) \/ (HasText(e) /\ InText(e, "IDREF", v))
    BY ONLY <1>3
  <2> QED  BY ONLY <2>2, <2>3
<1> QED  BY <1>4, <1>5, <1>6

LEMMA IDVerdictHolds == IInv /\ WalkOK /\ IDsOK => IDVerdict
<1> SUFFICES ASSUME IInv, WalkOK, IDsOK, phase = "done" PROVE IDVerdict
  BY DEF IDVerdict
<1> DEFINE A == Abstract!Assessed(doc)
           B == Bound(doc, A)
           Borne == {b \in Abstract!Borne(doc) : b[2] # NoElement}
<1>1. IsInstance(doc) /\ A \subseteq doc.els /\ visited = A
  BY DocIsInstance, WalkDone, AssessedBasics
<1>2. \A p \in B : p \in Borne
  <2> SUFFICES ASSUME NEW p \in B PROVE p \in Borne
    OBVIOUS
  <2>1. p = <<p[1], p[2]>> /\ p[2] # NoElement /\ \E e \in A : Bears(doc, e, "ID", p[1], p[2])
    BY <1>1, BoundIs
  <2>2. <<p[1], p[2]>> \in Abstract!Borne(doc)
    BY <1>1, <2>1, AbstractIDs
  <2> QED  BY <2>1, <2>2
<1>3. \A p \in Borne : p \in B
  <2> SUFFICES ASSUME NEW p \in Borne PROVE p \in B
    OBVIOUS
  <2>1. p = <<p[1], p[2]>> /\ \E e \in A : Bears(doc, e, "ID", p[1], p[2])
    BY <1>1, AbstractIDs
  <2>2. <<p[1], p[2]>> \in B
    BY <1>1, <2>1, BoundIs
  <2> QED  BY <2>1, <2>2
<1>4. B = Borne
  BY <1>2, <1>3
<1>5. /\ \A v : v \in DOMAIN ids <=> \E p \in B : p[1] = v
      /\ \A v \in DOMAIN ids : <<v, ids[v]>> \in B
      /\ ErrorOf("id-duplicate") <=> \E p \in B : p[2] # ids[p[1]]
  BY <1>1 DEF IDsOK, BearersOK
<1>6. ErrorOf("id-duplicate") <=> ~(\A p, q \in B : p[1] = q[1] => p[2] = q[2])
  <2>1. ASSUME NEW p \in B, p[2] # ids[p[1]] PROVE \E x, y \in B : x[1] = y[1] /\ x[2] # y[2]
    <3>1. <<p[1], ids[p[1]]>> \in B
      BY <1>5
    <3>2. <<p[1], ids[p[1]]>>[1] = p[1] /\ <<p[1], ids[p[1]]>>[2] = ids[p[1]]
      OBVIOUS
    <3> HIDE DEF B
    <3> QED  BY <2>1, <3>1, <3>2
  <2> HIDE DEF B
  <2> QED  BY <1>5, <2>1
<1>7. ErrorOf("idref") <=> ~(Abstract!Referenced(doc) \subseteq {p[1] : p \in B})
  <2>1. ErrorOf("idref") <=> \E r \in Refs(doc, A) : r.v \notin DOMAIN ids
    BY <1>1 DEF IDsOK, RefsOK
  <2>2. \A v : v \in Abstract!Referenced(doc) <=> \E r \in Refs(doc, A) : r.v = v
    BY <1>1, RefsIs, AbstractIDs
  <2>3. DOMAIN ids = {p[1] : p \in B}
    <3> HIDE DEF B
    <3> QED  BY <1>5
  <2> HIDE DEF B, A
  <2> QED  BY <2>1, <2>2, <2>3
<1> QED  BY <1>4, <1>6, <1>7 DEF IDVerdict, ErrorOf

-----------------------------------------------------------------------------
(* Selecting targets: what a path reaches is what some way along it leads  *)
(* to.                                                                     *)
Staged(d, bases, steps, n, c) ==
    /\ DOMAIN c = 0..n /\ c[0] = bases
    /\ \A k \in 1..n : c[k] = ApplyStep(d, c[k - 1], steps[k])

LEMMA StagesExist ==
    ASSUME NEW d, NEW bases \in SUBSET d.els, NEW steps, NEW n \in Nat
    PROVE  \E c \in [0..n -> SUBSET d.els] : Staged(d, bases, steps, n, c)
<1> DEFINE S == {m \in Nat : \E c \in [0..m -> SUBSET d.els] : Staged(d, bases, steps, m, c)}
<1>1. 0 \in S
  <2>1. [k \in 0..0 |-> bases] \in [0..0 -> SUBSET d.els] /\ Staged(d, bases, steps, 0, [k \in 0..0 |-> bases])
    BY DEF Staged
  <2> QED  BY <2>1
<1>2. ASSUME NEW m \in Nat, m \in S PROVE m + 1 \in S
  <2>1. PICK c \in [0..m -> SUBSET d.els] : Staged(d, bases, steps, m, c)
    BY <1>2
  <2> DEFINE f == [k \in 0..(m + 1) |-> IF k = m + 1 THEN ApplyStep(d, c[m], steps[m + 1]) ELSE c[k]]
  <2>2. f[m + 1] = ApplyStep(d, c[m], steps[m + 1]) /\ (\A k \in 0..m : f[k] = c[k]) /\ DOMAIN f = 0..(m + 1)
    OBVIOUS
  <2>3. ApplyStep(d, c[m], steps[m + 1]) \in SUBSET d.els
    BY DEF ApplyStep
  <2>4. f \in [0..(m + 1) -> SUBSET d.els]
    BY <2>3
  <2> HIDE DEF f
  <2>5. ASSUME NEW k \in 1..(m + 1) PROVE f[k] = ApplyStep(d, f[k - 1], steps[k])
    <3>1. CASE k = m + 1
      <4>1. k - 1 = m /\ m \in 0..m
        BY <3>1
      <4> QED  BY <2>2, <3>1, <4>1
    <3>2. CASE k # m + 1
      <4>1. k \in 1..m /\ k \in 0..m /\ k - 1 \in 0..m
        BY <3>2
      <4> QED  BY <2>1, <2>2, <4>1 DEF Staged
    <3> QED  BY <3>1, <3>2
  <2>6. f[0] = bases
    BY <2>1, <2>2 DEF Staged
  <2>7. Staged(d, bases, steps, m + 1, f)
    BY <2>2, <2>5, <2>6 DEF Staged
  <2> QED  BY <2>4, <2>7
<1>3. Nat \subseteq S
  BY <1>1, <1>2, InductionOnNat
<1> QED  BY <1>3

LEMMA ReachedStages ==
    ASSUME NEW d, NEW bases \in SUBSET d.els, NEW steps, Len(steps) \in Nat
    PROVE  \E c \in [0..Len(steps) -> SUBSET d.els] :
              Staged(d, bases, steps, Len(steps), c) /\ Reached(d, bases, steps) = c[Len(steps)]
<1> DEFINE N == Len(steps)
           g == CHOOSE g : g = [k \in 0..N |-> IF k = 0 THEN bases ELSE ApplyStep(d, g[k - 1], steps[k])]
<1>1. PICK c \in [0..N -> SUBSET d.els] : Staged(d, bases, steps, N, c)
  BY StagesExist
<1>2. c = [k \in 0..N |-> IF k = 0 THEN bases ELSE ApplyStep(d, c[k - 1], steps[k])]
  <2>1. \A k \in 0..N : c[k] = IF k = 0 THEN bases ELSE ApplyStep(d, c[k - 1], steps[k])
    BY <1>1 DEF Staged
  <2> QED  BY <2>1
<1>3. g = [k \in 0..N |-> IF k = 0 THEN bases ELSE ApplyStep(d, g[k - 1], steps[k])]
  BY <1>2
<1>4. Reached(d, bases, steps) = g[N]
  BY DEF Reached
<1> HIDE DEF g
<1>5. DOMAIN g = 0..N /\ \A k \in 0..N : g[k] = IF k = 0 THEN bases ELSE ApplyStep(d, g[k - 1], steps[k])
  BY <1>3
<1>6. Staged(d, bases, steps, N, g)
  <2>1. g[0] = bases
    BY <1>5
  <2>2. ASSUME NEW k \in 1..N PROVE g[k] = ApplyStep(d, g[k - 1], steps[k])
    BY <1>5
  <2> QED  BY <1>5, <2>1, <2>2 DEF Staged
<1>7. g \in [0..N -> SUBSET d.els]
  <2>1. ASSUME NEW k \in 0..N PROVE g[k] \in SUBSET d.els
    <3>1. CASE k = 0
      BY <1>5, <3>1
    <3>2. CASE k # 0
      <4>1. g[k] = ApplyStep(d, g[k - 1], steps[k]) /\ g[k - 1] \in SUBSET d.els
        <5>1. k - 1 \in 0..N
          BY <3>2
        <5>2. \A m \in 1..N : ApplyStep(d, c[m - 1], steps[m]) = c[m]
          BY <1>1 DEF Staged
        <5> DEFINE S == {m \in Nat : m \in 0..N => g[m] = c[m]}
        <5>3. 0 \in S
          BY <1>1, <1>5 DEF Staged
        <5>4. ASSUME NEW m \in Nat, m \in S PROVE m + 1 \in S
          <6> SUFFICES ASSUME m + 1 \in 0..N PROVE g[m + 1] = c[m + 1]
            OBVIOUS
          <6>1. m \in 0..N /\ (m + 1) - 1 = m /\ m + 1 \in 1..N /\ m + 1 # 0
            OBVIOUS
          <6>2. g[m] = c[m]
            BY <5>4, <6>1
          <6>3. g[m + 1] = ApplyStep(d, g[m], steps[m + 1])
            BY <1>5, <6>1
          <6>4. c[m + 1] = ApplyStep(d, c[m], steps[m + 1])
            BY <5>2, <6>1
          <6> QED  BY <6>2, <6>3, <6>4
        <5>5. Nat \subseteq S
          <6> HIDE DEF S
          <6> QED  BY <5>3, <5>4, InductionOnNat
        <5>6. g[k - 1] = c[k - 1]
          BY <5>1, <5>5
        <5> QED  BY <1>5, <3>2, <5>1, <5>6
      <4> QED  BY <4>1 DEF ApplyStep
    <3> QED  BY <3>1, <3>2
  <2> QED  BY <1>5, <2>1
<1> QED  BY <1>4, <1>6, <1>7

(* A way along a path's steps, from a base.                                *)
WayTo(d, bases, steps, n, way, t) ==
    /\ way \in [0..n -> d.els] /\ way[0] \in bases /\ way[n] = t
    /\ \A k \in 1..n :
          IF steps[k] = "." THEN way[k] = way[k - 1]
          ELSE d.parent[way[k]] = way[k - 1] /\ way[k] \notin skipped /\ steps[k] \in {"*", d.name[way[k]]}

LEMMA WaysLead ==
    ASSUME NEW d, NEW bases \in SUBSET d.els, NEW steps, NEW N \in Nat,
           NEW c \in [0..N -> SUBSET d.els], Staged(d, bases, steps, N, c)
    PROVE  \A n \in 0..N : \A t : t \in c[n] <=> \E way : WayTo(d, bases, steps, n, way, t)
<1> DEFINE S == {n \in Nat : n \in 0..N => \A t : t \in c[n] <=> \E way : WayTo(d, bases, steps, n, way, t)}
<1>1. 0 \in S
  <2>1. ASSUME NEW t \in c[0] PROVE \E way : WayTo(d, bases, steps, 0, way, t)
    <3>1. t \in bases
      BY DEF Staged
    <3>2. WayTo(d, bases, steps, 0, [k \in 0..0 |-> t], t)
      BY <3>1 DEF WayTo
    <3> QED  BY <3>2
  <2>2. ASSUME NEW t, NEW way, WayTo(d, bases, steps, 0, way, t) PROVE t \in c[0]
    BY <2>2 DEF WayTo, Staged
  <2> QED  BY <2>1, <2>2
<1>2. ASSUME NEW n \in Nat, n \in S PROVE n + 1 \in S
  <2> SUFFICES ASSUME n + 1 \in 0..N, NEW t PROVE t \in c[n + 1] <=> \E way : WayTo(d, bases, steps, n + 1, way, t)
    OBVIOUS
  <2>1. n \in 0..N /\ n + 1 \in 1..N /\ (n + 1) - 1 = n
    OBVIOUS
  <2>2. \A u : u \in c[n] <=> \E way : WayTo(d, bases, steps, n, way, u)
    BY <1>2, <2>1
  <2>3. c[n + 1] = ApplyStep(d, c[n], steps[n + 1])
    BY <2>1 DEF Staged
  <2>4. ASSUME t \in c[n + 1] PROVE \E way : WayTo(d, bases, steps, n + 1, way, t)
    <3>0. t \in d.els
      BY <2>1, <2>4
    <3>1. PICK u \in c[n] : IF steps[n + 1] = "." THEN t = u
                            ELSE d.parent[t] = u /\ t \notin skipped /\ steps[n + 1] \in {"*", d.name[t]}
      BY <2>3, <2>4 DEF ApplyStep
    <3>2. PICK way : WayTo(d, bases, steps, n, way, u)
      BY <2>2
    <3> DEFINE w == [k \in 0..(n + 1) |-> IF k = n + 1 THEN t ELSE way[k]]
    <3>3. way \in [0..n -> d.els] /\ way[0] \in bases /\ way[n] = u
      BY <3>2 DEF WayTo
    <3>4. w \in [0..(n + 1) -> d.els] /\ w[n + 1] = t /\ \A k \in 0..n : w[k] = way[k]
      BY <3>0, <3>3
    <3> HIDE DEF w
    <3>5. ASSUME NEW k \in 1..(n + 1)
          PROVE  IF steps[k] = "." THEN w[k] = w[k - 1]
                 ELSE d.parent[w[k]] = w[k - 1] /\ w[k] \notin skipped /\ steps[k] \in {"*", d.name[w[k]]}
      <4>1. CASE k = n + 1
        <5>1. w[k] = t /\ w[k - 1] = u
          BY <3>3, <3>4, <4>1
        <5> QED  BY <3>1, <4>1, <5>1
      <4>2. CASE k # n + 1
        <5>1. k \in 1..n /\ w[k] = way[k] /\ w[k - 1] = way[k - 1]
          BY <3>4, <4>2
        <5> QED  BY <3>2, <5>1 DEF WayTo
      <4> QED  BY <4>1, <4>2
    <3>6. w[0] \in bases
      BY <3>3, <3>4
    <3>7. WayTo(d, bases, steps, n + 1, w, t)
      BY <3>4, <3>5, <3>6 DEF WayTo
    <3> QED  BY <3>7
  <2>5. ASSUME NEW way, WayTo(d, bases, steps, n + 1, way, t) PROVE t \in c[n + 1]
    <3> DEFINE w == [k \in 0..n |-> way[k]]
    <3>1. way \in [0..(n + 1) -> d.els] /\ way[0] \in bases /\ way[n + 1] = t
      BY <2>5 DEF WayTo
    <3>2. w \in [0..n -> d.els] /\ \A k \in 0..n : w[k] = way[k]
      BY <3>1
    <3> HIDE DEF w
    <3>3. WayTo(d, bases, steps, n, w, way[n])
      <4>1. w[0] \in bases /\ w[n] = way[n]
        BY <3>1, <3>2
      <4>2. ASSUME NEW k \in 1..n
            PROVE  IF steps[k] = "." THEN w[k] = w[k - 1]
                   ELSE d.parent[w[k]] = w[k - 1] /\ w[k] \notin skipped /\ steps[k] \in {"*", d.name[w[k]]}
        <5>1. k \in 1..(n + 1) /\ w[k] = way[k] /\ w[k - 1] = way[k - 1]
          BY <3>2
        <5> QED  BY <2>5, <5>1 DEF WayTo
      <4> QED  BY <3>2, <4>1, <4>2 DEF WayTo
    <3>4. way[n] \in c[n]
      BY <2>2, <3>3
    <3>5. IF steps[n + 1] = "." THEN t = way[n]
          ELSE d.parent[t] = way[n] /\ t \notin skipped /\ steps[n + 1] \in {"*", d.name[t]}
      <4>1. n + 1 \in 1..(n + 1)
        OBVIOUS
      <4> QED  BY <2>1, <2>5, <3>1, <4>1 DEF WayTo
    <3>6. t \in d.els
      BY <3>1
    <3> QED  BY <2>3, <3>4, <3>5, <3>6 DEF ApplyStep
  <2> QED  BY <2>4, <2>5
<1>3. Nat \subseteq S
  <2> HIDE DEF S
  <2> QED  BY <1>1, <1>2, InductionOnNat
<1> QED  BY <1>3

LEMMA ReachedIs ==
    ASSUME NEW d, NEW bases \in SUBSET d.els, NEW steps, Len(steps) \in Nat, NEW t
    PROVE  t \in Reached(d, bases, steps) <=> \E way : WayTo(d, bases, steps, Len(steps), way, t)
<1> DEFINE N == Len(steps)
<1>1. PICK c \in [0..N -> SUBSET d.els] : Staged(d, bases, steps, N, c) /\ Reached(d, bases, steps) = c[N]
  BY ReachedStages
<1>2. N \in 0..N
  OBVIOUS
<1> HIDE DEF N
<1>3. t \in c[N] <=> \E way : WayTo(d, bases, steps, N, way, t)
  BY <1>1, <1>2, WaysLead DEF N
<1> QED  BY <1>1, <1>3 DEF N

(* The elements above an open one are open, so none of them is skipped.    *)
LEMMA NothingSkippedAbove ==
    ASSUME IInv, WalkOK, Return, NEW y \in doc.els, cur \in doc.anc[y]
    PROVE  /\ skipped \cap doc.anc[cur] = {}
           /\ skipped \cap doc.anc[y] = {} <=> Abstract!Skipped(doc) \cap doc.anc[y] = {}
<1>1. cur \in doc.els /\ cur \in visited /\ IsTree(doc) /\ doc.anc[cur] \subseteq visited
  BY ReturnStep DEF IInv, TypeOK, AncestorsVisited
<1>2. visited \cap skipped = {} /\ skipped \subseteq Abstract!Skipped(doc) /\ Abstract!Skipped(doc) \subseteq doc.els
  BY VisitedIsAssessed, AssessedBasics
<1>3. ASSUME NEW s \in Abstract!Skipped(doc), s \in doc.anc[y] PROVE s \in skipped
  <2>1. CASE cur \in doc.anc[s]
    BY <1>2, <2>1, ReturnDone
  <2>2. CASE s \in doc.anc[cur]
    <3>1. Governed(doc, s)
      BY <1>1, <2>2 DEF WalkOK, OnlyAssessed
    <3>2. Placement(doc, s) = "skip"
      BY <1>1, <1>2, SkippedIs
    <3> QED  BY <3>1, <3>2 DEF Governed
  <2> QED  BY <1>1, <1>3, <2>1, <2>2, AncestorsInLine
<1> QED  BY <1>1, <1>2, <1>3

AllBelow(d, s, bases) == \A b \in bases : s \in d.anc[b] /\ skipped \cap d.anc[b] = {}

(* Along a way from a base of cur every node is below the ones before it,  *)
(* and none below a skipped one.                                           *)
LEMMA WayDown ==
    ASSUME NEW d, IsTree(d), NEW s \in d.els, NEW steps, NEW N \in Nat, NEW way, NEW t,
           NEW bases \in SUBSET d.els, AllBelow(d, s, bases), WayTo(d, bases, steps, N, way, t)
    PROVE  \A n \in 0..N : /\ s \in d.anc[way[n]] /\ skipped \cap d.anc[way[n]] = {}
                           /\ \A j \in 0..n : way[j] \in d.anc[way[n]]
<1> DEFINE Down(n) == /\ s \in d.anc[way[n]] /\ skipped \cap d.anc[way[n]] = {}
                      /\ \A j \in 0..n : way[j] \in d.anc[way[n]]
           S == {n \in Nat : n \in 0..N => Down(n)}
<1>1. way \in [0..N -> d.els] /\ way[0] \in bases
  BY DEF WayTo
<1>2. 0 \in S
  <2>1. way[0] \in d.anc[way[0]]
    BY <1>1, TreeFacts
  <2> QED  BY <1>1, <2>1 DEF AllBelow
<1>3. ASSUME NEW n \in Nat, n \in S PROVE n + 1 \in S
  <2> SUFFICES ASSUME n + 1 \in 0..N PROVE Down(n + 1)
    OBVIOUS
  <2>1. n \in 0..N /\ n + 1 \in 1..N /\ (n + 1) - 1 = n
    OBVIOUS
  <2>2. Down(n)
    BY <1>3, <2>1
  <2>3. way[n] \in d.els /\ way[n + 1] \in d.els
    BY <1>1, <2>1
  <2>4. IF steps[n + 1] = "." THEN way[n + 1] = way[n]
        ELSE d.parent[way[n + 1]] = way[n] /\ way[n + 1] \notin skipped
    BY <2>1 DEF WayTo
  <2>5. CASE way[n + 1] = way[n]
    <3>1. way[n] \in d.anc[way[n]]
      BY <2>3, TreeFacts
    <3> QED  BY <2>1, <2>2, <2>5, <3>1
  <2>6. CASE d.parent[way[n + 1]] = way[n] /\ way[n + 1] \notin skipped
    <3>1. way[n + 1] # d.root
      BY <2>3, <2>6 DEF IsTree
    <3>2. d.anc[way[n + 1]] = d.anc[way[n]] \cup {way[n + 1]}
      BY <2>3, <2>6, <3>1, TreeFacts
    <3>3. \A j \in 0..(n + 1) : j \in 0..n \/ j = n + 1
      OBVIOUS
    <3> QED  BY <2>2, <2>6, <3>2, <3>3
  <2> QED  BY <2>4, <2>5, <2>6
<1>4. Nat \subseteq S
  <2> HIDE DEF S
  <2> QED  BY <1>2, <1>3, InductionOnNat
<1> QED  BY <1>4

LEMMA BasesIs ==
    ASSUME NEW d, IsTree(d), NEW s \in d.els, skipped \cap d.anc[s] = {}, NEW path
    PROVE  /\ Bases(d, s, path) \in SUBSET d.els
           /\ \A b \in d.els : b \in Bases(d, s, path) <=>
                 s \in d.anc[b] /\ skipped \cap d.anc[b] = {} /\ (path.descendant \/ b = s)
<1>1. s \in d.anc[s]
  BY TreeFacts
<1>2. \A b \in d.els : s \in d.anc[b] => d.anc[s] \subseteq d.anc[b]
  BY AncestorsInherited
<1>3. CASE path.descendant
  BY <1>1, <1>2, <1>3 DEF Bases, SelfAndDescendants
<1>4. CASE ~path.descendant
  BY <1>1, <1>4 DEF Bases
<1> QED  BY <1>3, <1>4

(* Where a path leads when cur is left, from cur or from a node below it   *)
(* that is in no skipped region, is where it is to lead.                   *)
Walkable(path) == Len(path.steps) \in Nat
Below(s) == s \in doc.els /\ cur \in doc.anc[s] /\ skipped \cap doc.anc[s] = {}

LEMMA PathLeads ==
    ASSUME IInv, WalkOK, Return, NEW s, Below(s), NEW path, Walkable(path)
    PROVE  /\ PathTargets(doc, s, path) = Abstract!Leads(doc, s, path)
           /\ \A t \in PathTargets(doc, s, path) : Below(t)
<1> DEFINE bases == Bases(doc, s, path)
           N == Len(path.steps)
           Q == Abstract!Leads(doc, s, path)
           Qualifies(t, way) == /\ way \in [0..N -> doc.anc[t]] /\ s \in doc.anc[way[0]]
                                /\ path.descendant \/ way[0] = s
                                /\ Abstract!Follows(doc, way, path.steps)
                                /\ way[N] = t
<1>1. s \in doc.els /\ IsTree(doc) /\ skipped \cap doc.anc[s] = {}
  BY DEF Below, IInv, TypeOK
<1>2. bases \in SUBSET doc.els
      /\ \A b \in doc.els : b \in bases <=>
            s \in doc.anc[b] /\ skipped \cap doc.anc[b] = {} /\ (path.descendant \/ b = s)
  BY <1>1, BasesIs
<1>3. \A t : t \in PathTargets(doc, s, path) <=> \E way : WayTo(doc, bases, path.steps, N, way, t)
  BY <1>2, ReachedIs DEF PathTargets, Walkable
<1>4. \A t : t \in Q <=> t \in doc.els /\ s \in doc.anc[t] /\ Abstract!Skipped(doc) \cap doc.anc[t] = {}
                         /\ \E way : Qualifies(t, way)
  BY DEF Abstract!Leads
<1>5. AllBelow(doc, s, bases)
  BY <1>2 DEF AllBelow
<1>6. \A t \in doc.els : s \in doc.anc[t] => cur \in doc.anc[t]
  BY <1>1, AncestorsInherited DEF Below
<1> HIDE DEF Q
<1>7. ASSUME NEW t, NEW way, WayTo(doc, bases, path.steps, N, way, t) PROVE t \in Q /\ Below(t)
  <2>1. way \in [0..N -> doc.els] /\ way[0] \in bases /\ way[N] = t /\ N \in 0..N
    BY <1>7 DEF WayTo, Walkable
  <2>2. \A n \in 0..N : s \in doc.anc[way[n]] /\ skipped \cap doc.anc[way[n]] = {} /\ \A j \in 0..n : way[j] \in doc.anc[way[n]]
    <3> HIDE DEF bases, N
    <3>1. N \in Nat
      BY DEF N, Walkable
    <3> QED  BY <1>1, <1>2, <1>5, <1>7, <3>1, WayDown
  <2>3. t \in doc.els /\ s \in doc.anc[t] /\ skipped \cap doc.anc[t] = {} /\ way \in [0..N -> doc.anc[t]]
    BY <2>1, <2>2
  <2>4. cur \in doc.anc[t]
    BY <1>6, <2>3
  <2>5. Abstract!Skipped(doc) \cap doc.anc[t] = {}
    BY <2>3, <2>4, NothingSkippedAbove
  <2>6. Abstract!Follows(doc, way, path.steps)
    BY <1>7 DEF WayTo, Abstract!Follows
  <2>7. s \in doc.anc[way[0]] /\ (path.descendant \/ way[0] = s)
    BY <1>2, <2>1
  <2>8. t \in Q
    BY <1>4, <2>1, <2>3, <2>5, <2>6, <2>7
  <2> QED  BY <2>3, <2>4, <2>8 DEF Below
<1>8. ASSUME NEW t \in Q PROVE \E way : WayTo(doc, bases, path.steps, N, way, t)
  <2>1. t \in doc.els /\ s \in doc.anc[t] /\ Abstract!Skipped(doc) \cap doc.anc[t] = {}
    BY <1>4
  <2>2. PICK way : Qualifies(t, way)
    BY <1>4
  <2>3. skipped \cap doc.anc[t] = {}
    BY <1>6, <2>1, NothingSkippedAbove
  <2>4. doc.anc[t] \subseteq doc.els /\ way \in [0..N -> doc.els] /\ 0 \in 0..N
    BY <1>1, <2>1, <2>2, TreeFacts DEF Walkable
  <2>5. way[0] \in bases
    <3>1. way[0] \in doc.anc[t] /\ way[0] \in doc.els
      BY <2>2, <2>4
    <3>2. doc.anc[way[0]] \subseteq doc.anc[t]
      BY <1>1, <2>1, <3>1, AncestorsInherited
    <3> QED  BY <1>2, <2>2, <2>3, <3>1, <3>2
  <2>6. ASSUME NEW k \in 1..N
        PROVE  IF path.steps[k] = "." THEN way[k] = way[k - 1]
               ELSE doc.parent[way[k]] = way[k - 1] /\ way[k] \notin skipped /\ path.steps[k] \in {"*", doc.name[way[k]]}
    <3>1. way[k] \in doc.anc[t]
      BY <2>2
    <3> QED  BY <2>2, <2>3, <3>1 DEF Abstract!Follows
  <2>7. WayTo(doc, bases, path.steps, N, way, t)
    BY <2>2, <2>4, <2>5, <2>6 DEF WayTo
  <2> QED  BY <2>7
<1> HIDE DEF bases, N
<1>9. \A t : t \in PathTargets(doc, s, path) <=> t \in Q
  BY <1>3, <1>7, <1>8
<1>10. PathTargets(doc, s, path) \subseteq doc.els /\ Q \subseteq doc.els
  BY <1>4, <1>9
<1>11. PathTargets(doc, s, path) = Q
  BY <1>9, <1>10
<1>12. \A t \in PathTargets(doc, s, path) : Below(t)
  BY <1>3, <1>7
<1> QED  BY <1>11, <1>12 DEF Q

LEMMA CurBelow ==
    ASSUME IInv, WalkOK, Return
    PROVE  Below(cur)
<1>1. cur \in doc.els /\ IsTree(doc) /\ cur \in doc.anc[cur]
  BY ReturnStep, TreeFacts DEF IInv, TypeOK
<1> QED  BY <1>1, NothingSkippedAbove DEF Below

(* What the selector selects is what the constraint qualifies, and what a  *)
(* field selects from there are the nodes it stands for.                   *)
LEMMA TargetsQualified ==
    ASSUME IInv, WalkOK, Return, NEW selector, \A path \in ToSet(selector) : Walkable(path)
    PROVE  /\ SelectTargets(doc, cur, selector) = Abstract!Qualified(doc, cur, selector)
           /\ \A t \in SelectTargets(doc, cur, selector) : Below(t)
<1>1. \A path \in ToSet(selector) : /\ PathTargets(doc, cur, path) = Abstract!Leads(doc, cur, path)
                                    /\ \A t \in PathTargets(doc, cur, path) : Below(t)
  BY CurBelow, PathLeads
<1>2. Abstract!ToSet(selector) = ToSet(selector)
  BY DEF Abstract!ToSet, ToSet
<1>3. Abstract!Qualified(doc, cur, selector) = UNION {Abstract!Leads(doc, cur, path) : path \in ToSet(selector)}
  BY <1>2 DEF Abstract!Qualified
<1> QED  BY <1>1, <1>3 DEF SelectTargets

LEMMA FieldsStand ==
    ASSUME IInv, WalkOK, Return, NEW t, Below(t), NEW field, \A path \in ToSet(field) : Walkable(path)
    PROVE  /\ FieldNodes(doc, t, field) = Abstract!Nodes(doc, t, field)
           /\ \A n \in FieldNodes(doc, t, field) : Below(n[1])
<1> DEFINE At(path, e) == {e} \X (path.last \cap DOMAIN doc.values[e])
<1>1. \A path \in ToSet(field) : /\ PathTargets(doc, t, path) = Abstract!Leads(doc, t, path)
                                 /\ \A e \in PathTargets(doc, t, path) : Below(e)
  BY PathLeads
<1>2. Abstract!ToSet(field) = ToSet(field)
  BY DEF Abstract!ToSet, ToSet
<1>3. FieldNodes(doc, t, field) = UNION {UNION {At(path, e) : e \in PathTargets(doc, t, path)} : path \in ToSet(field)}
  BY DEF FieldNodes
<1>4. Abstract!Nodes(doc, t, field) = UNION {UNION {At(path, e) : e \in Abstract!Leads(doc, t, path)} : path \in ToSet(field)}
  BY <1>2 DEF Abstract!Nodes
<1>5. \A path, e : \A n \in At(path, e) : n[1] = e
  OBVIOUS
<1> HIDE DEF At
<1>6. ASSUME NEW n \in FieldNodes(doc, t, field) PROVE Below(n[1])
  <2>1. PICK path \in ToSet(field) : \E e \in PathTargets(doc, t, path) : n \in At(path, e)
    BY <1>3
  <2>2. PICK e \in PathTargets(doc, t, path) : n \in At(path, e)
    BY <2>1
  <2> QED  BY <1>1, <1>5, <2>1, <2>2
<1>7. FieldNodes(doc, t, field) = Abstract!Nodes(doc, t, field)
  <2>1. \A path \in ToSet(field) : UNION {At(path, e) : e \in PathTargets(doc, t, path)}
                                   = UNION {At(path, e) : e \in Abstract!Leads(doc, t, path)}
    BY <1>1
  <2> QED  BY <1>3, <1>4, <2>1
<1> QED  BY <1>6, <1>7

-----------------------------------------------------------------------------
(* Tuples.                                                                 *)
LEMMA SameEquality ==
    ASSUME NEW s, NEW t
    PROVE  TupleEqual(s.vals, t.vals) <=> Abstract!SameTuple(s, t)
<1>1. \A a, b : FieldsEqual(a, b) <=> Abstract!FieldEq(a, b)
  BY DEF FieldsEqual, Abstract!FieldEq
<1> QED  BY <1>1 DEF TupleEqual, Abstract!SameTuple

LEMMA ConstraintData ==
    ASSUME NEW d, IsInstance(d), NEW e \in d.els, NEW ic \in ToSet(d.ics[e])
    PROVE  /\ Len(ic.selector) \in Nat /\ DOMAIN ic.selector = 1..Len(ic.selector)
           /\ \A path \in ToSet(ic.selector) : Walkable(path)
           /\ \A f \in ToSet(ic.fields) : \A path \in ToSet(f) : Walkable(path)
<1>1. PICK i \in DOMAIN d.ics[e] : ic = d.ics[e][i]
  BY DEF ToSet
<1>2. ArePaths(ic.selector) /\ \A j \in DOMAIN ic.fields : ArePaths(ic.fields[j])
  BY <1>1 DEF IsInstance
<1>3. \A f \in ToSet(ic.fields) : ArePaths(f)
  BY <1>2 DEF ToSet
<1>4. ASSUME NEW paths, ArePaths(paths), NEW path \in ToSet(paths) PROVE Walkable(path)
  BY <1>4 DEF ArePaths, IsList, ToSet, Walkable
<1>5. ic.selector \in Seq({ic.selector[j] : j \in DOMAIN ic.selector})
  BY <1>2 DEF ArePaths, IsList
<1>6. Len(ic.selector) \in Nat /\ DOMAIN ic.selector = 1..Len(ic.selector)
  BY <1>5
<1> QED  BY <1>2, <1>3, <1>4, <1>6

(* The targets that give a tuple, and their tuples, when cur is left.      *)
FullTargets(d, scope, ic) == {t \in SelectTargets(d, scope, ic.selector) : Full(d, ic, t)}

LEMMA TuplesAreThose ==
    ASSUME IInv, WalkOK, Return, NEW ic \in ToSet(doc.ics[cur])
    PROVE  /\ SelectTargets(doc, cur, ic.selector) = Abstract!Qualified(doc, cur, ic.selector)
           /\ \A t \in SelectTargets(doc, cur, ic.selector) : \A f \in ToSet(ic.fields) :
                 FieldNodes(doc, t, f) = Abstract!Nodes(doc, t, f)
           /\ {KeyTuple(doc, ic, t) : t \in FullTargets(doc, cur, ic)} = Abstract!TuplesOf(doc, cur, ic)
<1>1. /\ \A path \in ToSet(ic.selector) : Walkable(path)
      /\ \A f \in ToSet(ic.fields) : \A path \in ToSet(f) : Walkable(path)
  BY ReturnStep, DocIsInstance, ConstraintData
<1>2. /\ SelectTargets(doc, cur, ic.selector) = Abstract!Qualified(doc, cur, ic.selector)
      /\ \A t \in SelectTargets(doc, cur, ic.selector) : Below(t)
  BY <1>1, TargetsQualified
<1>3. \A t \in SelectTargets(doc, cur, ic.selector) : \A f \in ToSet(ic.fields) :
         /\ FieldNodes(doc, t, f) = Abstract!Nodes(doc, t, f)
         /\ \A n \in FieldNodes(doc, t, f) : Below(n[1])
  BY <1>1, <1>2, FieldsStand
<1>4. \A t \in SelectTargets(doc, cur, ic.selector) : Full(doc, ic, t) <=> Abstract!Complete(doc, ic, t)
  <2>1. ToSet(ic.fields) = Abstract!ToSet(ic.fields) /\ \A S : JustOne(S) <=> Abstract!JustOne(S)
    BY DEF Abstract!ToSet, ToSet, JustOne, AtMostOne, Abstract!JustOne, Abstract!AtMostOne
  <2> QED  BY <1>3, <2>1 DEF Full, Abstract!Complete
<1>5. FullTargets(doc, cur, ic) = {x \in Abstract!Qualified(doc, cur, ic.selector) : Abstract!Complete(doc, ic, x)}
  BY <1>2, <1>4 DEF FullTargets
<1> DEFINE F == FullTargets(doc, cur, ic)
           Tup(t) == [at |-> t, vals |-> [i \in DOMAIN ic.fields |->
                        Abstract!NodeValue(doc, CHOOSE n \in Abstract!Nodes(doc, t, ic.fields[i]) : TRUE)]]
<1>6. ASSUME NEW t \in F, NEW i \in DOMAIN ic.fields
      PROVE  FieldValue(doc, CHOOSE n \in FieldNodes(doc, t, ic.fields[i]) : TRUE)
             = Abstract!NodeValue(doc, CHOOSE n \in Abstract!Nodes(doc, t, ic.fields[i]) : TRUE)
  <2>1. ic.fields[i] \in ToSet(ic.fields) /\ t \in SelectTargets(doc, cur, ic.selector) /\ Full(doc, ic, t)
    BY DEF ToSet, FullTargets
  <2>2. FieldNodes(doc, t, ic.fields[i]) = Abstract!Nodes(doc, t, ic.fields[i])
    BY <1>3, <2>1
  <2>3. FieldNodes(doc, t, ic.fields[i]) # {}
    BY <2>1 DEF Full, JustOne
  <2> DEFINE node == CHOOSE n \in FieldNodes(doc, t, ic.fields[i]) : TRUE
  <2>4. node \in FieldNodes(doc, t, ic.fields[i])
    BY <2>3
  <2> HIDE DEF node
  <2>5. Below(node[1])
    BY <1>3, <2>1, <2>4
  <2>6. node[1] \in visited <=> node[1] \in Abstract!Assessed(doc)
    BY <2>5, ReturnDone DEF Below
  <2>7. FieldValue(doc, node) = Abstract!NodeValue(doc, node)
    <3>1. (node[1] \in visited /\ doc.values[node[1]][node[2]].typed)
          = (node[1] \in Abstract!Assessed(doc) /\ doc.values[node[1]][node[2]].typed)
      BY <2>6
    <3> QED  BY <3>1 DEF FieldValue, Abstract!NodeValue
  <2> QED  BY <2>2, <2>7 DEF node
<1>7. \A t \in F : KeyTuple(doc, ic, t) = Tup(t)
  <2> SUFFICES ASSUME NEW t \in F PROVE KeyTuple(doc, ic, t) = Tup(t)
    OBVIOUS
  <2> DEFINE a(i) == FieldValue(doc, CHOOSE n \in FieldNodes(doc, t, ic.fields[i]) : TRUE)
             b(i) == Abstract!NodeValue(doc, CHOOSE n \in Abstract!Nodes(doc, t, ic.fields[i]) : TRUE)
  <2>1. \A i \in DOMAIN ic.fields : a(i) = b(i)
    BY <1>6
  <2>2. KeyTuple(doc, ic, t) = [at |-> t, vals |-> [i \in DOMAIN ic.fields |-> a(i)]]
    BY DEF KeyTuple
  <2>3. Tup(t) = [at |-> t, vals |-> [i \in DOMAIN ic.fields |-> b(i)]]
    OBVIOUS
  <2> HIDE DEF a, b, F, Tup
  <2>4. [i \in DOMAIN ic.fields |-> a(i)] = [i \in DOMAIN ic.fields |-> b(i)]
    BY <2>1
  <2> QED  BY <2>2, <2>3, <2>4
<1>8. Abstract!TuplesOf(doc, cur, ic) = {Tup(t) : t \in F}
  BY <1>5 DEF Abstract!TuplesOf
<1> HIDE DEF F, Tup
<1>9. {KeyTuple(doc, ic, t) : t \in F} = {Tup(t) : t \in F}
  BY <1>7
<1>10. \A t \in SelectTargets(doc, cur, ic.selector) : \A f \in ToSet(ic.fields) :
          FieldNodes(doc, t, f) = Abstract!Nodes(doc, t, f)
  BY <1>3
<1> QED  BY <1>2, <1>8, <1>9, <1>10 DEF F

-----------------------------------------------------------------------------
(* Of equal tuples the first is kept.                                      *)
Keeps(K, tuple, turn, T) ==
    \A t \in T : t \in K <=> \A u \in K : turn[u] < turn[t] => ~TupleEqual(tuple[t].vals, tuple[u].vals)

LEMMA KeptExists ==
    ASSUME NEW T, NEW tuple, NEW turn \in [T -> Nat], NEW N \in Nat, \A t \in T : turn[t] < N
    PROVE  \E K \in SUBSET T : Keeps(K, tuple, turn, T)
<1> DEFINE Before(n) == {t \in T : turn[t] < n}
           S == {n \in Nat : \E K \in SUBSET Before(n) : Keeps(K, tuple, turn, Before(n))}
<1>1. 0 \in S
  <2>1. Before(0) = {}
    OBVIOUS
  <2>2. Keeps({}, tuple, turn, Before(0))
    BY <2>1 DEF Keeps
  <2> QED  BY <2>2
<1>2. ASSUME NEW n \in Nat, n \in S PROVE n + 1 \in S
  <2>1. PICK K \in SUBSET Before(n) : Keeps(K, tuple, turn, Before(n))
    BY <1>2
  <2> DEFINE New == {t \in T : turn[t] = n /\ \A u \in K : ~TupleEqual(tuple[t].vals, tuple[u].vals)}
             J == K \cup New
  <2>2. J \in SUBSET Before(n + 1)
    OBVIOUS
  <2>3. \A t \in New : turn[t] = n
    OBVIOUS
  <2>4. \A t \in K : turn[t] < n /\ t \in T
    OBVIOUS
  <2>5. \A t \in T : turn[t] = n => (t \in New <=> \A u \in K : ~TupleEqual(tuple[t].vals, tuple[u].vals))
    OBVIOUS
  <2> HIDE DEF New
  <2>6. ASSUME NEW t \in T, turn[t] < n
        PROVE  t \in J <=> \A u \in J : turn[u] < turn[t] => ~TupleEqual(tuple[t].vals, tuple[u].vals)
    <3>1. t \in Before(n) /\ t \notin New
      BY <2>3, <2>6
    <3>2. \A u \in J : turn[u] < turn[t] => u \in K
      BY <2>3, <2>6
    <3>3. t \in K <=> \A u \in K : turn[u] < turn[t] => ~TupleEqual(tuple[t].vals, tuple[u].vals)
      BY <2>1, <3>1 DEF Keeps
    <3> HIDE DEF Before
    <3> QED  BY <3>1, <3>2, <3>3
  <2>7. ASSUME NEW t \in T, turn[t] = n
        PROVE  t \in J <=> \A u \in J : turn[u] < turn[t] => ~TupleEqual(tuple[t].vals, tuple[u].vals)
    <3>1. t \notin K
      BY <2>4, <2>7
    <3>2. \A u \in J : turn[u] < turn[t] <=> u \in K
      BY <2>3, <2>4, <2>7
    <3>3. t \in New <=> \A u \in K : ~TupleEqual(tuple[t].vals, tuple[u].vals)
      BY <2>5, <2>7
    <3> HIDE DEF Before
    <3> QED  BY <3>1, <3>2, <3>3
  <2>8. \A t \in Before(n + 1) : t \in T /\ (turn[t] < n \/ turn[t] = n)
    OBVIOUS
  <2> HIDE DEF J, Before
  <2>9. Keeps(J, tuple, turn, Before(n + 1))
    BY <2>6, <2>7, <2>8 DEF Keeps
  <2> QED  BY <2>2, <2>9
<1>3. Nat \subseteq S
  <2> HIDE DEF S
  <2> QED  BY <1>1, <1>2, InductionOnNat
<1>4. Before(N) = T
  OBVIOUS
<1>5. \E K \in SUBSET Before(N) : Keeps(K, tuple, turn, Before(N))
  BY <1>3
<1> QED  BY <1>4, <1>5

LEMMA KeptIs ==
    ASSUME NEW T, NEW tuple, DOMAIN tuple = T, NEW turn \in [T -> Nat], NEW N \in Nat, \A t \in T : turn[t] < N
    PROVE  Kept(tuple, turn) \in SUBSET T /\ Keeps(Kept(tuple, turn), tuple, turn, T)
<1>1. \E K \in SUBSET DOMAIN tuple : Keeps(K, tuple, turn, T)
  BY KeptExists
<1>2. Kept(tuple, turn) = CHOOSE K \in SUBSET DOMAIN tuple : Keeps(K, tuple, turn, T)
  BY DEF Kept, Keeps
<1>3. Kept(tuple, turn) \in SUBSET DOMAIN tuple /\ Keeps(Kept(tuple, turn), tuple, turn, T)
  BY <1>1, <1>2
<1> QED  BY <1>3

(* Unless two are equal all of them are.                                   *)
LEMMA KeptIsAll ==
    ASSUME NEW T, NEW tuple, NEW turn \in [T -> Nat], NEW K \in SUBSET T, Keeps(K, tuple, turn, T),
           \A t, u \in T : t # u => turn[t] # turn[u],
           \A t, u \in T : TupleEqual(tuple[t].vals, tuple[u].vals) => TupleEqual(tuple[u].vals, tuple[t].vals)
    PROVE  K = T <=> \A t, u \in T : t # u => ~TupleEqual(tuple[t].vals, tuple[u].vals)
<1>1. ASSUME K = T, NEW t \in T, NEW u \in T, t # u, TupleEqual(tuple[t].vals, tuple[u].vals) PROVE FALSE
  <2>1. turn[t] \in Nat /\ turn[u] \in Nat /\ turn[t] # turn[u]
    BY <1>1
  <2>2. CASE turn[u] < turn[t]
    BY <1>1, <2>2 DEF Keeps
  <2>3. CASE turn[t] < turn[u]
    BY <1>1, <2>3 DEF Keeps
  <2> QED  BY <2>1, <2>2, <2>3
<1>2. ASSUME \A t, u \in T : t # u => ~TupleEqual(tuple[t].vals, tuple[u].vals), NEW t \in T PROVE t \in K
  <2>1. ASSUME NEW u \in K, turn[u] < turn[t] PROVE u # t
    BY <2>1
  <2> QED  BY <1>2, <2>1 DEF Keeps
<1> QED  BY <1>1, <1>2

LEMMA PositionIs ==
    ASSUME NEW d, IsInstance(d), NEW e \in d.els
    PROVE  Position(d, e) \in 1..Len(d.order) /\ d.order[Position(d, e)] = e /\ Len(d.order) \in Nat
<1>1. \E i \in 1..Len(d.order) : d.order[i] = e
  BY DEF IsInstance
<1>2. d.order \in Seq(d.els)
  BY DEF IsInstance
<1> QED  BY <1>1, <1>2 DEF Position

LEMMA PairsDiffer ==
    ASSUME NEW L \in Nat, NEW p \in Nat, NEW q \in 1..L, NEW r \in Nat, NEW s \in 1..L, p < r
    PROVE  p * L + q # r * L + s
<1>1. PICK k \in Nat : r = p + 1 + k
  <2>1. r - p - 1 \in Nat /\ r = p + 1 + (r - p - 1)
    OBVIOUS
  <2> QED  BY <2>1
<1>2. r * L = p * L + L + k * L
  BY <1>1
<1>3. k * L \in Nat /\ p * L \in Nat
  OBVIOUS
<1> QED  BY <1>2, <1>3

LEMMA PairBounded ==
    ASSUME NEW L \in Nat, NEW M \in Nat, NEW p \in 0..M, NEW q \in 1..L
    PROVE  p * L + q \in Nat /\ p * L + q < M * L + L + 1
<1>1. PICK k \in Nat : M = p + k
  <2>1. M - p \in Nat /\ M = p + (M - p)
    OBVIOUS
  <2> QED  BY <2>1
<1>2. M * L = p * L + k * L
  BY <1>1
<1>3. k * L \in Nat /\ p * L \in Nat
  OBVIOUS
<1> QED  BY <1>2, <1>3

(* The first alternative that leads to a target, and the base it does so   *)
(* from.                                                                   *)
LEMMA AlternativeIs ==
    ASSUME NEW d, NEW scope, NEW selector, DOMAIN selector = 1..Len(selector), Len(selector) \in Nat,
           NEW t \in SelectTargets(d, scope, selector)
    PROVE  /\ Alternative(d, scope, selector, t) \in DOMAIN selector
           /\ t \in PathTargets(d, scope, selector[Alternative(d, scope, selector, t)])
<1> DEFINE A == {a \in DOMAIN selector : t \in PathTargets(d, scope, selector[a])}
           First(a) == /\ t \in PathTargets(d, scope, selector[a])
                       /\ \A b \in DOMAIN selector : b < a => t \notin PathTargets(d, scope, selector[b])
<1>1. A \in SUBSET Nat /\ A # {}
  <2>1. PICK path \in ToSet(selector) : t \in PathTargets(d, scope, path)
    BY DEF SelectTargets
  <2>2. PICK a \in DOMAIN selector : path = selector[a]
    BY <2>1 DEF ToSet
  <2> QED  BY <2>1, <2>2
<1>2. PICK a \in A : \A b \in A : a <= b
  <2> HIDE DEF A
  <2> QED  BY <1>1, LeastNumber
<1>3. a \in DOMAIN selector /\ First(a)
  <2>1. \A b \in DOMAIN selector : b < a => b \notin A
    BY <1>1, <1>2
  <2> QED  BY <1>2, <2>1
<1>4. Alternative(d, scope, selector, t) = CHOOSE x \in DOMAIN selector : First(x)
  BY DEF Alternative
<1> QED  BY <1>3, <1>4

BaseOf(d, bases, steps, t) == CHOOSE b \in bases : t \in Reached(d, {b}, steps)

LEMMA BaseIs ==
    ASSUME NEW d, NEW bases \in SUBSET d.els, NEW steps, Len(steps) \in Nat, NEW t \in Reached(d, bases, steps)
    PROVE  t \in d.els /\ BaseOf(d, bases, steps, t) \in bases
<1>1. PICK way : WayTo(d, bases, steps, Len(steps), way, t)
  BY ReachedIs
<1>2. way[0] \in bases /\ WayTo(d, {way[0]}, steps, Len(steps), way, t) /\ t \in d.els
  BY <1>1 DEF WayTo
<1>3. {way[0]} \in SUBSET d.els
  BY <1>2
<1>4. t \in Reached(d, {way[0]}, steps)
  BY <1>2, <1>3, ReachedIs
<1> QED  BY <1>2, <1>4 DEF BaseOf

Rounds(d, selector) == Len(selector) * Len(d.order) + Len(d.order)
LastTurn(d, selector) == Rounds(d, selector) * Len(d.order) + Len(d.order) + 1

LEMMA TurnParts ==
    ASSUME IInv, WalkOK, Return, NEW selector, DOMAIN selector = 1..Len(selector), Len(selector) \in Nat,
           \A path \in ToSet(selector) : Walkable(path), NEW t \in SelectTargets(doc, cur, selector)
    PROVE  \E p \in 0..Rounds(doc, selector) :
              Turn(doc, cur, selector, t) = p * Len(doc.order) + Position(doc, t)
<1> DEFINE alt  == Alternative(doc, cur, selector, t)
           path == selector[alt]
           bases == Bases(doc, cur, path)
           base == CHOOSE b \in bases : t \in Reached(doc, {b}, path.steps)
           L    == Len(doc.order)
           A    == Len(selector)
           q    == Position(doc, base)
<1>1. alt \in 1..A /\ t \in PathTargets(doc, cur, path) /\ path \in ToSet(selector)
  <2>1. alt \in DOMAIN selector /\ t \in PathTargets(doc, cur, path)
    BY AlternativeIs
  <2> QED  BY <2>1 DEF ToSet
<1> HIDE DEF alt
<1>2. IsInstance(doc) /\ IsTree(doc) /\ bases \in SUBSET doc.els
  BY DocIsInstance, CurBelow, BasesIs DEF Below
<1>3. base \in doc.els
  <2>1. Len(path.steps) \in Nat /\ t \in Reached(doc, bases, path.steps)
    BY <1>1 DEF Walkable, PathTargets
  <2>2. base = BaseOf(doc, bases, path.steps, t)
    BY DEF BaseOf
  <2> HIDE DEF bases, path, base
  <2>3. BaseOf(doc, bases, path.steps, t) \in bases
    BY <1>2, <2>1, BaseIs
  <2> QED  BY <1>2, <2>2, <2>3
<1>4. Turn(doc, cur, selector, t) = (alt * L + q) * L + Position(doc, t)
  BY DEF Turn, alt
<1> HIDE DEF base
<1>5. L \in Nat /\ q \in 1..L
  BY <1>2, <1>3, PositionIs
<1>6. alt * L + q \in 0..(A * L + L)
  <2> HIDE DEF L, A, q
  <2>1. A \in Nat
    BY DEF A
  <2>2. PICK k \in Nat : A = alt + k
    <3>1. A - alt \in Nat /\ A = alt + (A - alt)
      BY <1>1, <2>1
    <3> QED  BY <3>1
  <2>3. A * L = alt * L + k * L /\ alt * L \in Nat /\ k * L \in Nat
    BY <1>1, <1>5, <2>2
  <2> QED  BY <1>5, <2>3
<1> QED  BY <1>4, <1>6 DEF Rounds

LEMMA TurnsDiffer ==
    ASSUME IInv, WalkOK, Return, NEW selector, DOMAIN selector = 1..Len(selector), Len(selector) \in Nat,
           \A path \in ToSet(selector) : Walkable(path)
    PROVE  \A t \in SelectTargets(doc, cur, selector) :
              /\ Turn(doc, cur, selector, t) \in Nat /\ Turn(doc, cur, selector, t) < LastTurn(doc, selector)
              /\ \A u \in SelectTargets(doc, cur, selector) : t # u => Turn(doc, cur, selector, t) # Turn(doc, cur, selector, u)
<1> DEFINE L == Len(doc.order)
           M == Rounds(doc, selector)
           Targets == SelectTargets(doc, cur, selector)
           Round(p, t) == p \in 0..M /\ Turn(doc, cur, selector, t) = p * L + Position(doc, t)
<1>1. IsInstance(doc) /\ \A t \in Targets : t \in doc.els /\ \E p : Round(p, t)
  BY DocIsInstance, TurnParts, TargetsQualified DEF Below
<1>2. ASSUME NEW t \in Targets
      PROVE  L \in Nat /\ Position(doc, t) \in 1..L /\ doc.order[Position(doc, t)] = t
  BY <1>1, PositionIs
<1> HIDE DEF Targets
<1>3. ASSUME L \in Nat PROVE M \in Nat
  <2> HIDE DEF L
  <2>1. M = Len(selector) * L + L
    BY DEF Rounds, L
  <2>2. Len(selector) * L \in Nat
    BY <1>3
  <2> QED  BY <1>3, <2>1, <2>2
<1> HIDE DEF M
<1>4. ASSUME NEW t \in Targets PROVE Turn(doc, cur, selector, t) \in Nat /\ Turn(doc, cur, selector, t) < M * L + L + 1
  <2>1. PICK p : Round(p, t)
    BY <1>1
  <2> DEFINE q == Position(doc, t)
  <2>2. L \in Nat /\ M \in Nat /\ q \in 1..L
    BY <1>2, <1>3
  <2> HIDE DEF L, q
  <2>3. p * L + q \in Nat /\ p * L + q < M * L + L + 1
    BY <2>1, <2>2, PairBounded
  <2> QED  BY <2>1, <2>3 DEF q
<1>5. ASSUME NEW t \in Targets, NEW u \in Targets, t # u
      PROVE  Turn(doc, cur, selector, t) # Turn(doc, cur, selector, u)
  <2>1. PICK p : Round(p, t)
    BY <1>1
  <2>2. PICK r : Round(r, u)
    BY <1>1
  <2> DEFINE q == Position(doc, t)
             s == Position(doc, u)
  <2>3. L \in Nat /\ M \in Nat /\ q \in 1..L /\ s \in 1..L /\ q # s
    BY <1>2, <1>3, <1>5
  <2>4. p \in Nat /\ r \in Nat
    BY <2>1, <2>2, <2>3
  <2> HIDE DEF L, q, s
  <2>5. p * L + q # r * L + s
    <3>2. CASE p < r
      BY <2>3, <2>4, <3>2, PairsDiffer
    <3>3. CASE r < p
      <4>1. r * L + s # p * L + q
        BY <2>3, <2>4, <3>3, PairsDiffer
      <4> QED  BY <4>1
    <3>4. CASE p = r
      <4>1. p * L \in Nat /\ p * L = r * L /\ q \in Nat /\ s \in Nat
        BY <2>3, <2>4, <3>4
      <4> QED  BY <2>3, <4>1
    <3> QED  BY <2>4, <3>2, <3>3, <3>4
  <2> QED  BY <2>1, <2>2, <2>5 DEF q, s
<1>6. LastTurn(doc, selector) = M * L + L + 1
  BY DEF LastTurn, M
<1> QED  BY <1>4, <1>5, <1>6 DEF Targets

(* What evaluating a constraint of cur gives when cur is left.             *)
Evaluates(r, e, ic) ==
    /\ r.tuples \subseteq Abstract!TuplesOf(doc, e, ic)
    /\ r.tuples = Abstract!TuplesOf(doc, e, ic) \/ \E x \in r.errs : x.kind = "ic-duplicate"
    /\ ic.category = "keyref" => r.tuples = Abstract!TuplesOf(doc, e, ic)
    /\ (\E x \in r.errs : x.kind = "ic-duplicate") <=> ic.category # "keyref" /\ ~Abstract!DistinctOK(doc, e, ic)
    /\ (\E x \in r.errs : x.kind \in {"ic-many", "ic-missing"}) <=> ~Abstract!CardinalityOK(doc, e, ic)

(* The fields have as many nodes as they may, unless an error is reported. *)
LEMMA CardinalityReported ==
    ASSUME NEW d, NEW e, NEW ic, NEW targets, targets = Abstract!Qualified(d, e, ic.selector),
           \A t \in targets : \A f \in ToSet(ic.fields) : FieldNodes(d, t, f) = Abstract!Nodes(d, t, f)
    PROVE  Abstract!CardinalityOK(d, e, ic) <=>
              ~(\E t \in targets : Many(d, ic, t)) /\ ~(ic.category = "key" /\ \E t \in targets : Missing(d, ic, t))
<1>1. /\ ToSet(ic.fields) = Abstract!ToSet(ic.fields)
      /\ \A S : (JustOne(S) <=> Abstract!JustOne(S)) /\ (AtMostOne(S) <=> Abstract!AtMostOne(S))
                /\ (JustOne(S) => AtMostOne(S))
  BY DEF Abstract!ToSet, ToSet, JustOne, AtMostOne, Abstract!JustOne, Abstract!AtMostOne
<1>2. Abstract!CardinalityOK(d, e, ic) <=> \A t \in targets : \A f \in ToSet(ic.fields) :
         IF ic.category = "key" THEN JustOne(FieldNodes(d, t, f)) ELSE AtMostOne(FieldNodes(d, t, f))
  BY <1>1 DEF Abstract!CardinalityOK
<1>3. CASE ic.category = "key"
  <2>1. Abstract!CardinalityOK(d, e, ic) <=> \A t \in targets : Full(d, ic, t)
    BY <1>2, <1>3 DEF Full
  <2>2. \A t : Full(d, ic, t) => ~Many(d, ic, t)
    BY <1>1 DEF Full, Many
  <2> QED  BY <1>3, <2>1, <2>2 DEF Missing
<1>4. CASE ic.category # "key"
  BY <1>2, <1>4 DEF Many
<1> QED  BY <1>3, <1>4

LEMMA Evaluated ==
    ASSUME IInv, WalkOK, Return, NEW ic \in ToSet(doc.ics[cur])
    PROVE  Evaluates(EvalConstraint(doc, cur, ic), cur, ic)
<1> DEFINE targets == SelectTargets(doc, cur, ic.selector)
           full    == {t \in targets : Full(doc, ic, t)}
           tuple   == [t \in full |-> KeyTuple(doc, ic, t)]
           turn    == [t \in full |-> Turn(doc, cur, ic.selector, t)]
           kept    == IF ic.category = "keyref" THEN full ELSE Kept(tuple, turn)
           many    == \E t \in targets : Many(doc, ic, t)
           missing == ic.category = "key" /\ \E t \in targets : Missing(doc, ic, t)
           dup     == kept # full
           Report(kind, cond) == IF cond THEN {Error(kind, cur)} ELSE {}
           r       == EvalConstraint(doc, cur, ic)
           L       == LastTurn(doc, ic.selector)
           O       == Abstract!TuplesOf(doc, cur, ic)
<1>1. /\ cur \in doc.els /\ IsInstance(doc)
      /\ Len(ic.selector) \in Nat /\ DOMAIN ic.selector = 1..Len(ic.selector)
      /\ \A path \in ToSet(ic.selector) : Walkable(path)
  BY ReturnStep, DocIsInstance, ConstraintData
<1>2. targets = Abstract!Qualified(doc, cur, ic.selector)
      /\ {KeyTuple(doc, ic, t) : t \in full} = O
  BY TuplesAreThose DEF FullTargets
<1>3. r.tuples = {tuple[t] : t \in kept}
      /\ r.errs = Report("ic-many", many) \cup Report("ic-missing", missing) \cup Report("ic-duplicate", dup)
  BY DEF EvalConstraint
<1>4. kept \in SUBSET full /\ (ic.category # "keyref" =>
         (kept = full <=> \A t, u \in full : t # u => ~TupleEqual(tuple[t].vals, tuple[u].vals)))
  <2>1. CASE ic.category = "keyref"
    BY <2>1
  <2>2. CASE ic.category # "keyref"
    <3>1. \A t \in full : /\ turn[t] \in Nat /\ turn[t] < L
                          /\ \A u \in full : t # u => turn[t] # turn[u]
      BY <1>1, TurnsDiffer
    <3>2. L \in Nat
      <4> DEFINE n == Len(doc.order)
                 m == Len(ic.selector)
      <4>1. n \in Nat /\ m \in Nat /\ L = (m * n + n) * n + n + 1
        BY <1>1, PositionIs DEF LastTurn, Rounds
      <4> HIDE DEF n, m, L
      <4>2. m * n \in Nat
        BY <4>1
      <4>3. (m * n + n) * n \in Nat
        BY <4>1, <4>2
      <4> QED  BY <4>1, <4>3
    <3>3. \A t, u \in full : TupleEqual(tuple[t].vals, tuple[u].vals) => TupleEqual(tuple[u].vals, tuple[t].vals)
      <4> SUFFICES ASSUME NEW t \in full, NEW u \in full, TupleEqual(tuple[t].vals, tuple[u].vals)
                   PROVE  TupleEqual(tuple[u].vals, tuple[t].vals)
        OBVIOUS
      <4>1. DOMAIN tuple[t].vals = DOMAIN ic.fields /\ DOMAIN tuple[u].vals = DOMAIN ic.fields
        BY DEF KeyTuple
      <4> HIDE DEF tuple, full
      <4> QED  BY <4>1 DEF TupleEqual, FieldsEqual
    <3>4. DOMAIN tuple = full /\ turn \in [full -> Nat] /\ kept = Kept(tuple, turn)
      BY <2>2, <3>1
    <3> HIDE DEF full, tuple, turn, kept, L
    <3>5. kept \in SUBSET full /\ Keeps(kept, tuple, turn, full)
      BY <3>1, <3>2, <3>4, KeptIs
    <3> QED  BY <2>2, <3>1, <3>3, <3>4, <3>5, KeptIsAll
  <2> QED  BY <2>1, <2>2
<1>5. \A t \in full : tuple[t] = KeyTuple(doc, ic, t) /\ tuple[t].at = t
  BY DEF KeyTuple
<1>6. Abstract!DistinctOK(doc, cur, ic) <=> \A t, u \in full : t # u => ~TupleEqual(tuple[t].vals, tuple[u].vals)
  <2>1. O = {tuple[t] : t \in full}
    BY <1>2, <1>5, ZenonT(20)
  <2>2. Abstract!DistinctOK(doc, cur, ic) <=> \A s, t \in O : s.at # t.at => ~TupleEqual(s.vals, t.vals)
    BY SameEquality DEF Abstract!DistinctOK
  <2> HIDE DEF O, full, tuple
  <2> QED  BY <1>5, <2>1, <2>2
<1>7. Abstract!CardinalityOK(doc, cur, ic) <=> ~many /\ ~missing
  <2>1. \A t \in targets : \A f \in ToSet(ic.fields) : FieldNodes(doc, t, f) = Abstract!Nodes(doc, t, f)
    BY TuplesAreThose
  <2> HIDE DEF targets
  <2> QED  BY <1>2, <2>1, CardinalityReported
<1>8. /\ (\E x \in r.errs : x.kind = "ic-duplicate") <=> dup
      /\ (\E x \in r.errs : x.kind \in {"ic-many", "ic-missing"}) <=> many \/ missing
  <2> HIDE DEF r, many, missing, dup
  <2> DEFINE M == Error("ic-many", cur)
             S == Error("ic-missing", cur)
             D == Error("ic-duplicate", cur)
  <2>1. M.kind = "ic-many" /\ S.kind = "ic-missing" /\ D.kind = "ic-duplicate"
    BY DEF Error
  <2>2. \A x : x \in r.errs <=> (many /\ x = M) \/ (missing /\ x = S) \/ (dup /\ x = D)
    BY <1>3
  <2> HIDE DEF M, S, D
  <2> QED  BY <2>1, <2>2
<1>9. r.tuples \subseteq O /\ (~dup => r.tuples = O) /\ (ic.category = "keyref" => r.tuples = O)
  <2>1. O = {tuple[t] : t \in full}
    BY <1>2, <1>5, ZenonT(20)
  <2>2. ic.category = "keyref" => kept = full
    OBVIOUS
  <2> HIDE DEF O, full, tuple, kept, r
  <2> QED  BY <1>3, <1>4, <2>1, <2>2
<1>10. dup <=> ic.category # "keyref" /\ ~Abstract!DistinctOK(doc, cur, ic)
  <2>1. ic.category = "keyref" => kept = full
    OBVIOUS
  <2> HIDE DEF full, tuple, kept
  <2> QED  BY <1>4, <1>6, <2>1
<1> HIDE DEF r, O, dup, many, missing
<1>11. Evaluates(r, cur, ic)
  BY <1>7, <1>8, <1>9, <1>10 DEF Evaluates, O
<1> QED  BY <1>11 DEF r

-----------------------------------------------------------------------------
(* What the tables hold.                                                   *)
TablesOK ==
    /\ \A kt \in keyTables :
          /\ kt.ic \in TableICs(doc, kt.at)
          /\ kt.tuples \subseteq Abstract!TuplesOf(doc, kt.at, kt.ic)
          /\ kt.tuples = Abstract!TuplesOf(doc, kt.at, kt.ic) \/ ErrorOf("ic-duplicate")
    /\ \A pk \in pending :
          /\ pk.ic \in DeferredICs(doc, pk.at)
          /\ pk.tuples = Abstract!TuplesOf(doc, pk.at, pk.ic)

(* Every constraint of an element that was left has its table.             *)
ClosedOK ==
    /\ \A e \in visited : e \in DOMAIN leave <=> e \notin Open /\ Placement(doc, e) = "decl" /\ ~Nilled(doc, e)
    /\ \A e \in DOMAIN leave : \A ic \in TableICs(doc, e) : \E kt \in keyTables : kt.at = e /\ kt.ic = ic

(* Every keyref of one is pending or has its verdict, unless a key is not  *)
(* distinct.                                                               *)
KeyrefsOK ==
    /\ \A e \in DOMAIN leave : \A ic \in DeferredICs(doc, e) :
          \/ \E pk \in pending : pk.at = e /\ pk.ic = ic
          \/ Abstract!KeyrefOK(doc, e, ic) \/ Error("keyref", e) \in errs
          \/ ErrorOf("ic-duplicate")
    /\ \A x \in errs : x.kind = "keyref" =>
          \/ x.at \in DOMAIN leave /\ \E ic \in DeferredICs(doc, x.at) : ~Abstract!KeyrefOK(doc, x.at, ic)
          \/ ErrorOf("ic-duplicate")
    /\ phase \in {"idrefs", "done"} => pending = {}

ConstraintsOK == TablesOK /\ ClosedOK /\ KeyrefsOK

LEMMA InitConstraints == Init => ConstraintsOK
BY DEF Init, ConstraintsOK, TablesOK, ClosedOK, KeyrefsOK

(* A step that neither leaves an element nor checks a keyref.              *)
LEMMA QuietConstraints ==
    ASSUME IInv, ConstraintsOK, UNCHANGED <<doc, leave, keyTables, pending>>,
           errs \subseteq errs', \A x \in errs' \ errs : x.kind # "keyref",
           \A e \in visited' : \/ e \in visited /\ (e \in Open' <=> e \in Open)
                               \/ e \notin visited /\ e \in Open',
           phase' \in {"idrefs", "done"} => pending = {}
    PROVE  ConstraintsOK'
<1>1. ErrorOf("ic-duplicate") => ErrorOf("ic-duplicate")'
  BY DEF ErrorOf
<1>2. DOMAIN leave \subseteq visited
  BY DEF IInv, TypeOK
<1>3. TablesOK'
  BY <1>1 DEF ConstraintsOK, TablesOK
<1>4. ClosedOK'
  <2>1. \A e \in visited' : e \in DOMAIN leave <=> e \notin Open' /\ Placement(doc, e) = "decl" /\ ~Nilled(doc, e)
    BY <1>2 DEF ConstraintsOK, ClosedOK
  <2> QED  BY <2>1 DEF ConstraintsOK, ClosedOK
<1>5. KeyrefsOK'
  BY <1>1 DEF ConstraintsOK, KeyrefsOK
<1> QED  BY <1>3, <1>4, <1>5 DEF ConstraintsOK

LEMMA EnterConstraints ==
    ASSUME IInv, ConstraintsOK, NEW e, e \notin visited, Enter(e), Open' = Open \cup {e},
           UNCHANGED <<doc, leave, keyTables, pending>>
    PROVE  ConstraintsOK'
<1>1. /\ visited' = visited \cup {e} /\ errs' = errs \cup IDErrs(doc, e) \cup ContentErrs(doc, e)
      /\ phase' \in {"walk", "panic"}
  BY DEF Enter
<1>2. \A x \in errs' \ errs : x.kind # "keyref"
  <2>1. \A x \in IDErrs(doc, e) : x.kind \in {"id-duplicate", "id-unbound"}
    BY ErrorKinds
  <2>2. \A x \in ContentErrs(doc, e) : x.kind \in {"value", "nilled-content", "particle", "no-children"}
    BY ErrorKinds
  <2> QED  BY <1>1, <2>1, <2>2
<1>3. \A x \in visited' : \/ x \in visited /\ (x \in Open' <=> x \in Open)
                          \/ x \notin visited /\ x \in Open'
  BY <1>1
<1> QED  BY <1>1, <1>2, <1>3, QuietConstraints

(* Leaving an element adds the tables of its constraints.                  *)
LEMMA ReturnConstraints ==
    ASSUME IInv, WalkOK, ConstraintsOK, Return
    PROVE  ConstraintsOK'
<1>1. /\ phase = "walk" /\ cur \in doc.els /\ cur \in visited /\ cur \in Open /\ Open' = Open \ {cur}
      /\ phase' \in {"walk", "keyrefs"}
      /\ UNCHANGED <<doc, next, clock, enter, visited, skipped, ids, idrefs>>
  BY ReturnStep
<1>2. cur \notin DOMAIN leave
  BY <1>1 DEF IInv, Intervals, ClosedIsNotOpen
<1>3. CASE ~(Placement(doc, cur) = "decl" /\ ~Nilled(doc, cur))
  <2>1. errs' = errs \cup EDCErrs(doc, cur) /\ UNCHANGED <<keyTables, pending, leave>>
    BY <1>3 DEF Return
  <2>2. \A x \in errs' \ errs : x.kind # "keyref"
    <3>1. \A x \in EDCErrs(doc, cur) : x.kind = "edc"
      BY ErrorKinds
    <3> QED  BY <2>1, <3>1
  <2>3. ErrorOf("ic-duplicate") => ErrorOf("ic-duplicate")'
    BY <2>1 DEF ErrorOf
  <2>4. TablesOK'
    BY <1>1, <2>1, <2>3 DEF ConstraintsOK, TablesOK
  <2>5. ClosedOK'
    BY <1>1, <1>3, <2>1 DEF ConstraintsOK, ClosedOK
  <2>6. KeyrefsOK'
    BY <1>1, <2>1, <2>2, <2>3 DEF ConstraintsOK, KeyrefsOK
  <2> QED  BY <2>4, <2>5, <2>6 DEF ConstraintsOK
<1>4. CASE Placement(doc, cur) = "decl" /\ ~Nilled(doc, cur)
  <2> DEFINE Rec(ic) == [ic |-> ic, tuples |-> EvalConstraint(doc, cur, ic).tuples, enter |-> enter[cur],
                         leave |-> clock, at |-> cur]
  <2>1. /\ keyTables' = keyTables \cup {Rec(ic) : ic \in TableICs(doc, cur)}
        /\ pending' = pending \cup {Rec(ic) : ic \in DeferredICs(doc, cur)}
        /\ errs' = errs \cup ConstraintErrs(doc, cur) \cup EDCErrs(doc, cur)
        /\ leave' = Assign(leave, cur, clock)
    BY <1>4 DEF Return, Tables
  <2>2. DOMAIN leave' = DOMAIN leave \cup {cur}
    BY <2>1 DEF Assign
  <2>3. \A ic : Rec(ic).ic = ic /\ Rec(ic).at = cur /\ Rec(ic).tuples = EvalConstraint(doc, cur, ic).tuples
    OBVIOUS
  <2> HIDE DEF Rec
  <2>4. \A ic \in ToSet(doc.ics[cur]) : Evaluates(EvalConstraint(doc, cur, ic), cur, ic)
    BY Evaluated
  <2>5. \A ic : (ic \in TableICs(doc, cur) => ic \in ToSet(doc.ics[cur]) /\ ic.category # "keyref")
                /\ (ic \in DeferredICs(doc, cur) => ic \in ToSet(doc.ics[cur]) /\ ic.category = "keyref")
    BY DEF TableICs, DeferredICs, IsTable, IsDeferred
  <2>6. \A ic \in TableICs(doc, cur) \cup DeferredICs(doc, cur) : EvalConstraint(doc, cur, ic).errs \subseteq errs'
    BY <2>1 DEF ConstraintErrs
  <2>7. ErrorOf("ic-duplicate") => ErrorOf("ic-duplicate")'
    BY <2>1 DEF ErrorOf
  <2>8. \A x \in errs' \ errs : x.kind # "keyref"
    <3>1. \A x \in EDCErrs(doc, cur) : x.kind = "edc"
      BY ErrorKinds
    <3>2. \A x \in ConstraintErrs(doc, cur) : x.kind \in {"ic-many", "ic-missing", "ic-duplicate"}
      BY ErrorKinds
    <3> QED  BY <2>1, <3>1, <3>2
  <2>9. TablesOK'
    <3>1. ASSUME NEW ic \in TableICs(doc, cur)
          PROVE  /\ Rec(ic).tuples \subseteq Abstract!TuplesOf(doc, cur, ic)
                 /\ Rec(ic).tuples = Abstract!TuplesOf(doc, cur, ic) \/ ErrorOf("ic-duplicate")'
      <4>1. Evaluates(EvalConstraint(doc, cur, ic), cur, ic) /\ EvalConstraint(doc, cur, ic).errs \subseteq errs'
        BY <2>4, <2>5, <2>6
      <4> QED  BY <2>3, <4>1 DEF Evaluates, ErrorOf
    <3>2. ASSUME NEW ic \in DeferredICs(doc, cur) PROVE Rec(ic).tuples = Abstract!TuplesOf(doc, cur, ic)
      BY <2>3, <2>4, <2>5 DEF Evaluates
    <3>3. ASSUME NEW kt \in keyTables'
          PROVE  /\ kt.ic \in TableICs(doc, kt.at)
                 /\ kt.tuples \subseteq Abstract!TuplesOf(doc, kt.at, kt.ic)
                 /\ kt.tuples = Abstract!TuplesOf(doc, kt.at, kt.ic) \/ ErrorOf("ic-duplicate")'
      <4>1. CASE kt \in keyTables
        BY <2>7, <4>1 DEF ConstraintsOK, TablesOK
      <4>2. CASE kt \notin keyTables
        <5>1. PICK ic \in TableICs(doc, cur) : kt = Rec(ic)
          BY <2>1, <4>2
        <5> QED  BY <2>3, <3>1, <5>1
      <4> QED  BY <4>1, <4>2
    <3>4. ASSUME NEW pk \in pending'
          PROVE  pk.ic \in DeferredICs(doc, pk.at) /\ pk.tuples = Abstract!TuplesOf(doc, pk.at, pk.ic)
      <4>1. CASE pk \in pending
        BY <4>1 DEF ConstraintsOK, TablesOK
      <4>2. CASE pk \notin pending
        <5>1. PICK ic \in DeferredICs(doc, cur) : pk = Rec(ic)
          BY <2>1, <4>2
        <5> QED  BY <2>3, <3>2, <5>1
      <4> QED  BY <4>1, <4>2
    <3> QED  BY <1>1, <3>3, <3>4 DEF TablesOK
  <2>10. ClosedOK'
    <3>1. \A e \in visited : e \in DOMAIN leave' <=> e \notin Open' /\ Placement(doc, e) = "decl" /\ ~Nilled(doc, e)
      BY <1>1, <1>4, <2>2 DEF ConstraintsOK, ClosedOK
    <3>2. ASSUME NEW e \in DOMAIN leave', NEW ic \in TableICs(doc, e) PROVE \E kt \in keyTables' : kt.at = e /\ kt.ic = ic
      <4>1. CASE e \in DOMAIN leave
        BY <2>1, <4>1 DEF ConstraintsOK, ClosedOK
      <4>2. CASE e = cur
        <5>1. Rec(ic) \in keyTables' /\ Rec(ic).at = e /\ Rec(ic).ic = ic
          BY <2>1, <2>3, <4>2
        <5> QED  BY <5>1
      <4> QED  BY <2>2, <4>1, <4>2
    <3> QED  BY <1>1, <3>1, <3>2 DEF ClosedOK
  <2>11. KeyrefsOK'
    <3>1. ASSUME NEW e \in DOMAIN leave', NEW ic \in DeferredICs(doc, e)
          PROVE  \/ \E pk \in pending' : pk.at = e /\ pk.ic = ic
                 \/ Abstract!KeyrefOK(doc, e, ic) \/ Error("keyref", e) \in errs'
                 \/ ErrorOf("ic-duplicate")'
      <4>1. CASE e \in DOMAIN leave
        BY <2>1, <2>7, <4>1 DEF ConstraintsOK, KeyrefsOK
      <4>2. CASE e = cur
        <5>1. Rec(ic) \in pending' /\ Rec(ic).at = e /\ Rec(ic).ic = ic
          BY <2>1, <2>3, <4>2
        <5> QED  BY <5>1
      <4> QED  BY <2>2, <4>1, <4>2
    <3>2. ASSUME NEW x \in errs', x.kind = "keyref"
          PROVE  \/ x.at \in DOMAIN leave' /\ \E ic \in DeferredICs(doc, x.at) : ~Abstract!KeyrefOK(doc, x.at, ic)
                 \/ ErrorOf("ic-duplicate")'
      BY <2>2, <2>7, <2>8, <3>2 DEF ConstraintsOK, KeyrefsOK
    <3> QED  BY <1>1, <3>1, <3>2 DEF KeyrefsOK
  <2> QED  BY <2>9, <2>10, <2>11 DEF ConstraintsOK
<1> QED  BY <1>3, <1>4

(* After the walk the elements left are those that constraints apply to.   *)
LEMMA AllConstrained ==
    ASSUME IInv, WalkOK, ConstraintsOK, phase \in {"keyrefs", "idrefs", "done"}
    PROVE  DOMAIN leave = Abstract!Constrained(doc)
<1>1. visited = Abstract!Assessed(doc) /\ Open = {} /\ DOMAIN leave \subseteq visited
  BY WalkDone DEF Open, IInv, TypeOK
<1>2. \A e \in visited : e \in DOMAIN leave <=> Placement(doc, e) = "decl" /\ ~Nilled(doc, e)
  BY <1>1 DEF ConstraintsOK, ClosedOK
<1>3. \A e : e \in Abstract!Constrained(doc) <=> e \in visited /\ Placement(doc, e) = "decl" /\ ~Nilled(doc, e)
  BY <1>1, SameTerms DEF Abstract!Constrained
<1> QED  BY <1>1, <1>2, <1>3

(* The tables a keyref finds in scope hold the keys it may refer to.       *)
LEMMA FlushExact ==
    ASSUME IInv, WalkOK, ConstraintsOK, phase = "keyrefs", NEW pk \in pending, ~ErrorOf("ic-duplicate")
    PROVE  (\A t \in pk.tuples : TupleInSet(t, InScopeTuples(pk))) <=> Abstract!KeyrefOK(doc, pk.at, pk.ic)
<1> DEFINE C == Abstract!Constrained(doc)
           Keys(e) == {x \in Abstract!ToSet(doc.ics[e]) : x.id = pk.ic.refer /\ x.category # "keyref"}
           below == {e \in C : pk.at \in doc.anc[e]}
           keys == UNION {UNION {Abstract!TuplesOf(doc, e, k) : k \in Keys(e)} : e \in below}
<1>1. Abstract!KeyrefOK(doc, pk.at, pk.ic) <=> \A t \in Abstract!TuplesOf(doc, pk.at, pk.ic) : \E s \in keys : Abstract!SameTuple(t, s)
  BY DEF Abstract!KeyrefOK
<1>2. pk.tuples = Abstract!TuplesOf(doc, pk.at, pk.ic)
  BY DEF ConstraintsOK, TablesOK
<1>3. DOMAIN leave = C
  BY AllConstrained
<1>4. ScopeIsSubtree
  BY NestingFromIInv DEF IInv, Intervals, TablesAreScoped, IntervalNesting, ScopeIsSubtree, Within, Encloses
<1>5. \A e, k : k \in Keys(e) <=> k \in TableICs(doc, e) /\ k.id = pk.ic.refer
  BY DEF TableICs, IsTable, Abstract!ToSet, ToSet
<1>6. \A u : u \in keys <=> \E e \in C : pk.at \in doc.anc[e] /\ \E k \in Keys(e) : u \in Abstract!TuplesOf(doc, e, k)
  <2> HIDE DEF C, Keys
  <2> QED  OBVIOUS
<1>7. \A u : u \in InScopeTuples(pk) <=> \E kt \in keyTables : kt.ic.id = pk.ic.refer /\ pk.at \in doc.anc[kt.at] /\ u \in kt.tuples
  BY <1>4 DEF InScopeTuples, ScopeIsSubtree
<1> HIDE DEF C, Keys, keys
<1>8. ASSUME NEW u \in InScopeTuples(pk) PROVE u \in keys
  <2>1. PICK kt \in keyTables : kt.ic.id = pk.ic.refer /\ pk.at \in doc.anc[kt.at] /\ u \in kt.tuples
    BY <1>7
  <2>2. kt.ic \in TableICs(doc, kt.at) /\ u \in Abstract!TuplesOf(doc, kt.at, kt.ic) /\ kt.at \in C
    BY <1>3, <2>1 DEF ConstraintsOK, TablesOK, IInv, Intervals, TablesAreScoped
  <2> QED  BY <1>5, <1>6, <2>1, <2>2
<1>9. ASSUME NEW u \in keys PROVE u \in InScopeTuples(pk)
  <2>1. PICK e \in C : pk.at \in doc.anc[e] /\ \E k \in Keys(e) : u \in Abstract!TuplesOf(doc, e, k)
    BY <1>6
  <2>2. PICK k \in Keys(e) : u \in Abstract!TuplesOf(doc, e, k)
    BY <2>1
  <2>3. k \in TableICs(doc, e) /\ k.id = pk.ic.refer /\ e \in DOMAIN leave
    BY <1>3, <1>5
  <2>4. PICK kt \in keyTables : kt.at = e /\ kt.ic = k
    BY <2>3 DEF ConstraintsOK, ClosedOK
  <2>5. kt.tuples = Abstract!TuplesOf(doc, e, k)
    BY <2>4 DEF ConstraintsOK, TablesOK
  <2> QED  BY <1>7, <2>1, <2>2, <2>3, <2>4, <2>5
<1>10. \A t : TupleInSet(t, InScopeTuples(pk)) <=> \E s \in keys : Abstract!SameTuple(t, s)
  BY <1>8, <1>9, SameEquality DEF TupleInSet
<1> QED  BY <1>1, <1>2, <1>10

LEMMA FlushConstraints ==
    ASSUME IInv, WalkOK, ConstraintsOK, NEW pk \in pending, FlushKeyref(pk)
    PROVE  ConstraintsOK'
<1>1. /\ phase = "keyrefs" /\ pending' = pending \ {pk}
      /\ UNCHANGED <<doc, phase, leave, visited, cur, keyTables>>
      /\ (\A t \in pk.tuples : TupleInSet(t, InScopeTuples(pk))) => errs' = errs
      /\ ~(\A t \in pk.tuples : TupleInSet(t, InScopeTuples(pk))) => errs' = errs \cup {Error("keyref", pk.at)}
  BY DEF FlushKeyref, walkVars
<1>2. ErrorOf("ic-duplicate") <=> ErrorOf("ic-duplicate")'
  <2>1. Error("keyref", pk.at).kind = "keyref"
    BY DEF Error
  <2> QED  BY <1>1, <2>1 DEF ErrorOf
<1>3. TablesOK' /\ ClosedOK'
  <2>1. Open' = Open
    BY <1>1 DEF Open
  <2> QED  BY <1>1, <1>2, <2>1 DEF ConstraintsOK, TablesOK, ClosedOK
<1>4. ~ErrorOf("ic-duplicate") => ((\A t \in pk.tuples : TupleInSet(t, InScopeTuples(pk))) <=> Abstract!KeyrefOK(doc, pk.at, pk.ic))
  BY <1>1, FlushExact
<1>5. KeyrefsOK'
  <2>1. ASSUME NEW e \in DOMAIN leave, NEW ic \in DeferredICs(doc, e)
        PROVE  \/ \E p \in pending' : p.at = e /\ p.ic = ic
               \/ Abstract!KeyrefOK(doc, e, ic) \/ Error("keyref", e) \in errs'
               \/ ErrorOf("ic-duplicate")'
    <3>1. errs \subseteq errs'
      BY <1>1
    <3>2. CASE pk.at = e /\ pk.ic = ic
      BY <1>1, <1>2, <1>4, <3>2
    <3>3. CASE ~(pk.at = e /\ pk.ic = ic)
      BY <1>1, <1>2, <3>1, <3>3 DEF ConstraintsOK, KeyrefsOK
    <3> QED  BY <3>2, <3>3
  <2>2. ASSUME NEW x \in errs', x.kind = "keyref"
        PROVE  \/ x.at \in DOMAIN leave /\ \E ic \in DeferredICs(doc, x.at) : ~Abstract!KeyrefOK(doc, x.at, ic)
               \/ ErrorOf("ic-duplicate")'
    <3>1. CASE x \in errs
      BY <1>2, <2>2, <3>1 DEF ConstraintsOK, KeyrefsOK
    <3>2. CASE x \notin errs
      <4>1. x = Error("keyref", pk.at) /\ ~(\A t \in pk.tuples : TupleInSet(t, InScopeTuples(pk)))
        BY <1>1, <3>2
      <4>2. x.at = pk.at /\ pk.ic \in DeferredICs(doc, pk.at) /\ pk.at \in DOMAIN leave
        BY <4>1 DEF Error, ConstraintsOK, TablesOK, IInv, Intervals, TablesAreScoped
      <4> QED  BY <1>2, <1>4, <4>1, <4>2
    <3> QED  BY <3>1, <3>2
  <2> QED  BY <1>1, <2>1, <2>2 DEF KeyrefsOK
<1> QED  BY <1>3, <1>5 DEF ConstraintsOK

LEMMA NextConstraints == IInv /\ WalkOK /\ ConstraintsOK /\ [Next]_vars => ConstraintsOK'
<1> SUFFICES ASSUME IInv, WalkOK, ConstraintsOK, [Next]_vars PROVE ConstraintsOK'
  OBVIOUS
<1>1. CASE AssessRoot
  <2>1. /\ doc.root \notin visited /\ Enter(doc.root) /\ Open' = Open \cup {doc.root}
        /\ UNCHANGED <<doc, leave, keyTables, pending>>
    BY <1>1, RootStep
  <2> QED  BY <2>1, EnterConstraints
<1>2. CASE AssessChild
  <2>1. /\ Child \notin visited /\ Enter(Child) /\ Open' = Open \cup {Child}
        /\ UNCHANGED <<doc, leave, keyTables, pending>>
    BY <1>2, ChildStep
  <2> QED  BY <2>1, EnterConstraints
<1>3. CASE PassChild
  <2>1. /\ UNCHANGED <<doc, leave, keyTables, pending, visited, phase>> /\ Open' = Open /\ phase = "walk"
        /\ errs' = errs \cup PassErrs(Child)
    BY <1>3, PassStep
  <2>2. \A x \in errs' \ errs : x.kind # "keyref"
    <3>1. \A x \in PassErrs(Child) : x.kind = "no-declaration"
      BY ErrorKinds
    <3> QED  BY <2>1, <3>1
  <2> QED  BY <2>1, <2>2, QuietConstraints
<1>4. CASE Return
  BY <1>4, ReturnConstraints
<1>5. CASE RejectRoot
  <2>1. /\ UNCHANGED <<doc, leave, keyTables, pending, visited>> /\ Open' = Open /\ phase' = "keyrefs"
        /\ errs' = errs \cup {Error("no-declaration", doc.root)}
    BY <1>5 DEF RejectRoot, walkVars, Open
  <2>2. Error("no-declaration", doc.root).kind = "no-declaration"
    BY DEF Error
  <2> QED  BY <2>1, <2>2, QuietConstraints
<1>6. ASSUME NEW pk \in pending, FlushKeyref(pk) PROVE ConstraintsOK'
  BY <1>6, FlushConstraints
<1>7. CASE KeyrefsDone
  <2>1. UNCHANGED <<doc, leave, keyTables, pending, visited, errs>> /\ Open' = Open /\ pending = {}
    BY <1>7 DEF KeyrefsDone, walkVars, Open
  <2> QED  BY <2>1, QuietConstraints
<1>8. ASSUME NEW r \in idrefs, CheckIDRef(r) PROVE ConstraintsOK'
  <2>1. /\ UNCHANGED <<doc, leave, keyTables, pending, visited, phase>> /\ Open' = Open
        /\ errs' = errs \/ errs' = errs \cup {Error("idref", r.at)}
    BY <1>8 DEF CheckIDRef, walkVars, Open
  <2>2. Error("idref", r.at).kind = "idref"
    BY DEF Error
  <2>3. phase' \in {"idrefs", "done"} => pending = {}
    BY <2>1 DEF ConstraintsOK, KeyrefsOK
  <2> QED  BY <2>1, <2>2, <2>3, QuietConstraints
<1>9. CASE Finish
  <2>1. UNCHANGED <<doc, leave, keyTables, pending, visited, errs>> /\ Open' = Open /\ phase = "idrefs"
    BY <1>9 DEF Finish, walkVars, Open
  <2>2. pending = {}
    BY <2>1 DEF ConstraintsOK, KeyrefsOK
  <2> QED  BY <2>1, <2>2, QuietConstraints
<1>10. CASE UNCHANGED vars
  <2>1. UNCHANGED <<doc, leave, keyTables, pending, visited, errs, phase>> /\ Open' = Open
    BY <1>10 DEF vars, walkVars, Open
  <2>2. phase' \in {"idrefs", "done"} => pending = {}
    BY <2>1 DEF ConstraintsOK, KeyrefsOK
  <2> QED  BY <2>1, <2>2, QuietConstraints
<1> QED  BY <1>1, <1>2, <1>3, <1>4, <1>5, <1>6, <1>7, <1>8, <1>9, <1>10 DEF Next

-----------------------------------------------------------------------------
(* No tuple of a table comes from an element at or below a skipped one.    *)
LEMMA OpaqueHolds == IInv /\ WalkOK /\ ConstraintsOK => SkipOpaque
<1> SUFFICES ASSUME IInv, WalkOK, ConstraintsOK, NEW table \in keyTables \cup pending, NEW t \in table.tuples
             PROVE  doc.anc[t.at] \cap skipped = {}
  BY DEF SkipOpaque
<1>1. t \in Abstract!TuplesOf(doc, table.at, table.ic)
  BY DEF ConstraintsOK, TablesOK
<1>2. t.at \in Abstract!Qualified(doc, table.at, table.ic.selector)
  BY <1>1 DEF Abstract!TuplesOf
<1>3. Abstract!Skipped(doc) \cap doc.anc[t.at] = {}
  BY <1>2 DEF Abstract!Qualified, Abstract!Leads
<1> QED  BY <1>3, VisitedIsAssessed

LEMMA KeyrefVerdictHolds == IInv /\ WalkOK /\ ConstraintsOK => KeyrefVerdict
<1> SUFFICES ASSUME IInv, WalkOK, ConstraintsOK, phase \in {"idrefs", "done"},
                    NEW e \in Abstract!Constrained(doc), ~ErrorOf("ic-duplicate")
             PROVE  Error("keyref", e) \in errs <=>
                       \E ic \in ToSet(doc.ics[e]) : IsDeferred(ic) /\ ~Abstract!KeyrefOK(doc, e, ic)
  BY DEF KeyrefVerdict, ErrorOf
<1>1. e \in DOMAIN leave /\ pending = {}
  BY AllConstrained DEF ConstraintsOK, KeyrefsOK
<1>2. \A ic : ic \in DeferredICs(doc, e) <=> ic \in ToSet(doc.ics[e]) /\ IsDeferred(ic)
  BY DEF DeferredICs
<1>3. \A ic \in DeferredICs(doc, e) : Abstract!KeyrefOK(doc, e, ic) \/ Error("keyref", e) \in errs
  BY <1>1 DEF ConstraintsOK, KeyrefsOK
<1>4. Error("keyref", e).kind = "keyref" /\ Error("keyref", e).at = e
  BY DEF Error
<1>5. Error("keyref", e) \in errs => \E ic \in DeferredICs(doc, e) : ~Abstract!KeyrefOK(doc, e, ic)
  BY <1>4 DEF ConstraintsOK, KeyrefsOK
<1> QED  BY <1>2, <1>3, <1>5

-----------------------------------------------------------------------------
(* Every error has its cause in the document, and every cause its error.   *)
Unbound(d, e) == \E i \in DOMAIN Harvest(d, e) : Harvest(d, e)[i].k = "ID" /\ Harvest(d, e)[i].owner = NoElement

ErrorIn(kinds) == \E x \in errs : x.kind \in kinds

ContentKinds == {"value", "nilled-content", "particle", "no-children"}
CountKinds   == {"ic-many", "ic-missing"}
OtherKinds   == {"no-declaration", "edc", "id-duplicate", "id-unbound", "idref", "ic-duplicate", "keyref"}

(* The errors recorded on the way in, at the children passed over, and on  *)
(* the way out.                                                            *)
EntryOK ==
    /\ ErrorIn(ContentKinds) <=> \E e \in visited : ContentErrs(doc, e) # {}
    /\ ErrorOf("id-unbound") <=> \E e \in visited : Unbound(doc, e)
PassedOK ==
    ErrorOf("no-declaration") <=>
        \/ phase # "start" /\ ~Governed(doc, doc.root)
        \/ \E e \in visited : \E i \in 1..next[e] : Placement(doc, Walked(doc, e)[i]) = "error"
LeftOK ==
    /\ ErrorOf("edc") <=> \E e \in visited \ Open : EDCErrs(doc, e) # {}
    /\ ErrorIn(CountKinds) <=> \E e \in DOMAIN leave : \E ic \in TableICs(doc, e) \cup DeferredICs(doc, e) :
                                  ~Abstract!CardinalityOK(doc, e, ic)
    /\ ErrorOf("ic-duplicate") <=> \E e \in DOMAIN leave : \E ic \in TableICs(doc, e) :
                                      ~Abstract!DistinctOK(doc, e, ic)
CausesOK ==
    /\ \A x \in errs : x.kind \in ContentKinds \cup CountKinds \cup OtherKinds
    /\ EntryOK /\ PassedOK /\ LeftOK

LEMMA InitCauses == Init => CausesOK
BY DEF Init, CausesOK, EntryOK, PassedOK, LeftOK, ErrorOf, ErrorIn

(* A step that adds an error of one kind that has no part here.            *)
LEMMA QuietCauses ==
    ASSUME CausesOK, UNCHANGED <<doc, visited, next, leave>>, Open' = Open,
           errs \subseteq errs', \A x \in errs' \ errs : x.kind \in {"keyref", "idref"},
           phase' # "start", phase # "start"
    PROVE  CausesOK'
<1>1. \A kind : kind \notin {"keyref", "idref"} => (ErrorOf(kind)' <=> ErrorOf(kind))
  BY DEF ErrorOf
<1>2. (ErrorIn(ContentKinds)' <=> ErrorIn(ContentKinds)) /\ (ErrorIn(CountKinds)' <=> ErrorIn(CountKinds))
  BY DEF ErrorIn, ContentKinds, CountKinds
<1>3. \A x \in errs' : x.kind \in ContentKinds \cup CountKinds \cup OtherKinds
  BY DEF CausesOK, OtherKinds
<1>4. EntryOK' /\ LeftOK'
  BY <1>1, <1>2 DEF CausesOK, EntryOK, LeftOK
<1>5. PassedOK'
  BY <1>1 DEF CausesOK, PassedOK
<1> QED  BY <1>3, <1>4, <1>5 DEF CausesOK

LEMMA EnterCauses ==
    ASSUME IInv, WalkOK, CausesOK, NEW e \in doc.els, e \notin visited, Enter(e), Open' = Open \cup {e},
           UNCHANGED <<doc, leave>>, Governed(doc, doc.root) \/ phase # "start",
           \/ next' = next /\ phase = "start"
           \/ /\ phase = "walk" /\ cur \in doc.els /\ cur \in visited /\ next[cur] \in Nat
              /\ Placement(doc, Walked(doc, cur)[next[cur] + 1]) # "error"
              /\ next' = [next EXCEPT ![cur] = @ + 1]
    PROVE  CausesOK'
<1>1. /\ visited' = visited \cup {e} /\ errs' = errs \cup IDErrs(doc, e) \cup ContentErrs(doc, e)
      /\ phase' \in {"walk", "panic"}
  BY DEF Enter
<1>2. /\ \A x \in IDErrs(doc, e) : x.kind \in {"id-duplicate", "id-unbound"}
      /\ \A x \in ContentErrs(doc, e) : x.kind \in ContentKinds
  BY ErrorKinds DEF ContentKinds
<1>3. \A x \in errs' : x.kind \in ContentKinds \cup CountKinds \cup OtherKinds
  BY <1>1, <1>2 DEF CausesOK, OtherKinds
<1>4. (\E x \in IDErrs(doc, e) : x.kind = "id-unbound") <=> Unbound(doc, e)
  <2> DEFINE dup == \E i \in IDItems(doc, e) : Harvest(doc, e)[i].owner # Bearers(doc, e)[Harvest(doc, e)[i].v]
             unb == Unbound(doc, e)
             E1 == Error("id-duplicate", e)
             E2 == Error("id-unbound", e)
  <2>1. IDErrs(doc, e) = (IF dup THEN {E1} ELSE {}) \cup (IF unb THEN {E2} ELSE {})
    BY DEF IDErrs, Unbound
  <2>2. E1.kind = "id-duplicate" /\ E2.kind = "id-unbound"
    BY DEF Error
  <2> HIDE DEF dup, unb, E1, E2
  <2>3. (\E x \in IDErrs(doc, e) : x.kind = "id-unbound") <=> unb
    <3>1. \A x : x \in IDErrs(doc, e) <=> (dup /\ x = E1) \/ (unb /\ x = E2)
      BY <2>1
    <3> QED  BY <2>2, <3>1
  <2> QED  BY <2>3 DEF unb
<1>5. EntryOK'
  <2>1. ErrorOf("id-unbound")' <=> ErrorOf("id-unbound") \/ Unbound(doc, e)
    BY <1>1, <1>2, <1>4 DEF ErrorOf, ContentKinds
  <2>2. ErrorIn(ContentKinds)' <=> ErrorIn(ContentKinds) \/ ContentErrs(doc, e) # {}
    BY <1>1, <1>2 DEF ErrorIn, ContentKinds
  <2> QED  BY <1>1, <2>1, <2>2 DEF CausesOK, EntryOK
<1>6. \A kind \in {"no-declaration", "edc", "ic-duplicate", "ic-many", "ic-missing"} : ErrorOf(kind)' <=> ErrorOf(kind)
  BY <1>1, <1>2 DEF ErrorOf, ContentKinds
<1>7. LeftOK'
  <2>1. ErrorIn(CountKinds)' <=> ErrorIn(CountKinds)
    BY <1>6 DEF ErrorIn, ErrorOf, CountKinds
  <2>2. visited' \ Open' = visited \ Open
    BY <1>1
  <2> QED  BY <1>6, <2>1, <2>2 DEF CausesOK, LeftOK
<1>8. PassedOK'
  <2>1. visited \subseteq doc.els /\ next \in [doc.els -> Nat] /\ next[e] = 0 /\ (phase = "start" => visited = {})
    BY DEF IInv, TypeOK, WalkOK, Progress
  <2>2. ErrorOf("no-declaration")' <=> ErrorOf("no-declaration")
    BY <1>6
  <2> DEFINE Passed(x, n) == \E i \in 1..n : Placement(doc, Walked(doc, x)[i]) = "error"
  <2>3. CASE next' = next /\ phase = "start"
    <3>1. visited' = {e} /\ ~Passed(e, next'[e])
      BY <1>1, <2>1, <2>3
    <3>2. Governed(doc, doc.root)
      BY <2>3
    <3> QED  BY <1>1, <2>1, <2>2, <2>3, <3>1, <3>2 DEF CausesOK, PassedOK
  <2>4. CASE /\ phase = "walk" /\ cur \in doc.els /\ cur \in visited /\ next[cur] \in Nat
             /\ Placement(doc, Walked(doc, cur)[next[cur] + 1]) # "error"
             /\ next' = [next EXCEPT ![cur] = @ + 1]
    <3>1. ~Passed(e, next'[e])
      BY <2>1, <2>4
    <3>2. \A x \in visited : Passed(x, next'[x]) <=> Passed(x, next[x])
      <4> SUFFICES ASSUME NEW x \in visited PROVE Passed(x, next'[x]) <=> Passed(x, next[x])
        OBVIOUS
      <4>1. CASE x # cur
        BY <2>1, <2>4, <4>1
      <4>2. CASE x = cur
        <5>1. next'[x] = next[cur] + 1 /\ next[x] \in Nat
          BY <2>1, <2>4, <4>2
        <5>2. \A i : i \in 1..next'[x] <=> i \in 1..next[x] \/ i = next[cur] + 1
          BY <4>2, <5>1
        <5> QED  BY <2>4, <4>2, <5>2
      <4> QED  BY <4>1, <4>2
    <3>3. (\E x \in visited' : Passed(x, next'[x])) <=> \E x \in visited : Passed(x, next[x])
      BY <1>1, <3>1, <3>2
    <3> QED  BY <1>1, <2>2, <2>4, <3>3 DEF CausesOK, PassedOK
  <2> QED  BY <2>3, <2>4
<1> QED  BY <1>3, <1>5, <1>7, <1>8 DEF CausesOK

LEMMA PassCauses ==
    ASSUME IInv, WalkOK, CausesOK, PassChild
    PROVE  CausesOK'
<1>1. /\ phase = "walk" /\ cur \in doc.els /\ cur \in visited /\ Open' = Open /\ next[cur] \in Nat
      /\ Child = Walked(doc, cur)[next[cur] + 1]
      /\ next' = [next EXCEPT ![cur] = @ + 1] /\ errs' = errs \cup PassErrs(Child)
      /\ UNCHANGED <<doc, phase, leave, visited>>
  BY PassStep
<1>2. \A x \in PassErrs(Child) : x.kind = "no-declaration"
  BY ErrorKinds
<1>3. (\E x \in PassErrs(Child) : TRUE) <=> Placement(doc, Child) = "error"
  BY DEF PassErrs
<1>4. \A kind : kind # "no-declaration" => (ErrorOf(kind)' <=> ErrorOf(kind))
  BY <1>1, <1>2 DEF ErrorOf
<1>5. (ErrorIn(ContentKinds)' <=> ErrorIn(ContentKinds)) /\ (ErrorIn(CountKinds)' <=> ErrorIn(CountKinds))
  BY <1>1, <1>2 DEF ErrorIn, ContentKinds, CountKinds
<1>6. EntryOK' /\ LeftOK'
  BY <1>1, <1>4, <1>5 DEF CausesOK, EntryOK, LeftOK
<1>7. \A x \in errs' : x.kind \in ContentKinds \cup CountKinds \cup OtherKinds
  BY <1>1, <1>2 DEF CausesOK, OtherKinds
<1>8. PassedOK'
  <2> DEFINE Passed(x, n) == \E i \in 1..n : Placement(doc, Walked(doc, x)[i]) = "error"
  <2>1. ErrorOf("no-declaration")' <=> ErrorOf("no-declaration") \/ Placement(doc, Child) = "error"
    BY <1>1, <1>2, <1>3 DEF ErrorOf
  <2>2. visited \subseteq doc.els /\ next \in [doc.els -> Nat]
    BY DEF IInv, TypeOK
  <2>3. \A x \in visited : Passed(x, next'[x]) <=> Passed(x, next[x]) \/ (x = cur /\ Placement(doc, Child) = "error")
    <3> SUFFICES ASSUME NEW x \in visited
                 PROVE  Passed(x, next'[x]) <=> Passed(x, next[x]) \/ (x = cur /\ Placement(doc, Child) = "error")
      OBVIOUS
    <3>1. CASE x # cur
      BY <1>1, <2>2, <3>1
    <3>2. CASE x = cur
      <4>1. next'[x] = next[cur] + 1 /\ next[x] \in Nat
        BY <1>1, <2>2, <3>2
      <4>2. \A i : i \in 1..next'[x] <=> i \in 1..next[x] \/ i = next[cur] + 1
        BY <3>2, <4>1
      <4> QED  BY <1>1, <3>2, <4>2
    <3> QED  BY <3>1, <3>2
  <2>4. (\E x \in visited : Passed(x, next'[x])) <=> (\E x \in visited : Passed(x, next[x])) \/ Placement(doc, Child) = "error"
    BY <1>1, <2>3
  <2> QED  BY <1>1, <2>1, <2>4 DEF CausesOK, PassedOK
<1> QED  BY <1>6, <1>7, <1>8 DEF CausesOK

LEMMA ReturnCauses ==
    ASSUME IInv, WalkOK, CausesOK, Return
    PROVE  CausesOK'
<1>1. /\ phase = "walk" /\ cur \in doc.els /\ cur \in visited /\ cur \in Open /\ Open' = Open \ {cur}
      /\ phase' \in {"walk", "keyrefs"} /\ UNCHANGED <<doc, next, visited>>
  BY ReturnStep
<1> DEFINE closes == Placement(doc, cur) = "decl" /\ ~Nilled(doc, cur)
           added == IF closes THEN ConstraintErrs(doc, cur) ELSE {}
<1>2. errs' = errs \cup added \cup EDCErrs(doc, cur)
      /\ DOMAIN leave' = IF closes THEN DOMAIN leave \cup {cur} ELSE DOMAIN leave
  BY DEF Return, Assign
<1>3. /\ \A x \in EDCErrs(doc, cur) : x.kind = "edc"
      /\ \A x \in added : x.kind \in CountKinds \/ x.kind = "ic-duplicate"
  BY ErrorKinds DEF CountKinds
<1>4. closes =>
        /\ (\E x \in added : x.kind \in CountKinds) <=>
              \E ic \in TableICs(doc, cur) \cup DeferredICs(doc, cur) : ~Abstract!CardinalityOK(doc, cur, ic)
        /\ (\E x \in added : x.kind = "ic-duplicate") <=>
              \E ic \in TableICs(doc, cur) : ~Abstract!DistinctOK(doc, cur, ic)
  <2> SUFFICES ASSUME closes
               PROVE  /\ (\E x \in added : x.kind \in CountKinds) <=>
                            \E ic \in TableICs(doc, cur) \cup DeferredICs(doc, cur) : ~Abstract!CardinalityOK(doc, cur, ic)
                      /\ (\E x \in added : x.kind = "ic-duplicate") <=>
                            \E ic \in TableICs(doc, cur) : ~Abstract!DistinctOK(doc, cur, ic)
    OBVIOUS
  <2> DEFINE A == TableICs(doc, cur) \cup DeferredICs(doc, cur)
             R(ic) == EvalConstraint(doc, cur, ic)
  <2>1. \A ic \in A : ic \in ToSet(doc.ics[cur]) /\ (ic \in TableICs(doc, cur) <=> ic.category # "keyref")
    BY DEF TableICs, DeferredICs, IsTable, IsDeferred
  <2>2. \A ic \in A : Evaluates(R(ic), cur, ic)
    BY <2>1, Evaluated
  <2>3. added = UNION {R(ic).errs : ic \in A}
    BY DEF ConstraintErrs
  <2> HIDE DEF A, R, added
  <2>4. \A x : x \in added <=> \E ic \in A : x \in R(ic).errs
    BY <2>3
  <2>5. (\E x \in added : x.kind \in CountKinds) <=> \E ic \in A : ~Abstract!CardinalityOK(doc, cur, ic)
    BY <2>2, <2>4 DEF Evaluates, CountKinds
  <2>6. (\E x \in added : x.kind = "ic-duplicate") <=> \E ic \in A : ic.category # "keyref" /\ ~Abstract!DistinctOK(doc, cur, ic)
    BY <2>2, <2>4 DEF Evaluates
  <2> QED  BY <2>1, <2>5, <2>6 DEF A
<1>5. ~closes => added = {}
  OBVIOUS
<1>6. (\E x \in EDCErrs(doc, cur) : TRUE) <=> EDCErrs(doc, cur) # {}
  OBVIOUS
<1> HIDE DEF added, closes
<1>7. \A x \in errs' : x.kind \in ContentKinds \cup CountKinds \cup OtherKinds
  BY <1>2, <1>3 DEF CausesOK, OtherKinds
<1>8. /\ ErrorOf("edc")' <=> ErrorOf("edc") \/ EDCErrs(doc, cur) # {}
      /\ ErrorIn(CountKinds)' <=> ErrorIn(CountKinds) \/ \E x \in added : x.kind \in CountKinds
      /\ ErrorOf("ic-duplicate")' <=> ErrorOf("ic-duplicate") \/ \E x \in added : x.kind = "ic-duplicate"
  BY <1>2, <1>3 DEF ErrorOf, ErrorIn, CountKinds
<1>9. /\ ErrorOf("id-unbound")' <=> ErrorOf("id-unbound")
      /\ ErrorOf("no-declaration")' <=> ErrorOf("no-declaration")
      /\ ErrorIn(ContentKinds)' <=> ErrorIn(ContentKinds)
  BY <1>2, <1>3 DEF ErrorOf, ErrorIn, CountKinds, ContentKinds
<1>10. EntryOK' /\ PassedOK'
  BY <1>1, <1>9 DEF CausesOK, EntryOK, PassedOK
<1>11. LeftOK'
  <2>1. \A e : e \in visited \ Open' <=> e \in visited \ Open \/ e = cur
    BY <1>1
  <2>2. ErrorOf("edc")' <=> \E e \in visited \ Open' : EDCErrs(doc, e) # {}
    BY <1>8, <2>1 DEF CausesOK, LeftOK
  <2>3. ErrorIn(CountKinds)' <=> \E e \in DOMAIN leave' : \E ic \in TableICs(doc, e) \cup DeferredICs(doc, e) :
                                    ~Abstract!CardinalityOK(doc, e, ic)
    BY <1>2, <1>4, <1>5, <1>8 DEF CausesOK, LeftOK
  <2>4. ErrorOf("ic-duplicate")' <=> \E e \in DOMAIN leave' : \E ic \in TableICs(doc, e) : ~Abstract!DistinctOK(doc, e, ic)
    BY <1>2, <1>4, <1>5, <1>8 DEF CausesOK, LeftOK
  <2> QED  BY <1>1, <2>2, <2>3, <2>4 DEF LeftOK
<1> QED  BY <1>7, <1>10, <1>11 DEF CausesOK

LEMMA NextCauses == IInv /\ WalkOK /\ CausesOK /\ [Next]_vars => CausesOK'
<1> SUFFICES ASSUME IInv, WalkOK, CausesOK, [Next]_vars PROVE CausesOK'
  OBVIOUS
<1>1. CASE AssessRoot
  <2>1. /\ doc.root \in doc.els /\ doc.root \notin visited /\ Enter(doc.root) /\ Open' = Open \cup {doc.root}
        /\ UNCHANGED <<doc, next, leave>> /\ Governed(doc, doc.root) /\ phase = "start"
    BY <1>1, RootStep DEF AssessRoot
  <2> QED  BY <2>1, EnterCauses
<1>2. CASE AssessChild
  <2>1. /\ Child \in doc.els /\ Child \notin visited /\ Enter(Child) /\ Open' = Open \cup {Child}
        /\ UNCHANGED <<doc, leave>> /\ phase = "walk" /\ cur \in doc.els /\ cur \in visited /\ next[cur] \in Nat
        /\ Child = Walked(doc, cur)[next[cur] + 1] /\ Governed(doc, Child)
        /\ next' = [next EXCEPT ![cur] = @ + 1]
    BY <1>2, ChildStep
  <2>2. Placement(doc, Walked(doc, cur)[next[cur] + 1]) # "error"
    BY <2>1 DEF Governed
  <2> QED  BY <2>1, <2>2, EnterCauses
<1>3. CASE PassChild
  BY <1>3, PassCauses
<1>4. CASE Return
  BY <1>4, ReturnCauses
<1>5. CASE RejectRoot
  <2>1. /\ phase = "start" /\ phase' = "keyrefs" /\ visited = {} /\ ~Governed(doc, doc.root)
        /\ UNCHANGED <<doc, next, leave, visited>> /\ Open' = Open
        /\ errs' = errs \cup {Error("no-declaration", doc.root)}
    BY <1>5 DEF RejectRoot, walkVars, Open, Governed, IInv, TypeOK
  <2>2. Error("no-declaration", doc.root).kind = "no-declaration"
    BY DEF Error
  <2>3. ErrorOf("no-declaration")' /\ \A kind : kind # "no-declaration" => (ErrorOf(kind)' <=> ErrorOf(kind))
    BY <2>1, <2>2 DEF ErrorOf
  <2>4. (ErrorIn(ContentKinds)' <=> ErrorIn(ContentKinds)) /\ (ErrorIn(CountKinds)' <=> ErrorIn(CountKinds))
    BY <2>1, <2>2 DEF ErrorIn, ContentKinds, CountKinds
  <2>5. \A x \in errs' : x.kind \in ContentKinds \cup CountKinds \cup OtherKinds
    BY <2>1, <2>2 DEF CausesOK, OtherKinds
  <2>6. EntryOK' /\ LeftOK'
    BY <2>1, <2>3, <2>4 DEF CausesOK, EntryOK, LeftOK
  <2>7. PassedOK'
    BY <2>1, <2>3 DEF PassedOK
  <2> QED  BY <2>5, <2>6, <2>7 DEF CausesOK
<1>6. ASSUME NEW pk \in pending, FlushKeyref(pk) PROVE CausesOK'
  <2>1. /\ UNCHANGED <<doc, visited, next, leave, phase>> /\ Open' = Open /\ phase = "keyrefs"
        /\ errs' = errs \/ errs' = errs \cup {Error("keyref", pk.at)}
    BY <1>6 DEF FlushKeyref, walkVars, Open
  <2>2. \A x \in {Error("keyref", pk.at)} : x.kind \in {"keyref", "idref"}
    BY DEF Error
  <2> QED  BY <2>1, <2>2, QuietCauses
<1>7. CASE KeyrefsDone
  <2>1. /\ UNCHANGED <<doc, visited, next, leave>> /\ Open' = Open /\ phase = "keyrefs" /\ phase' = "idrefs"
        /\ errs' = errs
    BY <1>7 DEF KeyrefsDone, walkVars, Open
  <2> QED  BY <2>1, QuietCauses
<1>8. ASSUME NEW r \in idrefs, CheckIDRef(r) PROVE CausesOK'
  <2>1. /\ UNCHANGED <<doc, visited, next, leave, phase>> /\ Open' = Open /\ phase = "idrefs"
        /\ errs' = errs \/ errs' = errs \cup {Error("idref", r.at)}
    BY <1>8 DEF CheckIDRef, walkVars, Open
  <2>2. \A x \in {Error("idref", r.at)} : x.kind \in {"keyref", "idref"}
    BY DEF Error
  <2> QED  BY <2>1, <2>2, QuietCauses
<1>9. CASE Finish
  <2>1. /\ UNCHANGED <<doc, visited, next, leave>> /\ Open' = Open /\ phase = "idrefs" /\ phase' = "done"
        /\ errs' = errs
    BY <1>9 DEF Finish, walkVars, Open
  <2> QED  BY <2>1, QuietCauses
<1>10. CASE UNCHANGED vars
  <2>1. UNCHANGED <<doc, visited, next, leave, phase, errs>> /\ Open' = Open
    BY <1>10 DEF vars, walkVars, Open
  <2>2. (ErrorIn(ContentKinds)' <=> ErrorIn(ContentKinds)) /\ (ErrorIn(CountKinds)' <=> ErrorIn(CountKinds))
    BY <2>1 DEF ErrorIn
  <2>3. \A kind : ErrorOf(kind)' <=> ErrorOf(kind)
    BY <2>1 DEF ErrorOf
  <2>4. EntryOK' /\ LeftOK'
    BY <2>1, <2>2, <2>3 DEF CausesOK, EntryOK, LeftOK
  <2>5. PassedOK'
    BY <2>1, <2>3 DEF CausesOK, PassedOK
  <2> QED  BY <2>1, <2>4, <2>5 DEF CausesOK
<1> QED  BY <1>1, <1>2, <1>3, <1>4, <1>5, <1>6, <1>7, <1>8, <1>9, <1>10 DEF Next

LEMMA LocallyValidIs ==
    ASSUME NEW d, IsTree(d), NEW e \in d.els
    PROVE  Abstract!LocallyValid(d, e) <=>
              /\ ContentErrs(d, e) = {} /\ EDCErrs(d, e) = {}
              /\ \A i \in 1..Len(Walked(d, e)) : Placement(d, Walked(d, e)[i]) # "error"
<1> DEFINE value   == ~d.sound[e]
           nilled  == Nilled(d, e) /\ d.kids[e] # << >>
           model   == ~Nilled(d, e) /\ d.kind[e] = "elements" /\ ~d.match[e]
           leaf    == ~Nilled(d, e) /\ d.kind[e] # "elements" /\ d.kids[e] # << >>
           dynamic == d.term[e] \in {"lax", "strict"} /\ d.global[e] /\ d.local[e] /\ ~d.consistent[e]
           strict  == \E i \in 1..Len(Walked(d, e)) : Placement(d, Walked(d, e)[i]) = "error"
<1>1. Abstract!LocallyValid(d, e) <=> ~value /\ ~nilled /\ ~model /\ ~leaf /\ ~dynamic /\ ~strict
  <2>1. (Abstract!Nilled(d, e) <=> Nilled(d, e)) /\ Abstract!Walked(d, e) = Walked(d, e) /\ \A k : Abstract!Placement(d, k) = Placement(d, k)
    BY SameTerms
  <2>2. (\A k \in Abstract!ToSet(Walked(d, e)) : Placement(d, k) # "error") <=> ~strict
    <3>1. DOMAIN Walked(d, e) = 1..Len(Walked(d, e))
      BY WalkedIsList
    <3>2. Abstract!ToSet(Walked(d, e)) = {Walked(d, e)[i] : i \in 1..Len(Walked(d, e))}
      BY <3>1 DEF Abstract!ToSet
    <3> QED  BY <3>2
  <2> HIDE DEF strict
  <2> QED  BY <2>1, <2>2 DEF Abstract!LocallyValid
<1>2. ContentErrs(d, e) = {} <=> ~value /\ ~nilled /\ ~model /\ ~leaf
  BY DEF ContentErrs
<1>3. EDCErrs(d, e) = {} <=> ~dynamic
  BY DEF EDCErrs
<1> QED  BY <1>1, <1>2, <1>3

(* An ID found without an element to bear it.                              *)
LEMMA UnboundIs ==
    ASSUME NEW d, IsInstance(d)
    PROVE  Abstract!BoundIDs(d) <=> \A e \in Abstract!Assessed(d) : ~Unbound(d, e)
<1> DEFINE A == Abstract!Assessed(d)
<1>1. A \subseteq d.els
  BY AssessedBasics
<1>2. \A e \in A : Unbound(d, e) <=> \E v : Bears(d, e, "ID", v, NoElement)
  BY <1>1, HarvestBears DEF Unbound
<1> HIDE DEF A
<1>3. ASSUME NEW p \in Abstract!Borne(d), p[2] = NoElement PROVE \E e \in A : Unbound(d, e)
  BY <1>2, <1>3, AbstractIDs DEF A
<1>4. ASSUME NEW e \in A, Unbound(d, e) PROVE \E p \in Abstract!Borne(d) : p[2] = NoElement
  <2>1. PICK v : Bears(d, e, "ID", v, NoElement)
    BY <1>2, <1>4
  <2>2. <<v, NoElement>> \in Abstract!Borne(d) /\ <<v, NoElement>>[2] = NoElement
    BY <2>1, AbstractIDs DEF A
  <2> QED  BY <2>2
<1> QED  BY <1>3, <1>4 DEF Abstract!BoundIDs, A

(* Without errors at the end, and only then, the document is valid.        *)
Judged == phase = "done" => (errs = {} <=> Abstract!Valid(doc))

AllOK == IInv /\ WalkOK /\ IDsOK /\ ConstraintsOK /\ CausesOK

LEMMA VerdictExact == AllOK => Judged
<1> SUFFICES ASSUME IInv, WalkOK, IDsOK, ConstraintsOK, CausesOK, phase = "done" PROVE errs = {} <=> Abstract!Valid(doc)
  BY DEF AllOK, Judged
<1> DEFINE A == Abstract!Assessed(doc)
           C == Abstract!Constrained(doc)
           strict(e) == \E i \in 1..Len(Walked(doc, e)) : Placement(doc, Walked(doc, e)[i]) = "error"
<1>1. /\ IsInstance(doc) /\ IsTree(doc) /\ A \subseteq doc.els /\ visited = A /\ Open = {}
      /\ DOMAIN leave = C /\ \A e \in A : next[e] = Len(Walked(doc, e))
  <2>1. IsInstance(doc) /\ IsTree(doc) /\ A \subseteq doc.els /\ visited = A /\ Open = {} /\ DOMAIN leave = C
    BY DocIsInstance, AssessedBasics, WalkDone, AllConstrained DEF Open
  <2> QED  BY <2>1 DEF WalkOK, Progress
<1> HIDE DEF A, C
<1>2. errs = {} <=> /\ ~ErrorIn(ContentKinds) /\ ~ErrorOf("edc") /\ ~ErrorOf("no-declaration")
                    /\ ~ErrorOf("id-unbound") /\ ~ErrorOf("id-duplicate") /\ ~ErrorOf("idref")
                    /\ ~ErrorIn(CountKinds) /\ ~ErrorOf("ic-duplicate") /\ ~ErrorOf("keyref")
  <2>1. \A x \in errs : x.kind \in ContentKinds \cup CountKinds \cup OtherKinds
    BY DEF CausesOK
  <2> QED  BY <2>1 DEF ErrorIn, ErrorOf, OtherKinds
<1>3. ~ErrorIn(ContentKinds) /\ ~ErrorOf("edc") /\ ~ErrorOf("no-declaration")
      <=> Abstract!Entered(doc, doc.root) /\ \A e \in A : Abstract!LocallyValid(doc, e)
  <2>1. ErrorIn(ContentKinds) <=> \E e \in A : ContentErrs(doc, e) # {}
    BY <1>1 DEF CausesOK, EntryOK
  <2>2. ErrorOf("edc") <=> \E e \in A : EDCErrs(doc, e) # {}
    BY <1>1 DEF CausesOK, LeftOK
  <2>3. ErrorOf("no-declaration") <=> ~Governed(doc, doc.root) \/ \E e \in A : strict(e)
    BY <1>1 DEF CausesOK, PassedOK
  <2>4. Abstract!Entered(doc, doc.root) <=> Governed(doc, doc.root)
    BY SameTerms DEF Abstract!Entered, Governed
  <2>5. \A e \in A : Abstract!LocallyValid(doc, e) <=> ContentErrs(doc, e) = {} /\ EDCErrs(doc, e) = {} /\ ~strict(e)
    BY <1>1, LocallyValidIs
  <2> HIDE DEF strict
  <2> QED  BY <2>1, <2>2, <2>3, <2>4, <2>5
<1>4. ~ErrorOf("id-unbound") /\ ~ErrorOf("id-duplicate") /\ ~ErrorOf("idref")
      <=> Abstract!UniqueIDs(doc) /\ Abstract!BoundIDs(doc) /\ Abstract!ResolvedRefs(doc)
  <2> DEFINE B == Abstract!Borne(doc)
             P == {b \in B : b[2] # NoElement}
  <2>1. ErrorOf("id-unbound") <=> ~Abstract!BoundIDs(doc)
    BY <1>1, UnboundIs DEF A, CausesOK, EntryOK
  <2>2. /\ ErrorOf("id-duplicate") <=> ~(\A p, q \in P : p[1] = q[1] => p[2] = q[2])
        /\ ErrorOf("idref") <=> ~(Abstract!Referenced(doc) \subseteq {p[1] : p \in P})
    BY IDVerdictHolds DEF IDVerdict, ErrorOf
  <2>3. Abstract!BoundIDs(doc) => P = B
    BY DEF Abstract!BoundIDs
  <2> HIDE DEF P
  <2> QED  BY <2>1, <2>2, <2>3 DEF Abstract!UniqueIDs, Abstract!ResolvedRefs
<1>5. ~ErrorIn(CountKinds) /\ ~ErrorOf("ic-duplicate") /\ ~ErrorOf("keyref")
      <=> \A e \in C : \A ic \in Abstract!ToSet(doc.ics[e]) : Abstract!ConstraintOK(doc, e, ic)
  <2>1. ErrorIn(CountKinds) <=> \E e \in C : \E ic \in TableICs(doc, e) \cup DeferredICs(doc, e) : ~Abstract!CardinalityOK(doc, e, ic)
    BY <1>1 DEF CausesOK, LeftOK
  <2>2. ErrorOf("ic-duplicate") <=> \E e \in C : \E ic \in TableICs(doc, e) : ~Abstract!DistinctOK(doc, e, ic)
    BY <1>1 DEF CausesOK, LeftOK
  <2>3. ~ErrorOf("ic-duplicate") => (ErrorOf("keyref") <=> \E e \in C : \E ic \in DeferredICs(doc, e) : ~Abstract!KeyrefOK(doc, e, ic))
    <3> SUFFICES ASSUME ~ErrorOf("ic-duplicate")
                 PROVE  ErrorOf("keyref") <=> \E e \in C : \E ic \in DeferredICs(doc, e) : ~Abstract!KeyrefOK(doc, e, ic)
      OBVIOUS
    <3>1. pending = {}
      BY DEF ConstraintsOK, KeyrefsOK
    <3>2. \A e : Error("keyref", e).kind = "keyref"
      BY DEF Error
    <3>3. \A e \in C : \A ic \in DeferredICs(doc, e) : Abstract!KeyrefOK(doc, e, ic) \/ Error("keyref", e) \in errs
      BY <1>1, <3>1 DEF ConstraintsOK, KeyrefsOK
    <3>4. \A x \in errs : x.kind = "keyref" => x.at \in C /\ \E ic \in DeferredICs(doc, x.at) : ~Abstract!KeyrefOK(doc, x.at, ic)
      BY <1>1 DEF ConstraintsOK, KeyrefsOK
    <3> QED  BY <3>2, <3>3, <3>4 DEF ErrorOf
  <2>4. ASSUME NEW e \in C
        PROVE  (\A ic \in Abstract!ToSet(doc.ics[e]) : Abstract!ConstraintOK(doc, e, ic)) <=>
                  /\ \A ic \in TableICs(doc, e) \cup DeferredICs(doc, e) : Abstract!CardinalityOK(doc, e, ic)
                  /\ \A ic \in TableICs(doc, e) : Abstract!DistinctOK(doc, e, ic)
                  /\ \A ic \in DeferredICs(doc, e) : Abstract!KeyrefOK(doc, e, ic)
    <3>1. \A ic \in Abstract!ToSet(doc.ics[e]) :
             Abstract!ConstraintOK(doc, e, ic) <=>
                /\ ic \in TableICs(doc, e) \cup DeferredICs(doc, e) => Abstract!CardinalityOK(doc, e, ic)
                /\ ic \in TableICs(doc, e) => Abstract!DistinctOK(doc, e, ic)
                /\ ic \in DeferredICs(doc, e) => Abstract!KeyrefOK(doc, e, ic)
      BY DEF Abstract!ConstraintOK, TableICs, DeferredICs, IsTable, IsDeferred, Abstract!ToSet, ToSet
    <3>2. TableICs(doc, e) \cup DeferredICs(doc, e) \subseteq Abstract!ToSet(doc.ics[e])
      BY DEF TableICs, DeferredICs, Abstract!ToSet, ToSet
    <3> QED  BY <3>1, <3>2
  <2> QED  BY <2>1, <2>2, <2>3, <2>4
<1> QED  BY <1>2, <1>3, <1>4, <1>5 DEF Abstract!Valid, A, C

-----------------------------------------------------------------------------
LEMMA AllHolds == Spec => []AllOK
<1>1. Init => WalkOK /\ IDsOK /\ ConstraintsOK /\ CausesOK
  BY InitWalk, InitIDs, InitConstraints, InitCauses
<1>2. /\ IInv /\ (WalkOK /\ IDsOK /\ ConstraintsOK /\ CausesOK) /\ [Next]_vars
      => (WalkOK /\ IDsOK /\ ConstraintsOK /\ CausesOK)'
  BY NextWalk, NextIDs, NextConstraints, NextCauses
<1>3. IInv /\ WalkOK /\ IDsOK /\ ConstraintsOK /\ CausesOK => AllOK
  BY DEF AllOK
<1> QED  BY <1>1, <1>2, <1>3, WalkInvariant, PTL DEF Spec

(* Identity constraints and IDs get the verdict of the document as a whole *)
(* whatever the order of the walk: the tuples, tables and errors collected *)
(* on the way are those the specification states without one.              *)
THEOREM IdentityHolds == Spec => []IdentityExact
<1>1. AllOK => IdentityExact
  BY OpaqueHolds, KeyrefVerdictHolds, IDVerdictHolds DEF AllOK, IdentityExact
<1> QED  BY <1>1, AllHolds, PTL

(* The walk with its clock, its tables and its two passes implements the   *)
(* one-step judgement: Assess reports an error exactly when the document   *)
(* is not valid.                                                           *)
THEOREM Judges == Spec => Abstract!Safety
<1>1. Init => Abstract!Init
  <2> SUFFICES ASSUME Init PROVE Abstract!IsInstance(doc) /\ Verdict = "pending"
    BY DEF Abstract!Init
  <2>1. IsInstance(doc)
    BY DocsAssumption DEF Init
  <2>2. /\ Abstract!IsTree(doc) <=> IsTree(doc)
        /\ \A s : Abstract!IsList(s) <=> IsList(s)
        /\ \A p : Abstract!ArePaths(p) <=> ArePaths(p)
    <3>1. Abstract!IsFiniteSet(doc.els) <=> IsFiniteSet(doc.els)
      BY DEF IsFiniteSet, Abstract!IsFiniteSet
    <3>2. Abstract!IsTree(doc) <=> IsTree(doc)
      BY <3>1, Zenon DEF IsTree, Abstract!IsTree
    <3>3. \A q : Abstract!IsList(q) <=> IsList(q)
      BY DEF IsList, Abstract!IsList
    <3>4. \A p : Abstract!ArePaths(p) <=> ArePaths(p)
      BY <3>3 DEF ArePaths, Abstract!ArePaths
    <3> QED  BY <3>2, <3>3, <3>4
  <2>3. Abstract!IsInstance(doc)
    BY <2>1, <2>2 DEF IsInstance, Abstract!IsInstance
  <2> QED  BY <2>3 DEF Init, Verdict
<1>2. Judged' /\ [Next]_vars => [Abstract!Judge]_<<doc, Verdict>>
  <2> SUFFICES ASSUME Judged', [Next]_vars PROVE [Abstract!Judge]_<<doc, Verdict>>
    OBVIOUS
  <2>1. CASE Finish
    <3>1. phase = "idrefs" /\ phase' = "done" /\ doc' = doc /\ errs' = errs
      BY <2>1 DEF Finish, walkVars
    <3>2. Verdict = "pending" /\ Verdict' = IF errs' = {} THEN "valid" ELSE "invalid"
      BY <3>1 DEF Verdict
    <3>3. errs' = {} <=> Abstract!Valid(doc)
      BY <3>1 DEF Judged
    <3> QED  BY <3>1, <3>2, <3>3 DEF Abstract!Judge
  <2>2. CASE UNCHANGED vars
    BY <2>2 DEF vars, Verdict
  <2>3. CASE Next /\ ~Finish
    <3>1. phase # "done" /\ phase' # "done" /\ doc' = doc
      BY <2>3 DEF Next, AssessRoot, RejectRoot, AssessChild, PassChild, Return, FlushKeyref, KeyrefsDone, CheckIDRef,
         Enter, HasChild, PhaseAfterReturn
    <3> QED  BY <3>1 DEF Verdict
  <2> QED  BY <2>1, <2>2, <2>3
<1> QED  BY <1>1, <1>2, AllHolds, VerdictExact, PTL DEF Spec, Abstract!Safety
=============================================================================
