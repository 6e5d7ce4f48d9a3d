-------------------------- MODULE SharedMatcherProofs --------------------------
(***************************************************************************)
(* Calls of Assess that follow one another share the matcher safely, for   *)
(* every instance and every content model: what Match returned to an       *)
(* element is never written again, and the fields of the matcher are read  *)
(* only between the start and the end of one search.                       *)
(*                                                                         *)
(* The invariant speaks of one caller at a time, of its document x, stack  *)
(* st, position a, program counter p and outcomes os, and of the fields    *)
(* chs, tm and sl of the matcher and its slices.                           *)
(***************************************************************************)
EXTENDS SharedMatcher, SequenceTheorems, TLAPS

Decl == DOMAIN ContentOf
Node(x) == DOMAIN x.kids
Frames(x) == [node : Node(x), decl : Decl, terms : Nat, next : Nat \ {0}]
Found(x) == [node : Node(x), decl : Decl, matched : BOOLEAN]

Searching == {"search", "record"}
Matching  == {"children", "terms"} \cup Searching
Inactive  == {"idle", "returned"}

(* The frames whose element has been matched.                              *)
Settled(st, p) == {k \in 1..Len(st) : k < Len(st) \/ p = "visit"}

ShapeOK(x, st, a, p, os) ==
    /\ st \in Seq(Frames(x)) /\ os \subseteq Found(x)
    /\ a \in [pos : Nat \ {0}, particle : Nat \ {0}]
    /\ p \in Matching \cup Inactive \cup {"visit"}
    /\ p \in Inactive => st = << >>
    /\ p = "idle" => os = {}
    /\ p \in Matching => st # << >> /\ st[Len(st)].next = 1
    /\ st # << >> => st[1].node = x.root /\ st[1].decl = Top

(* What Match returned to an element is its placement.                     *)
Placed(x, f, sl) ==
    /\ f.terms \in 1..Len(sl)
    /\ \E g \in Placements(x, f.node, f.decl) :
          sl[f.terms] = [i \in DOMAIN x.kids[f.node] |-> ContentOf[f.decl][g[i]].decl]

AloneKid(x, f, sl, i) == Alone(x, x.kids[f.node][i], sl[f.terms][i])

(* The children assessed of frame k; the last is still being matched when   *)
(* it is the frame on top.                                                 *)
Handled(st, p, k) == IF p \in Matching /\ k = Len(st) - 1 THEN st[k].next - 2 ELSE st[k].next - 1

FramesOK(x, st, p, os, sl) ==
    /\ \A k \in Settled(st, p) :
          /\ Placed(x, st[k], sl)
          /\ st[k].next <= Len(x.kids[st[k].node]) + 1
          /\ Alone(x, st[k].node, st[k].decl) \in os
          /\ \A i \in 1..Handled(st, p, k) : AloneKid(x, st[k], sl, i) \in os
    /\ \A k \in 1..Len(st) - 1 :
          /\ st[k].next > 1
          /\ st[k+1].node = x.kids[st[k].node][st[k].next - 1]
          /\ st[k+1].decl = sl[st[k].terms][st[k].next - 1]

Whole(x) == Alone(x, x.root, Top)

(* Everything found is due; what follows from it is found, or will be when *)
(* a frame of its element is done.                                         *)
ResultsOK(x, st, p, os) ==
    /\ p # "idle" => Whole(x) \in os \/ (p \in Matching /\ Len(st) = 1)
    /\ \A o \in os : /\ o = Alone(x, o.node, o.decl)
                     /\ o = Whole(x) \/ \E q \in os : o \in Below(x, q)
    /\ \A o \in os : \/ Below(x, o) \subseteq os
                     \/ \E k \in Settled(st, p) : st[k].node = o.node /\ st[k].decl = o.decl

(* Half way through a search no placement has been passed over.            *)
PrefixOK(x, e, a, slice) ==
    \E g \in [1..a.pos - 1 -> 1..a.particle - 1] :
        /\ \A i \in 1..a.pos - 1 :
              /\ NameOf[ContentOf[e.decl][g[i]].decl] = Word(x, e.node)[i]
              /\ slice[i] = ContentOf[e.decl][g[i]].decl
        /\ \A i, j \in 1..a.pos - 1 : i < j => g[i] < g[j]
        /\ \A q \in 1..a.particle - 1 : ContentOf[e.decl][q].min = 1 => \E i \in 1..a.pos - 1 : g[i] = q
        /\ \A f \in Placements(x, e.node, e.decl) :
              \A i \in DOMAIN f : i >= a.pos => f[i] >= a.particle

SearchOK(x, st, a, p, chs, tm, sl) ==
    LET e == st[Len(st)] IN
    /\ p \in Searching \cup {"terms"} => chs = Word(x, e.node)
    /\ p \in Searching =>
          /\ tm = Len(sl) /\ tm # 0 /\ Len(sl[tm]) = Len(x.kids[e.node])
          /\ a.pos <= Len(x.kids[e.node]) + 1 /\ a.particle <= Len(ContentOf[e.decl]) + 1
          /\ \A k \in Settled(st, p) : st[k].terms # tm
          /\ PrefixOK(x, e, a, sl[tm])
    /\ p = "record" => /\ a.particle <= Len(ContentOf[e.decl]) /\ a.pos <= Len(chs)
                       /\ NameOf[ContentOf[e.decl][a.particle].decl] = chs[a.pos]

CallerOK(x, st, a, p, os, chs, tm, sl) ==
    /\ ShapeOK(x, st, a, p, os)
    /\ FramesOK(x, st, p, os, sl)
    /\ ResultsOK(x, st, p, os)
    /\ SearchOK(x, st, a, p, chs, tm, sl)

Slices == Seq(Seq(Decl \cup {NoTerm}))

TypeOK ==
    /\ document \in [Caller -> Documents]
    /\ slices \in Slices
    /\ stack = [c \in Caller |-> stack[c]] /\ at = [c \in Caller |-> at[c]]
    /\ pc = [c \in Caller |-> pc[c]] /\ outcomes = [c \in Caller |-> outcomes[c]]

OneAtATime == \A c, d \in Caller : pc[c] \in Inactive \/ pc[d] \in Inactive \/ c = d

Inv ==
    /\ TypeOK /\ OneAtATime
    /\ \A c \in Caller : CallerOK(document[c], stack[c], at[c], pc[c], outcomes[c], children, terms, slices)

-----------------------------------------------------------------------------
(* Content models and instances, taken apart.                              *)
LEMMA ModelFacts ==
    /\ Top \in Decl /\ NoTerm \notin Decl
    /\ \A d \in Decl :
          /\ ContentOf[d] \in Seq([decl : Decl, min : {0, 1}])
          /\ \A p, q \in DOMAIN ContentOf[d] :
                NameOf[ContentOf[d][p].decl] = NameOf[ContentOf[d][q].decl] => p = q
    /\ \A x \in Documents : x.root \in Node(x) /\ x.kids \in [Node(x) -> Seq(Node(x))]
  BY ModelsAssumption, InstancesAssumption DEF Decl, Node

(* A word is placed in a content model in one way.                         *)
LEMMA OnePlacement ==
    ASSUME NEW x \in Documents, NEW n \in Node(x), NEW d \in Decl,
           NEW f \in Placements(x, n, d), NEW g \in Placements(x, n, d)
    PROVE  f = g
  <1>1. f \in [DOMAIN x.kids[n] -> DOMAIN ContentOf[d]] /\ g \in [DOMAIN x.kids[n] -> DOMAIN ContentOf[d]]
    BY DEF Placements
  <1>2. ASSUME NEW i \in DOMAIN x.kids[n] PROVE f[i] = g[i]
    <2>1. NameOf[ContentOf[d][f[i]].decl] = NameOf[ContentOf[d][g[i]].decl]
      BY <1>1 DEF Placements
    <2> QED BY <1>1, <2>1, ModelFacts
  <1> QED BY <1>1, <1>2

(* What is due below a matched element.                                    *)
LEMMA BelowPlaced ==
    ASSUME NEW x \in Documents, NEW f \in Frames(x), NEW sl, Placed(x, f, sl), NEW o,
           o.node = f.node, o.decl = f.decl
    PROVE  Below(x, o) = {AloneKid(x, f, sl, i) : i \in 1..Len(x.kids[f.node])}
  <1>1. f.node \in Node(x) /\ f.decl \in Decl
    BY DEF Frames
  <1>2. x.kids[f.node] \in Seq(Node(x)) /\ DOMAIN x.kids[f.node] = 1..Len(x.kids[f.node])
    BY <1>1, ModelFacts
  <1>3. PICK g \in Placements(x, f.node, f.decl) :
          sl[f.terms] = [i \in DOMAIN x.kids[f.node] |-> ContentOf[f.decl][g[i]].decl]
    BY DEF Placed
  <1>4. Placements(x, f.node, f.decl) = {g}
    BY <1>1, <1>3, OnePlacement
  <1>5. DOMAIN g = DOMAIN x.kids[f.node]
    BY <1>3 DEF Placements
  <1>6. Below(x, o) = {Alone(x, x.kids[f.node][i], ContentOf[f.decl][g[i]].decl) : i \in DOMAIN g}
    BY <1>4 DEF Below
  <1> QED BY <1>2, <1>3, <1>5, <1>6 DEF AloneKid

(* A caller that does nothing is not touched by the others.                *)
LEMMA InactiveKept ==
    ASSUME NEW x, NEW st, NEW a, NEW p \in Inactive, NEW os, NEW chs, NEW tm, NEW sl,
           CallerOK(x, st, a, p, os, chs, tm, sl), NEW chs2, NEW tm2, NEW sl2
    PROVE  CallerOK(x, st, a, p, os, chs2, tm2, sl2)
  <1>1. st = << >> /\ p \notin Matching /\ p \notin Searching /\ p # "terms" /\ p # "visit"
    BY DEF CallerOK, ShapeOK, Inactive, Matching, Searching
  <1>2. Settled(st, p) = {} /\ 1..Len(st) - 1 = {}
    BY <1>1 DEF Settled
  <1>3. FramesOK(x, st, p, os, sl2)
    BY <1>2 DEF FramesOK
  <1>4. SearchOK(x, st, a, p, chs2, tm2, sl2)
    BY <1>1 DEF SearchOK, Searching
  <1> QED BY <1>3, <1>4 DEF CallerOK

(* Between the states of a match nothing about frames and results changes.  *)
LEMMA MatchingKept ==
    ASSUME NEW x, NEW st, NEW p \in Matching, NEW q \in Matching, NEW os, NEW sl,
           FramesOK(x, st, p, os, sl), ResultsOK(x, st, p, os)
    PROVE  Settled(st, q) = Settled(st, p) /\ FramesOK(x, st, q, os, sl) /\ ResultsOK(x, st, q, os)
  <1>1. p # "visit" /\ q # "visit" /\ p # "idle" /\ q # "idle"
    BY DEF Matching, Searching
  <1>2. Settled(st, q) = Settled(st, p)
    BY <1>1 DEF Settled
  <1>3. \A k : Handled(st, q, k) = Handled(st, p, k)
    BY DEF Handled
  <1> QED BY <1>1, <1>2, <1>3 DEF FramesOK, ResultsOK

(* New slices change nothing where the old ones are still the same.        *)
LEMMA SlicesKept ==
    ASSUME NEW x, NEW p, NEW st, Len(st) \in Nat, NEW os, NEW sl, NEW sl2, FramesOK(x, st, p, os, sl),
           Len(sl) \in Nat, Len(sl2) \in Nat, Len(sl) <= Len(sl2),
           \A k \in Settled(st, p) : sl2[st[k].terms] = sl[st[k].terms]
    PROVE  FramesOK(x, st, p, os, sl2)
  <1>1. ASSUME NEW k \in Settled(st, p)
        PROVE  /\ Placed(x, st[k], sl2)
               /\ \A i : AloneKid(x, st[k], sl2, i) = AloneKid(x, st[k], sl, i)
    <2>1. Placed(x, st[k], sl)
      BY DEF FramesOK
    <2>2. sl2[st[k].terms] = sl[st[k].terms]
      OBVIOUS
    <2>3. st[k].terms \in 1..Len(sl2)
      BY <2>1 DEF Placed
    <2>4. Placed(x, st[k], sl2)
      BY <2>1, <2>2, <2>3 DEF Placed
    <2>5. \A i : AloneKid(x, st[k], sl2, i) = AloneKid(x, st[k], sl, i)
      BY <2>2 DEF AloneKid
    <2> QED BY <2>4, <2>5
  <1>2. \A k \in 1..Len(st) - 1 : k \in Settled(st, p)
    BY DEF Settled
  <1> QED BY <1>1, <1>2 DEF FramesOK

(* A step of one caller, the others doing nothing.                         *)
LEMMA StepKeeps ==
    ASSUME Inv, NEW c \in Caller, \A d \in Caller \ {c} : pc[d] \in Inactive,
           document' = document, slices' \in Slices, NEW st, NEW a, NEW p, NEW os,
           stack' = [stack EXCEPT ![c] = st], at' = [at EXCEPT ![c] = a],
           pc' = [pc EXCEPT ![c] = p], outcomes' = [outcomes EXCEPT ![c] = os],
           CallerOK(document[c], st, a, p, os, children', terms', slices')
    PROVE  Inv'
  <1> USE DEF Inv
  <1>1. TypeOK'
    BY DEF TypeOK
  <1>2. /\ stack'[c] = st /\ at'[c] = a /\ pc'[c] = p /\ outcomes'[c] = os
        /\ \A d \in Caller \ {c} : /\ stack'[d] = stack[d] /\ at'[d] = at[d]
                                   /\ pc'[d] = pc[d] /\ outcomes'[d] = outcomes[d]
    BY DEF TypeOK
  <1>3. OneAtATime'
    BY <1>2 DEF OneAtATime
  <1>4. ASSUME NEW d \in Caller
        PROVE  CallerOK(document[d], stack'[d], at'[d], pc'[d], outcomes'[d], children', terms', slices')
    <2>1. CASE d = c
      BY <2>1, <1>2
    <2>2. CASE d # c
      <3>1. pc[d] \in Inactive
        BY <2>2
      <3>2. CallerOK(document[d], stack[d], at[d], pc[d], outcomes[d], children, terms, slices)
        OBVIOUS
      <3>3. CallerOK(document[d], stack[d], at[d], pc[d], outcomes[d], children', terms', slices')
        BY <3>1, <3>2, InactiveKept
      <3> QED BY <3>3, <2>2, <1>2
    <2> QED BY <2>1, <2>2
  <1> QED BY <1>1, <1>3, <1>4

-----------------------------------------------------------------------------
(* The steps of the one caller that is active.                             *)
LEMMA BeginKeeps ==
    ASSUME NEW x \in Documents, NEW st, NEW a, NEW os, NEW chs, NEW tm, NEW sl,
           CallerOK(x, st, a, "idle", os, chs, tm, sl)
    PROVE  CallerOK(x, <<Frame(x.root, Top)>>, a, "children", os, chs, tm, sl)
  <1> DEFINE st2 == <<Frame(x.root, Top)>>
  <1>1. "children" \in Matching /\ "children" \notin Searching /\ "children" \notin Inactive
    BY DEF Matching, Searching, Inactive
  <1>2. Frame(x.root, Top) \in Frames(x) /\ Frame(x.root, Top).node = x.root /\ Frame(x.root, Top).decl = Top
        /\ Frame(x.root, Top).next = 1
    BY ModelFacts DEF Frame, Frames
  <1>3. st2 \in Seq(Frames(x)) /\ Len(st2) = 1 /\ st2[1] = Frame(x.root, Top) /\ st2 # << >>
    BY <1>2
  <1>4. Settled(st2, "children") = {} /\ 1..Len(st2) - 1 = {}
    BY <1>3 DEF Settled
  <1> HIDE DEF st2
  <1>5. os = {}
    BY DEF CallerOK, ShapeOK
  <1>6. ShapeOK(x, st2, a, "children", os)
    BY <1>1, <1>2, <1>3, <1>5 DEF CallerOK, ShapeOK
  <1>7. FramesOK(x, st2, "children", os, sl)
    BY <1>4 DEF FramesOK
  <1>8. ResultsOK(x, st2, "children", os)
    BY <1>1, <1>3, <1>5 DEF ResultsOK
  <1>9. SearchOK(x, st2, a, "children", chs, tm, sl)
    BY DEF SearchOK, Searching
  <1> QED BY <1>6, <1>7, <1>8, <1>9 DEF CallerOK, st2

LEMMA SetChildrenKeeps ==
    ASSUME NEW x \in Documents, NEW st, NEW a, NEW os, NEW chs, NEW tm, NEW sl,
           CallerOK(x, st, a, "children", os, chs, tm, sl)
    PROVE  CallerOK(x, st, a, "terms", os, Word(x, st[Len(st)].node), tm, sl)
  <1>1. "children" \in Matching /\ "terms" \in Matching /\ "terms" \notin Searching /\ "terms" \notin Inactive
    BY DEF Matching, Searching, Inactive
  <1>2. ShapeOK(x, st, a, "terms", os)
    BY <1>1 DEF CallerOK, ShapeOK, Matching, Inactive
  <1>3. FramesOK(x, st, "terms", os, sl) /\ ResultsOK(x, st, "terms", os)
    BY <1>1, MatchingKept DEF CallerOK
  <1>4. SearchOK(x, st, a, "terms", Word(x, st[Len(st)].node), tm, sl)
    BY <1>1 DEF SearchOK
  <1> QED BY <1>2, <1>3, <1>4 DEF CallerOK

(* What an element and its declaration are.                                *)
LEMMA ElementFacts ==
    ASSUME NEW x \in Documents, NEW e \in Frames(x)
    PROVE  /\ e.node \in Node(x) /\ e.decl \in Decl
           /\ x.kids[e.node] \in Seq(Node(x)) /\ Len(x.kids[e.node]) \in Nat
           /\ DOMAIN x.kids[e.node] = 1..Len(x.kids[e.node])
           /\ Len(ContentOf[e.decl]) \in Nat /\ DOMAIN ContentOf[e.decl] = 1..Len(ContentOf[e.decl])
           /\ \A i \in 1..Len(ContentOf[e.decl]) : /\ ContentOf[e.decl][i].decl \in Decl
                                                   /\ ContentOf[e.decl][i].min \in {0, 1}
           /\ Len(Word(x, e.node)) = Len(x.kids[e.node])
           /\ \A f \in Placements(x, e.node, e.decl) :
                 /\ f \in [1..Len(x.kids[e.node]) -> 1..Len(ContentOf[e.decl])]
                 /\ \A i \in 1..Len(x.kids[e.node]) : NameOf[ContentOf[e.decl][f[i]].decl] = Word(x, e.node)[i]
                 /\ \A i, j \in 1..Len(x.kids[e.node]) : i < j => f[i] < f[j]
                 /\ \A q \in 1..Len(ContentOf[e.decl]) : ContentOf[e.decl][q].min = 1 =>
                       \E i \in 1..Len(x.kids[e.node]) : f[i] = q
           /\ \A p, q \in 1..Len(ContentOf[e.decl]) :
                 NameOf[ContentOf[e.decl][p].decl] = NameOf[ContentOf[e.decl][q].decl] => p = q
  <1> DEFINE n == Len(x.kids[e.node])
             C == ContentOf[e.decl]
  <1>2. e.node \in Node(x) /\ e.decl \in Decl
    BY DEF Frames
  <1>3. x.kids[e.node] \in Seq(Node(x)) /\ C \in Seq([decl : Decl, min : {0, 1}])
    BY <1>2, ModelFacts
  <1>4. n \in Nat /\ DOMAIN x.kids[e.node] = 1..n /\ Len(C) \in Nat /\ DOMAIN C = 1..Len(C)
    BY <1>3
  <1>5. \A i \in 1..Len(C) : C[i].decl \in Decl /\ C[i].min \in {0, 1}
    <2>1. C \in Seq([decl : Decl, min : {0, 1}])
      BY <1>3
    <2> HIDE DEF C
    <2>2. \A i \in 1..Len(C) : C[i] \in [decl : Decl, min : {0, 1}]
      BY <2>1, ElementOfSeq
    <2> QED BY <2>2
  <1>6. Len(Word(x, e.node)) = n
    <2> DEFINE w == Word(x, e.node)
    <2>1. w = [i \in 1..n |-> x.name[x.kids[e.node][i]]]
      BY <1>4 DEF Word
    <2>2. w \in Seq({x.name[m] : m \in Node(x)})
      BY <2>1, <1>3, <1>4
    <2> QED BY <2>1, <2>2, <1>4
  <1>7. ASSUME NEW f \in Placements(x, e.node, e.decl)
        PROVE  /\ f \in [1..n -> 1..Len(C)]
               /\ \A i \in 1..n : NameOf[C[f[i]].decl] = Word(x, e.node)[i]
               /\ \A i, j \in 1..n : i < j => f[i] < f[j]
               /\ \A q \in 1..Len(C) : C[q].min = 1 => \E i \in 1..n : f[i] = q
    BY <1>4 DEF Placements
  <1>8. \A p, q \in 1..Len(C) : NameOf[C[p].decl] = NameOf[C[q].decl] => p = q
    BY <1>2, <1>4, ModelFacts
  <1> QED BY <1>2, <1>3, <1>4, <1>5, <1>6, <1>7, <1>8

LEMMA PlacementFacts ==
    ASSUME NEW x \in Documents, NEW e \in Frames(x), NEW f \in Placements(x, e.node, e.decl)
    PROVE  /\ f \in [1..Len(x.kids[e.node]) -> 1..Len(ContentOf[e.decl])]
           /\ \A i \in 1..Len(x.kids[e.node]) : NameOf[ContentOf[e.decl][f[i]].decl] = Word(x, e.node)[i]
           /\ \A i, j \in 1..Len(x.kids[e.node]) : i < j => f[i] < f[j]
  <1>1. /\ DOMAIN x.kids[e.node] = 1..Len(x.kids[e.node])
        /\ DOMAIN ContentOf[e.decl] = 1..Len(ContentOf[e.decl])
    BY ElementFacts
  <1> QED BY ONLY <1>1, f \in Placements(x, e.node, e.decl) DEF Placements

LEMMA TopFacts ==
    ASSUME NEW x, NEW st \in Seq(Frames(x)), st # << >>
    PROVE  Len(st) \in Nat \ {0} /\ st[Len(st)] \in Frames(x)
  OBVIOUS

(* The search takes the next child for the next particle.                  *)
LEMMA PrefixTaken ==
    ASSUME NEW x \in Documents, NEW e \in Frames(x), NEW a \in [pos : Nat \ {0}, particle : Nat \ {0}],
           a.pos <= Len(x.kids[e.node]), a.particle <= Len(ContentOf[e.decl]),
           NameOf[ContentOf[e.decl][a.particle].decl] = Word(x, e.node)[a.pos],
           NEW slice \in Seq(Decl \cup {NoTerm}), Len(slice) = Len(x.kids[e.node]),
           PrefixOK(x, e, a, slice)
    PROVE  PrefixOK(x, e, [pos |-> a.pos + 1, particle |-> a.particle + 1],
                    [slice EXCEPT ![a.pos] = ContentOf[e.decl][a.particle].decl])
  <1> DEFINE n == Len(x.kids[e.node])
             C == ContentOf[e.decl]
             w == Word(x, e.node)
             P == Placements(x, e.node, e.decl)
             b == [pos |-> a.pos + 1, particle |-> a.particle + 1]
             slice2 == [slice EXCEPT ![a.pos] = C[a.particle].decl]
  <1>1. /\ n \in Nat /\ Len(C) \in Nat
        /\ \A f \in P : /\ f \in [1..n -> 1..Len(C)]
                        /\ \A i \in 1..n : NameOf[C[f[i]].decl] = w[i]
                        /\ \A i, j \in 1..n : i < j => f[i] < f[j]
        /\ \A p, q \in 1..Len(C) : NameOf[C[p].decl] = NameOf[C[q].decl] => p = q
    <2>1. n \in Nat /\ Len(C) \in Nat
      BY ONLY x \in Documents, e \in Frames(x), ElementFacts
    <2>2. ASSUME NEW f \in P
          PROVE  /\ f \in [1..n -> 1..Len(C)]
                 /\ \A i \in 1..n : NameOf[C[f[i]].decl] = w[i]
                 /\ \A i, j \in 1..n : i < j => f[i] < f[j]
      BY ONLY x \in Documents, e \in Frames(x), f \in P, PlacementFacts DEF n, C, w, P
    <2>3. \A p, q \in 1..Len(C) : NameOf[C[p].decl] = NameOf[C[q].decl] => p = q
      BY ONLY x \in Documents, e \in Frames(x), ElementFacts
    <2> HIDE DEF n, C, w, P
    <2> QED BY <2>1, <2>2, <2>3
  <1>2. PICK g \in [1..a.pos - 1 -> 1..a.particle - 1] :
        /\ \A i \in 1..a.pos - 1 : NameOf[C[g[i]].decl] = w[i] /\ slice[i] = C[g[i]].decl
        /\ \A i, j \in 1..a.pos - 1 : i < j => g[i] < g[j]
        /\ \A q \in 1..a.particle - 1 : C[q].min = 1 => \E i \in 1..a.pos - 1 : g[i] = q
        /\ \A f \in P : \A i \in DOMAIN f : i >= a.pos => f[i] >= a.particle
    BY DEF PrefixOK
  <1>3. /\ a.pos \in Nat \ {0} /\ a.particle \in Nat \ {0} /\ b.pos = a.pos + 1 /\ b.particle = a.particle + 1
        /\ b.pos - 1 = a.pos /\ b.particle - 1 = a.particle /\ a.pos \in 1..n /\ a.particle \in 1..Len(C)
    <2>1. a.pos \in Nat \ {0} /\ a.particle \in Nat \ {0}
      BY ONLY a \in [pos : Nat \ {0}, particle : Nat \ {0}]
    <2>2. b.pos = a.pos + 1 /\ b.particle = a.particle + 1
      BY ONLY DEF b
    <2>3. n \in Nat /\ Len(C) \in Nat /\ a.pos <= n /\ a.particle <= Len(C)
      BY <1>1
    <2> HIDE DEF n, C, b
    <2> QED BY ONLY <2>1, <2>2, <2>3
  <1>4. \A i \in 1..a.pos - 1 : i \in 1..a.pos /\ i # a.pos
    BY <1>3
  <1> DEFINE h == [i \in 1..a.pos |-> IF i = a.pos THEN a.particle ELSE g[i]]
  <1>5. \A i \in 1..a.pos : i # a.pos => i \in 1..a.pos - 1 /\ g[i] \in 1..a.particle - 1
    BY <1>2, <1>3
  <1>6. h \in [1..a.pos -> 1..a.particle]
    BY <1>3, <1>5
  <1>7. ASSUME NEW i \in 1..a.pos
        PROVE  NameOf[C[h[i]].decl] = w[i] /\ slice2[i] = C[h[i]].decl
    <2>1. DOMAIN slice = 1..n /\ i \in 1..n
      BY <1>1, <1>3
    <2>2. slice2[i] = IF i = a.pos THEN C[a.particle].decl ELSE slice[i]
      BY <2>1
    <2>3. CASE i = a.pos
      BY <2>2, <2>3
    <2>4. CASE i # a.pos
      BY <2>2, <2>4, <1>2, <1>5
    <2> QED BY <2>3, <2>4
  <1>8. ASSUME NEW i \in 1..a.pos, NEW j \in 1..a.pos, i < j PROVE h[i] < h[j]
    <2>1. i # a.pos
      BY <1>3, <1>8
    <2>2. h[i] = g[i] /\ i \in 1..a.pos - 1 /\ g[i] \in 1..a.particle - 1
      BY <2>1, <1>5
    <2>3. CASE j = a.pos
      BY <2>2, <2>3, <1>3
    <2>4. CASE j # a.pos
      BY <2>2, <2>4, <1>2, <1>5, <1>8
    <2> QED BY <2>3, <2>4
  <1>9. ASSUME NEW q \in 1..a.particle, C[q].min = 1 PROVE \E i \in 1..a.pos : h[i] = q
    <2>1. CASE q = a.particle
      <3>1. a.pos \in 1..a.pos /\ h[a.pos] = q
        BY <2>1, <1>3
      <3> QED BY <3>1
    <2>2. CASE q # a.particle
      <3>1. q \in 1..a.particle - 1
        BY <2>2, <1>3
      <3>2. PICK i \in 1..a.pos - 1 : g[i] = q
        BY <3>1, <1>2, <1>9
      <3>3. i \in 1..a.pos /\ h[i] = q
        BY <3>2, <1>4
      <3> QED BY <3>3
    <2> QED BY <2>1, <2>2
  <1>10. ASSUME NEW f \in P, NEW i \in DOMAIN f, i >= a.pos + 1 PROVE f[i] >= a.particle + 1
    <2>1. i \in 1..n /\ f[i] \in 1..Len(C) /\ f[a.pos] \in 1..Len(C)
      BY <1>1, <1>3
    <2>2. f[a.pos] = a.particle
      <3>1. NameOf[C[f[a.pos]].decl] = w[a.pos]
        BY <1>1, <1>3
      <3>2. NameOf[C[f[a.pos]].decl] = NameOf[C[a.particle].decl]
        BY <3>1
      <3> HIDE DEF C, w, n, P
      <3> QED BY <1>1, <1>3, <2>1, <3>2
    <2>3. a.pos < i
      BY <1>3, <1>10, <2>1
    <2>4. f[a.pos] < f[i]
      BY <1>1, <1>3, <2>1, <2>3
    <2> QED BY <2>1, <2>2, <2>4, <1>3
  <1> HIDE DEF b, h, slice2, C, w, n, P
  <1>11. /\ h \in [1..b.pos - 1 -> 1..b.particle - 1]
         /\ \A i \in 1..b.pos - 1 : NameOf[C[h[i]].decl] = w[i] /\ slice2[i] = C[h[i]].decl
         /\ \A i, j \in 1..b.pos - 1 : i < j => h[i] < h[j]
         /\ \A q \in 1..b.particle - 1 : C[q].min = 1 => \E i \in 1..b.pos - 1 : h[i] = q
         /\ \A f \in P : \A i \in DOMAIN f : i >= b.pos => f[i] >= b.particle
    <2>1. 1..b.pos - 1 = 1..a.pos /\ 1..b.particle - 1 = 1..a.particle
      BY <1>3
    <2>2. \A f \in P : \A i \in DOMAIN f : i >= b.pos => f[i] >= b.particle
      BY <1>3, <1>10
    <2>3. \A i \in 1..a.pos : NameOf[C[h[i]].decl] = w[i] /\ slice2[i] = C[h[i]].decl
      BY <1>7
    <2>4. \A i, j \in 1..a.pos : i < j => h[i] < h[j]
      BY <1>8
    <2>5. \A q \in 1..a.particle : C[q].min = 1 => \E i \in 1..a.pos : h[i] = q
      BY <1>9
    <2> QED BY <1>6, <2>1, <2>2, <2>3, <2>4, <2>5
  <1>12. PrefixOK(x, e, b, slice2)
    BY <1>11 DEF PrefixOK, C, w, P
  <1> QED BY <1>12 DEF b, slice2, C

(* No placement gives a child at or after the position to a particle that   *)
(* does not accept the child there.                                        *)
LEMMA NotTaken ==
    ASSUME NEW x \in Documents, NEW e \in Frames(x), NEW a \in [pos : Nat \ {0}, particle : Nat \ {0}],
           a.pos <= Len(x.kids[e.node]) + 1,
           a.pos <= Len(x.kids[e.node]) =>
               NameOf[ContentOf[e.decl][a.particle].decl] # Word(x, e.node)[a.pos],
           NEW f \in Placements(x, e.node, e.decl),
           \A i \in DOMAIN f : i >= a.pos => f[i] >= a.particle
    PROVE  \A i \in DOMAIN f : i >= a.pos => f[i] >= a.particle + 1
  <1> DEFINE n == Len(x.kids[e.node])
             C == ContentOf[e.decl]
             w == Word(x, e.node)
  <1>1. /\ n \in Nat /\ Len(C) \in Nat /\ f \in [1..n -> 1..Len(C)]
        /\ \A i \in 1..n : NameOf[C[f[i]].decl] = w[i]
        /\ \A i, j \in 1..n : i < j => f[i] < f[j]
    <2>1. n \in Nat /\ Len(C) \in Nat
      BY ONLY x \in Documents, e \in Frames(x), ElementFacts DEF n, C
    <2>2. /\ f \in [1..n -> 1..Len(C)]
          /\ \A i \in 1..n : NameOf[C[f[i]].decl] = w[i]
          /\ \A i, j \in 1..n : i < j => f[i] < f[j]
      BY ONLY x \in Documents, e \in Frames(x), f \in Placements(x, e.node, e.decl), PlacementFacts DEF n, C, w
    <2> HIDE DEF n, C, w
    <2> QED BY ONLY <2>1, <2>2
  <1>2. a.pos \in Nat \ {0} /\ a.particle \in Nat \ {0}
    OBVIOUS
  <1>3. SUFFICES ASSUME NEW i \in 1..n, i >= a.pos, f[i] = a.particle PROVE FALSE
    <2>1. f \in [1..n -> 1..Len(C)] /\ Len(C) \in Nat
      BY ONLY <1>1
    <2> HIDE DEF n, C
    <2>2. \A i \in 1..n : f[i] \in Nat
      BY ONLY <2>1
    <2> QED BY <1>1, <1>2, <2>2
  <1>4. a.pos \in 1..n /\ f[a.pos] \in Nat /\ f[a.pos] >= a.particle
    BY <1>1, <1>2, <1>3
  <1>5. f[a.pos] # a.particle
    <2>1. NameOf[C[f[a.pos]].decl] = w[a.pos]
      BY <1>1, <1>4
    <2> QED BY <2>1, <1>4
  <1>6. f[a.pos] < f[i] \/ a.pos = i
    BY <1>1, <1>3, <1>4
  <1> QED BY <1>2, <1>3, <1>4, <1>5, <1>6

(* The search leaves a particle that is not required.                      *)
LEMMA PrefixSkipped ==
    ASSUME NEW x \in Documents, NEW e \in Frames(x), NEW a \in [pos : Nat \ {0}, particle : Nat \ {0}],
           a.pos <= Len(x.kids[e.node]) + 1, ContentOf[e.decl][a.particle].min = 0,
           a.pos <= Len(x.kids[e.node]) =>
               NameOf[ContentOf[e.decl][a.particle].decl] # Word(x, e.node)[a.pos],
           NEW slice, PrefixOK(x, e, a, slice)
    PROVE  PrefixOK(x, e, [pos |-> a.pos, particle |-> a.particle + 1], slice)
  <1> DEFINE C == ContentOf[e.decl]
             w == Word(x, e.node)
             P == Placements(x, e.node, e.decl)
             b == [pos |-> a.pos, particle |-> a.particle + 1]
  <1>1. PICK g \in [1..a.pos - 1 -> 1..a.particle - 1] :
        /\ \A i \in 1..a.pos - 1 : NameOf[C[g[i]].decl] = w[i] /\ slice[i] = C[g[i]].decl
        /\ \A i, j \in 1..a.pos - 1 : i < j => g[i] < g[j]
        /\ \A q \in 1..a.particle - 1 : C[q].min = 1 => \E i \in 1..a.pos - 1 : g[i] = q
        /\ \A f \in P : \A i \in DOMAIN f : i >= a.pos => f[i] >= a.particle
    BY DEF PrefixOK
  <1>2. /\ a.pos \in Nat \ {0} /\ a.particle \in Nat \ {0}
        /\ b.pos = a.pos /\ b.particle = a.particle + 1 /\ b.particle - 1 = a.particle
    OBVIOUS
  <1>3. g \in [1..b.pos - 1 -> 1..b.particle - 1]
    BY <1>2
  <1>4. \A q \in 1..b.particle - 1 : C[q].min = 1 => \E i \in 1..b.pos - 1 : g[i] = q
    <2>1. \A q \in 1..a.particle : q = a.particle \/ q \in 1..a.particle - 1
      BY <1>2
    <2>2. C[a.particle].min # 1
      OBVIOUS
    <2> QED BY <1>1, <1>2, <2>1, <2>2
  <1>5. \A f \in P : \A i \in DOMAIN f : i >= b.pos => f[i] >= b.particle
    BY <1>1, <1>2, NotTaken
  <1> HIDE DEF b, C, w, P
  <1>6. PrefixOK(x, e, b, slice)
    <2>1. /\ \A i \in 1..b.pos - 1 : NameOf[C[g[i]].decl] = w[i] /\ slice[i] = C[g[i]].decl
          /\ \A i, j \in 1..b.pos - 1 : i < j => g[i] < g[j]
      BY <1>1, <1>2
    <2> QED BY <1>3, <1>4, <1>5, <2>1 DEF PrefixOK, C, w, P
  <1> QED BY <1>6 DEF b

(* A required particle not accepted, or children left over: no placement.  *)
LEMMA PrefixStuck ==
    ASSUME NEW x \in Documents, NEW e \in Frames(x), NEW a \in [pos : Nat \ {0}, particle : Nat \ {0}],
           a.pos <= Len(x.kids[e.node]) + 1, a.particle <= Len(ContentOf[e.decl]) + 1,
           \/ /\ a.particle <= Len(ContentOf[e.decl]) /\ ContentOf[e.decl][a.particle].min = 1
              /\ a.pos <= Len(x.kids[e.node]) =>
                    NameOf[ContentOf[e.decl][a.particle].decl] # Word(x, e.node)[a.pos]
           \/ a.particle > Len(ContentOf[e.decl]) /\ a.pos # Len(x.kids[e.node]) + 1,
           NEW slice, PrefixOK(x, e, a, slice)
    PROVE  Placements(x, e.node, e.decl) = {}
  <1> DEFINE n == Len(x.kids[e.node])
             C == ContentOf[e.decl]
             w == Word(x, e.node)
             P == Placements(x, e.node, e.decl)
  <1>1. SUFFICES ASSUME NEW f \in P PROVE FALSE
    OBVIOUS
  <1>2. /\ n \in Nat /\ Len(C) \in Nat /\ f \in [1..n -> 1..Len(C)]
        /\ \A i \in 1..n : NameOf[C[f[i]].decl] = w[i]
        /\ \A q \in 1..Len(C) : C[q].min = 1 => \E i \in 1..n : f[i] = q
        /\ \A p, q \in 1..Len(C) : NameOf[C[p].decl] = NameOf[C[q].decl] => p = q
    <2>1. DOMAIN x.kids[e.node] = 1..n /\ DOMAIN C = 1..Len(C)
      BY ElementFacts
    <2>4. /\ f \in [1..n -> 1..Len(C)]
          /\ \A i \in 1..n : NameOf[C[f[i]].decl] = w[i]
          /\ \A q \in 1..Len(C) : C[q].min = 1 => \E i \in 1..n : f[i] = q
      BY <1>1, <2>1 DEF Placements
    <2>2. \A p, q \in 1..Len(C) : NameOf[C[p].decl] = NameOf[C[q].decl] => p = q
      BY ElementFacts
    <2>3. n \in Nat /\ Len(C) \in Nat
      BY ElementFacts
    <2> HIDE DEF n, C, w, P
    <2> QED BY <2>2, <2>3, <2>4
  <1>3. PICK g \in [1..a.pos - 1 -> 1..a.particle - 1] :
        /\ \A i \in 1..a.pos - 1 : NameOf[C[g[i]].decl] = w[i]
        /\ \A i \in DOMAIN f : i >= a.pos => f[i] >= a.particle
    BY DEF PrefixOK
  <1>4. a.pos \in Nat \ {0} /\ a.particle \in Nat \ {0} /\ a.pos <= n + 1
    OBVIOUS
  <1>5. CASE /\ a.particle <= Len(C) /\ C[a.particle].min = 1
             /\ a.pos <= n => NameOf[C[a.particle].decl] # w[a.pos]
    <2>1. \A i \in DOMAIN f : i >= a.pos => f[i] >= a.particle + 1
      BY <1>3, <1>4, <1>5, NotTaken
    <2> HIDE DEF n, C, w, P
    <2>2. PICK i \in 1..n : f[i] = a.particle
      BY <1>2, <1>4, <1>5
    <2>3. ~(i >= a.pos)
      BY <1>2, <1>4, <2>1, <2>2
    <2>4. i \in 1..a.pos - 1
      BY <1>4, <2>2, <2>3
    <2>5. g[i] \in 1..a.particle - 1 /\ NameOf[C[g[i]].decl] = w[i]
      BY <1>3, <2>4
    <2>6. NameOf[C[f[i]].decl] = NameOf[C[g[i]].decl]
      BY <1>2, <2>5
    <2>7. g[i] \in 1..Len(C) /\ f[i] \in 1..Len(C)
      BY <1>2, <1>4, <1>5, <2>5
    <2>8. f[i] = g[i]
      <3> QED BY <1>2, <2>6, <2>7
    <2> QED BY <1>4, <2>2, <2>5, <2>8
  <1>6. CASE a.particle > Len(C) /\ a.pos # n + 1
    <2> HIDE DEF n, C, w, P
    <2>1. a.pos \in 1..n
      BY <1>2, <1>4, <1>6
    <2>2. f[a.pos] \in 1..Len(C) /\ f[a.pos] >= a.particle
      BY <1>2, <1>3, <1>4, <2>1
    <2> QED BY <1>2, <1>4, <1>6, <2>2
  <1> QED BY <1>5, <1>6

(* A search that comes to the end has found the placement.                 *)
IsPlacing(x, e, slice) ==
    \E g \in Placements(x, e.node, e.decl) :
        slice = [i \in DOMAIN x.kids[e.node] |-> ContentOf[e.decl][g[i]].decl]

LEMMA PrefixEnds ==
    ASSUME NEW x \in Documents, NEW e \in Frames(x), NEW a \in [pos : Nat \ {0}, particle : Nat \ {0}],
           a.pos = Len(x.kids[e.node]) + 1, a.particle = Len(ContentOf[e.decl]) + 1,
           NEW slice \in Seq(Decl \cup {NoTerm}), Len(slice) = Len(x.kids[e.node]),
           PrefixOK(x, e, a, slice)
    PROVE  IsPlacing(x, e, slice)
  <1> DEFINE n == Len(x.kids[e.node])
             C == ContentOf[e.decl]
             w == Word(x, e.node)
             P == Placements(x, e.node, e.decl)
  <1>1. n \in Nat /\ Len(C) \in Nat /\ DOMAIN x.kids[e.node] = 1..n /\ DOMAIN C = 1..Len(C)
    BY ElementFacts
  <1>2. a.pos - 1 = n /\ a.particle - 1 = Len(C)
    BY <1>1
  <1>3. PICK g \in [1..n -> 1..Len(C)] :
        /\ \A i \in 1..n : NameOf[C[g[i]].decl] = w[i] /\ slice[i] = C[g[i]].decl
        /\ \A i, j \in 1..n : i < j => g[i] < g[j]
        /\ \A q \in 1..Len(C) : C[q].min = 1 => \E i \in 1..n : g[i] = q
    <2> DEFINE PlacedUpTo(u, v) ==
                 \E g \in [1..u -> 1..v] :
                    /\ \A i \in 1..u : NameOf[C[g[i]].decl] = w[i] /\ slice[i] = C[g[i]].decl
                    /\ \A i, j \in 1..u : i < j => g[i] < g[j]
                    /\ \A q \in 1..v : C[q].min = 1 => \E i \in 1..u : g[i] = q
    <2>1. PlacedUpTo(a.pos - 1, a.particle - 1)
      BY DEF PrefixOK
    <2>2. PlacedUpTo(n, Len(C))
      <3> HIDE DEF PlacedUpTo, n, C
      <3> QED BY <1>2, <2>1
    <2> QED BY <2>2
  <1>4. g \in P
    BY <1>1, <1>3 DEF Placements
  <1>5. slice = [i \in 1..n |-> C[g[i]].decl]
    <2>1. slice = [i \in 1..n |-> slice[i]]
      OBVIOUS
    <2> QED BY <2>1, <1>3
  <1>6. slice = [i \in DOMAIN x.kids[e.node] |-> ContentOf[e.decl][g[i]].decl]
    BY <1>1, <1>5
  <1> QED BY <1>4, <1>6 DEF IsPlacing

LEMMA MakeTermsKeeps ==
    ASSUME NEW x \in Documents, NEW st, NEW a, NEW os, NEW chs, NEW tm, NEW sl \in Slices,
           CallerOK(x, st, a, "terms", os, chs, tm, sl), NEW sl2,
           sl2 = Append(sl, [i \in 1..Len(x.kids[st[Len(st)].node]) |-> NoTerm])
    PROVE  /\ sl2 \in Slices
           /\ CallerOK(x, st, [pos |-> 1, particle |-> 1], "search", os, chs, Len(sl) + 1, sl2)
  <1> DEFINE e == st[Len(st)]
             n == Len(x.kids[e.node])
             new == [i \in 1..n |-> NoTerm]
             a1 == [pos |-> 1, particle |-> 1]
  <1>1. "terms" \in Matching /\ "search" \in Matching /\ "search" \notin Inactive
    BY DEF Matching, Searching, Inactive
  <1>2. st \in Seq(Frames(x)) /\ st # << >>
    BY <1>1 DEF CallerOK, ShapeOK
  <1>a. Len(st) \in Nat /\ e \in Frames(x)
    BY <1>2, TopFacts
  <1>3. n \in Nat /\ Len(st) \in Nat
    BY <1>a, ElementFacts
  <1>4. new \in Seq(Decl \cup {NoTerm}) /\ Len(new) = n
    BY <1>3
  <1>5. /\ sl2 \in Slices /\ Len(sl) \in Nat /\ Len(sl2) = Len(sl) + 1
        /\ sl2[Len(sl) + 1] = new /\ \A i \in 1..Len(sl) : sl2[i] = sl[i]
    BY <1>4, AppendProperties DEF Slices
  <1>6. FramesOK(x, st, "terms", os, sl) /\ ResultsOK(x, st, "terms", os)
    BY DEF CallerOK
  <1>7. \A k \in Settled(st, "terms") : st[k].terms \in 1..Len(sl)
    BY <1>6 DEF FramesOK, Placed
  <1>8. FramesOK(x, st, "terms", os, sl2)
    <2>1. \A k \in Settled(st, "terms") : sl2[st[k].terms] = sl[st[k].terms]
      BY <1>5, <1>7
    <2>2. Len(st) \in Nat /\ Len(sl) \in Nat /\ Len(sl2) \in Nat /\ Len(sl) <= Len(sl2)
      BY <1>3, <1>5
    <2> QED BY ONLY <1>6, <2>1, <2>2, SlicesKept
  <1>9. /\ FramesOK(x, st, "search", os, sl2) /\ ResultsOK(x, st, "search", os)
        /\ Settled(st, "search") = Settled(st, "terms")
    BY <1>1, <1>6, <1>8, MatchingKept
  <1>10. ShapeOK(x, st, a1, "search", os)
    BY <1>1 DEF CallerOK, ShapeOK, Inactive, Matching, Searching
  <1>11. PrefixOK(x, e, a1, sl2[Len(sl) + 1])
    <2> DEFINE g == [i \in 1..0 |-> i]
    <2>1. a1.pos = 1 /\ a1.particle = 1 /\ 1..a1.pos - 1 = {} /\ 1..a1.particle - 1 = {}
      OBVIOUS
    <2>2. g \in [1..a1.pos - 1 -> 1..a1.particle - 1]
      BY <2>1
    <2>3. ASSUME NEW f \in Placements(x, e.node, e.decl), NEW i \in DOMAIN f PROVE f[i] >= a1.particle
      <3>1. f \in [1..n -> 1..Len(ContentOf[e.decl])]
        BY <1>a, ElementFacts
      <3>2. Len(ContentOf[e.decl]) \in Nat
        BY <1>a, ElementFacts
      <3>3. f[i] \in 1..Len(ContentOf[e.decl])
        BY <3>1
      <3> QED BY <2>1, <3>2, <3>3
    <2> HIDE DEF g, a1
    <2> QED BY <2>1, <2>2, <2>3 DEF PrefixOK
  <1>12. SearchOK(x, st, a1, "search", chs, Len(sl) + 1, sl2)
    <2>1. chs = Word(x, e.node)
      BY DEF CallerOK, SearchOK
    <2>2. Len(ContentOf[e.decl]) \in Nat
      BY <1>a, ElementFacts
    <2>3. \A k \in Settled(st, "search") : st[k].terms # Len(sl) + 1
      BY <1>5, <1>7, <1>9
    <2>4. Len(sl2[Len(sl) + 1]) = n
      BY <1>4, <1>5
    <2>5. a1.pos = 1 /\ a1.particle = 1 /\ "search" # "record"
      OBVIOUS
    <2>6. Len(sl) + 1 = Len(sl2) /\ Len(sl) + 1 # 0 /\ 1 <= n + 1 /\ 1 <= Len(ContentOf[e.decl]) + 1
      <3>1. \A m \in Nat : m + 1 # 0 /\ 1 <= m + 1
        OBVIOUS
      <3> QED BY <1>3, <1>5, <2>2, <3>1
    <2> HIDE DEF a1
    <2> QED BY <1>11, <2>1, <2>3, <2>4, <2>5, <2>6 DEF SearchOK
  <1> QED BY <1>5, <1>9, <1>10, <1>12 DEF CallerOK

LEMMA ConsumeKeeps ==
    ASSUME NEW x \in Documents, NEW st, NEW a, NEW os, NEW chs, NEW tm, NEW sl \in Slices,
           CallerOK(x, st, a, "search", os, chs, tm, sl),
           a.particle <= Len(ContentOf[st[Len(st)].decl]), a.pos <= Len(chs),
           NameOf[ContentOf[st[Len(st)].decl][a.particle].decl] = chs[a.pos]
    PROVE  CallerOK(x, st, a, "record", os, chs, tm, sl)
  <1>1. "record" \in Matching /\ "search" \in Matching /\ "record" \notin Inactive
        /\ "search" \in Searching /\ "record" \in Searching
    BY DEF Matching, Searching, Inactive
  <1>2. ShapeOK(x, st, a, "record", os)
    BY <1>1 DEF CallerOK, ShapeOK
  <1>3. /\ FramesOK(x, st, "record", os, sl) /\ ResultsOK(x, st, "record", os)
        /\ Settled(st, "record") = Settled(st, "search")
    BY <1>1, MatchingKept DEF CallerOK
  <1>4. SearchOK(x, st, a, "record", chs, tm, sl)
    BY <1>1, <1>3 DEF CallerOK, SearchOK
  <1> QED BY <1>2, <1>3, <1>4 DEF CallerOK

LEMMA RecordKeeps ==
    ASSUME NEW x \in Documents, NEW st, NEW a, NEW os, NEW chs, NEW tm, NEW sl \in Slices,
           CallerOK(x, st, a, "record", os, chs, tm, sl), NEW sl2,
           sl2 = [sl EXCEPT ![tm][a.pos] = ContentOf[st[Len(st)].decl][a.particle].decl]
    PROVE  /\ a.pos <= Len(sl[tm]) /\ sl2 \in Slices
           /\ CallerOK(x, st, [pos |-> a.pos + 1, particle |-> a.particle + 1], "search", os, chs, tm, sl2)
  <1> DEFINE e == st[Len(st)]
             n == Len(x.kids[e.node])
             C == ContentOf[e.decl]
             b == [pos |-> a.pos + 1, particle |-> a.particle + 1]
             slice2 == [sl[tm] EXCEPT ![a.pos] = C[a.particle].decl]
  <1>1. "record" \in Matching /\ "search" \in Matching /\ "record" \in Searching /\ "search" \in Searching
        /\ "search" \notin Inactive /\ "search" # "record" /\ "search" # "visit" /\ "search" # "idle"
    BY DEF Matching, Searching, Inactive
  <1>2. /\ st \in Seq(Frames(x)) /\ st # << >> /\ a \in [pos : Nat \ {0}, particle : Nat \ {0}]
    BY <1>1 DEF CallerOK, ShapeOK
  <1>3. Len(st) \in Nat /\ e \in Frames(x)
    BY <1>2, TopFacts
  <1>4. n \in Nat /\ Len(C) \in Nat /\ Len(Word(x, e.node)) = n /\ \A i \in 1..Len(C) : C[i].decl \in Decl
    BY <1>3, ElementFacts
  <1>5. /\ chs = Word(x, e.node) /\ tm = Len(sl) /\ tm # 0 /\ Len(sl[tm]) = n
        /\ a.particle <= Len(C) /\ a.pos <= Len(chs) /\ NameOf[C[a.particle].decl] = chs[a.pos]
        /\ \A k \in Settled(st, "record") : st[k].terms # tm
        /\ PrefixOK(x, e, a, sl[tm])
    BY <1>1 DEF CallerOK, SearchOK
  <1>6. a.pos \in 1..n /\ a.particle \in 1..Len(C) /\ a.pos <= Len(sl[tm])
    BY <1>2, <1>4, <1>5
  <1>7. Len(sl) \in Nat /\ tm \in 1..Len(sl) /\ sl[tm] \in Seq(Decl \cup {NoTerm})
    BY <1>5 DEF Slices
  <1>8. slice2 \in Seq(Decl \cup {NoTerm}) /\ Len(slice2) = n
    <2>1. C[a.particle].decl \in Decl
      BY <1>4, <1>6
    <2> HIDE DEF C
    <2> QED BY <1>5, <1>6, <1>7, <2>1
  <1>9. sl2 = [sl EXCEPT ![tm] = slice2]
    OBVIOUS
  <1>10. sl2 \in Slices /\ Len(sl2) = Len(sl) /\ sl2[tm] = slice2 /\ \A i \in 1..Len(sl) : i # tm => sl2[i] = sl[i]
    <2> DEFINE Slice == Seq(Decl \cup {NoTerm})
    <2>1. sl \in Seq(Slice) /\ slice2 \in Slice
      BY <1>8 DEF Slices
    <2> HIDE DEF slice2, Slice
    <2>4. /\ [sl EXCEPT ![tm] = slice2] \in Seq(Slice) /\ Len([sl EXCEPT ![tm] = slice2]) = Len(sl)
          /\ \A j \in 1..Len(sl) : [sl EXCEPT ![tm] = slice2][j] = IF j = tm THEN slice2 ELSE sl[j]
      BY <2>1, <1>7, ExceptSeq
    <2>5. sl2 \in Seq(Slice) /\ Len(sl2) = Len(sl)
          /\ \A j \in 1..Len(sl) : sl2[j] = IF j = tm THEN slice2 ELSE sl[j]
      BY <2>4, <1>9
    <2>6. sl2[tm] = slice2 /\ \A i \in 1..Len(sl) : i # tm => sl2[i] = sl[i]
      BY <2>5, <1>7
    <2> QED BY <2>5, <2>6 DEF Slices, Slice
  <1>11. PrefixOK(x, e, b, sl2[tm])
    <2>1. PrefixOK(x, e, b, slice2)
      BY <1>2, <1>3, <1>4, <1>5, <1>7, PrefixTaken
    <2> QED BY <2>1, <1>10
  <1>12. FramesOK(x, st, "record", os, sl2)
    <2>1. FramesOK(x, st, "record", os, sl)
      BY DEF CallerOK
    <2>2. \A k \in Settled(st, "record") : st[k].terms \in 1..Len(sl) /\ st[k].terms # tm
      BY <1>5, <2>1 DEF FramesOK, Placed
    <2>3. \A k \in Settled(st, "record") : sl2[st[k].terms] = sl[st[k].terms]
      BY <1>10, <2>2
    <2>4. Len(st) \in Nat /\ Len(sl) \in Nat /\ Len(sl2) \in Nat /\ Len(sl) <= Len(sl2)
      BY <1>3, <1>7, <1>10
    <2> QED BY ONLY <2>1, <2>3, <2>4, SlicesKept
  <1>13. /\ FramesOK(x, st, "search", os, sl2) /\ ResultsOK(x, st, "search", os)
         /\ Settled(st, "search") = Settled(st, "record")
    BY <1>1, <1>12, MatchingKept DEF CallerOK
  <1>14. b \in [pos : Nat \ {0}, particle : Nat \ {0}]
    BY <1>2
  <1>15. ShapeOK(x, st, b, "search", os)
    <2> HIDE DEF b
    <2> QED BY <1>1, <1>14 DEF CallerOK, ShapeOK
  <1>16. SearchOK(x, st, b, "search", chs, tm, sl2)
    <2>1. b.pos <= n + 1 /\ b.particle <= Len(C) + 1
      BY <1>2, <1>4, <1>6
    <2>2. tm = Len(sl2) /\ Len(sl2[tm]) = n
      BY <1>5, <1>8, <1>10
    <2> HIDE DEF b
    <2> QED BY <1>1, <1>5, <1>11, <1>13, <2>1, <2>2 DEF SearchOK
  <1> QED BY <1>6, <1>10, <1>13, <1>15, <1>16 DEF CallerOK

LEMMA SkipKeeps ==
    ASSUME NEW x \in Documents, NEW st, NEW a, NEW os, NEW chs, NEW tm, NEW sl \in Slices,
           CallerOK(x, st, a, "search", os, chs, tm, sl),
           a.particle <= Len(ContentOf[st[Len(st)].decl]), ContentOf[st[Len(st)].decl][a.particle].min = 0,
           ~(a.pos <= Len(chs) /\ NameOf[ContentOf[st[Len(st)].decl][a.particle].decl] = chs[a.pos])
    PROVE  CallerOK(x, st, [pos |-> a.pos, particle |-> a.particle + 1], "search", os, chs, tm, sl)
  <1> DEFINE e == st[Len(st)]
             n == Len(x.kids[e.node])
             C == ContentOf[e.decl]
             b == [pos |-> a.pos, particle |-> a.particle + 1]
  <1>1. "search" \in Matching /\ "search" \in Searching /\ "search" # "record"
    BY DEF Matching, Searching
  <1>2. /\ st \in Seq(Frames(x)) /\ st # << >> /\ a \in [pos : Nat \ {0}, particle : Nat \ {0}]
    BY <1>1 DEF CallerOK, ShapeOK
  <1>3. Len(st) \in Nat /\ e \in Frames(x)
    BY <1>2, TopFacts
  <1>4. n \in Nat /\ Len(C) \in Nat /\ Len(Word(x, e.node)) = n
    BY <1>3, ElementFacts
  <1>5. /\ chs = Word(x, e.node) /\ a.pos <= n + 1 /\ PrefixOK(x, e, a, sl[tm])
    BY <1>1 DEF CallerOK, SearchOK
  <1>6. PrefixOK(x, e, b, sl[tm])
    BY <1>2, <1>3, <1>4, <1>5, PrefixSkipped
  <1>7. b \in [pos : Nat \ {0}, particle : Nat \ {0}] /\ b.pos = a.pos /\ b.particle <= Len(C) + 1
    BY <1>2, <1>4
  <1> HIDE DEF b
  <1>8. ShapeOK(x, st, b, "search", os)
    BY <1>7 DEF CallerOK, ShapeOK
  <1>9. SearchOK(x, st, b, "search", chs, tm, sl)
    BY <1>1, <1>5, <1>6, <1>7 DEF CallerOK, SearchOK
  <1> QED BY <1>8, <1>9 DEF CallerOK, b

(* Frames and results once the element on top is found too.                *)
DoneOK(x, st, os, os2, sl) ==
    /\ os2 \subseteq Found(x) /\ Whole(x) \in os2
    /\ \A k \in 1..Len(st) - 1 :
          /\ Placed(x, st[k], sl) /\ st[k].next <= Len(x.kids[st[k].node]) + 1
          /\ Alone(x, st[k].node, st[k].decl) \in os2
          /\ \A i \in 1..st[k].next - 1 : AloneKid(x, st[k], sl, i) \in os2
    /\ \A o \in os2 : /\ o = Alone(x, o.node, o.decl)
                      /\ o = Whole(x) \/ \E q \in os2 : o \in Below(x, q)
    /\ \A o \in os : \/ Below(x, o) \subseteq os2
                     \/ \E k \in 1..Len(st) - 1 : st[k].node = o.node /\ st[k].decl = o.decl

(* The element on top of the stack is due: it is the root, or the child    *)
(* its parent handed on last.                                              *)
LEMMA TopDone ==
    ASSUME NEW x \in Documents, NEW st, NEW a, NEW os, NEW sl, ShapeOK(x, st, a, "search", os),
           FramesOK(x, st, "search", os, sl), ResultsOK(x, st, "search", os),
           NEW os2, os2 = os \cup {Alone(x, st[Len(st)].node, st[Len(st)].decl)}
    PROVE  DoneOK(x, st, os, os2, sl)
  <1> DEFINE e == st[Len(st)]
             r == Alone(x, e.node, e.decl)
  <1>1. "search" \in Matching /\ "search" # "visit" /\ "search" # "idle"
    BY DEF Matching, Searching
  <1>2. /\ st \in Seq(Frames(x)) /\ st # << >> /\ os \subseteq Found(x)
        /\ st[1].node = x.root /\ st[1].decl = Top
    BY <1>1 DEF ShapeOK
  <1>3. Len(st) \in Nat \ {0} /\ e \in Frames(x) /\ \A k \in 1..Len(st) : st[k] \in Frames(x)
    BY <1>2, TopFacts, ElementOfSeq
  <1>4. /\ \A k \in 1..Len(st) : st[k].next \in Nat \ {0} /\ st[k].node \in Node(x) /\ st[k].decl \in Decl
        /\ \A k \in 1..Len(st) : Len(x.kids[st[k].node]) \in Nat
    <2>1. ASSUME NEW k \in 1..Len(st)
          PROVE  /\ st[k].next \in Nat \ {0} /\ st[k].node \in Node(x) /\ st[k].decl \in Decl
                 /\ Len(x.kids[st[k].node]) \in Nat
      <3>1. st[k] \in Frames(x)
        BY <1>3
      <3>2. Len(x.kids[st[k].node]) \in Nat
        BY <3>1, ElementFacts
      <3>3. st[k].next \in Nat \ {0} /\ st[k].node \in Node(x) /\ st[k].decl \in Decl
        BY <3>1 DEF Frames
      <3> QED BY <3>2, <3>3
    <2> QED BY <2>1
  <1>5. Settled(st, "search") = 1..Len(st) - 1
    <2>1. \A k \in 1..Len(st) : k < Len(st) <=> k \in 1..Len(st) - 1
      BY <1>3
    <2>2. \A k \in 1..Len(st) - 1 : k \in 1..Len(st)
      BY <1>3
    <2> QED BY <1>1, <2>1, <2>2 DEF Settled
  <1>6. r \in Found(x) /\ r = Alone(x, r.node, r.decl) /\ r.node = e.node /\ r.decl = e.decl
    <2>1. e.node \in Node(x) /\ e.decl \in Decl
      BY <1>3 DEF Frames
    <2> QED BY <2>1 DEF Alone, Found
  <1>7. /\ \A k \in 1..Len(st) - 1 :
              /\ Placed(x, st[k], sl) /\ st[k].next <= Len(x.kids[st[k].node]) + 1
              /\ Alone(x, st[k].node, st[k].decl) \in os
              /\ \A i \in 1..Handled(st, "search", k) : AloneKid(x, st[k], sl, i) \in os
              /\ st[k].next > 1 /\ st[k+1].node = x.kids[st[k].node][st[k].next - 1]
              /\ st[k+1].decl = sl[st[k].terms][st[k].next - 1]
    BY <1>5 DEF FramesOK
  <1>8. ASSUME Len(st) # 1
        PROVE  /\ Len(st) - 1 \in 1..Len(st) - 1
               /\ AloneKid(x, st[Len(st) - 1], sl, st[Len(st) - 1].next - 1) = r
               /\ \E q \in os : r \in Below(x, q)
    <2> DEFINE k == Len(st) - 1
    <2>a. \A m \in Nat \ {0} : m # 1 => m - 1 \in 1..m - 1 /\ m - 1 \in 1..m /\ m - 1 + 1 = m
      OBVIOUS
    <2>1. k \in 1..Len(st) - 1 /\ k \in 1..Len(st) /\ k + 1 = Len(st)
      <3>1. Len(st) \in Nat \ {0} /\ Len(st) # 1
        BY ONLY <1>3, <1>8
      <3> QED BY ONLY <3>1, <2>a DEF k
    <2> HIDE DEF k
    <2>2. AloneKid(x, st[k], sl, st[k].next - 1) = r
      BY <1>7, <2>1 DEF AloneKid
    <2>3. st[k].next - 1 \in 1..Len(x.kids[st[k].node])
      BY <1>4, <1>7, <2>1
    <2>4. PICK q \in os : q = Alone(x, st[k].node, st[k].decl)
      BY <1>7, <2>1
    <2>5. q.node = st[k].node /\ q.decl = st[k].decl
      BY <2>4 DEF Alone
    <2>6. Below(x, q) = {AloneKid(x, st[k], sl, i) : i \in 1..Len(x.kids[st[k].node])}
      BY <1>3, <1>7, <2>1, <2>5, BelowPlaced
    <2>7. r \in Below(x, q)
      BY <2>2, <2>3, <2>6
    <2> QED BY <2>1, <2>2, <2>7 DEF k
  <1>9. Len(st) = 1 => r = Whole(x)
    BY <1>2 DEF Whole
  <1>10. ASSUME NEW k \in 1..Len(st) - 1, NEW i \in 1..st[k].next - 1 PROVE AloneKid(x, st[k], sl, i) \in os2
    <2>1. k \in 1..Len(st) /\ st[k].next \in Nat \ {0} /\ i \in Nat /\ i <= st[k].next - 1 /\ i >= 1
      BY <1>3, <1>4
    <2>2. CASE k # Len(st) - 1
      <3>1. Handled(st, "search", k) = st[k].next - 1
        BY <2>2 DEF Handled
      <3> QED BY <1>7, <3>1
    <2>3. CASE k = Len(st) - 1 /\ i # st[k].next - 1
      <3>1. Handled(st, "search", k) = st[k].next - 2
        BY <2>3, <1>1 DEF Handled
      <3>2. i \in 1..st[k].next - 2
        BY <2>1, <2>3
      <3> QED BY <1>7, <3>1, <3>2
    <2>4. CASE k = Len(st) - 1 /\ i = st[k].next - 1
      <3>1. Len(st) # 1
        BY <2>4, <1>3
      <3> QED BY <2>4, <3>1, <1>8
    <2> QED BY <2>2, <2>3, <2>4
  <1>11. Whole(x) \in os2
    BY <1>1, <1>9 DEF ResultsOK
  <1>12. ASSUME NEW o \in os2
         PROVE  o = Alone(x, o.node, o.decl) /\ (o = Whole(x) \/ \E q \in os2 : o \in Below(x, q))
    <2>1. CASE o \in os
      BY <2>1 DEF ResultsOK
    <2>2. CASE o = r
      BY <2>2, <1>6, <1>8, <1>9
    <2> QED BY <2>1, <2>2
  <1>13. \A o \in os : \/ Below(x, o) \subseteq os2
                       \/ \E k \in 1..Len(st) - 1 : st[k].node = o.node /\ st[k].decl = o.decl
    BY <1>5 DEF ResultsOK
  <1>14. os2 \subseteq Found(x)
    BY <1>2, <1>6
  <1>15. \A k \in 1..Len(st) - 1 : /\ Placed(x, st[k], sl) /\ st[k].next <= Len(x.kids[st[k].node]) + 1
                                   /\ Alone(x, st[k].node, st[k].decl) \in os2
    BY <1>7
  <1> HIDE DEF r, e
  <1> QED BY <1>10, <1>11, <1>12, <1>13, <1>14, <1>15 DEF DoneOK

(* Taking the last frame off the stack.                                    *)
Popped(x, st, st2) ==
    /\ st2 \in Seq(Frames(x)) /\ Len(st2) = Len(st) - 1
    /\ \A k \in 1..Len(st) - 1 : st2[k] = st[k]
    /\ st2 # << >> => Len(st2) >= 1

LEMMA PopFacts ==
    ASSUME NEW x, NEW st \in Seq(Frames(x)), st # << >>, NEW st2, st2 = SubSeq(st, 1, Len(st) - 1)
    PROVE  Popped(x, st, st2)
  <1> DEFINE n == Len(st) - 1
             F == Frames(x)
  <1>1. n \in Nat /\ \A i \in 1..n : st[i] \in F
    <2> HIDE DEF F
    <2>1. st \in Seq(F)
      BY DEF F
    <2>2. Len(st) \in Nat \ {0}
      BY <2>1
    <2> QED BY <2>1, <2>2, ElementOfSeq
  <1> HIDE DEF n, F
  <1>2. /\ SubSeq(st, 1, n) \in Seq(F)
        /\ Len(SubSeq(st, 1, n)) = IF 1 <= n THEN n - 1 + 1 ELSE 0
        /\ \A i \in 1..n - 1 + 1 : SubSeq(st, 1, n)[i] = st[1 + i - 1]
    BY <1>1, SubSeqProperties
  <1>3. Len(SubSeq(st, 1, n)) = n /\ \A i \in 1..n : SubSeq(st, 1, n)[i] = st[i]
    BY <1>1, <1>2
  <1>4. st2 = SubSeq(st, 1, n)
    BY DEF n
  <1>5. st2 # << >> => Len(st2) >= 1
    BY <1>2, <1>4
  <1> QED BY <1>2, <1>3, <1>4, <1>5 DEF n, F, Popped

LEMMA FailKeeps ==
    ASSUME NEW x \in Documents, NEW st, NEW a, NEW os, NEW chs, NEW tm, NEW sl \in Slices,
           CallerOK(x, st, a, "search", os, chs, tm, sl),
           \/ /\ a.particle <= Len(ContentOf[st[Len(st)].decl])
              /\ ~(a.pos <= Len(chs) /\ NameOf[ContentOf[st[Len(st)].decl][a.particle].decl] = chs[a.pos])
              /\ ContentOf[st[Len(st)].decl][a.particle].min = 1
           \/ a.particle > Len(ContentOf[st[Len(st)].decl]) /\ a.pos # Len(chs) + 1,
           NEW os2,
           os2 = os \cup {[node |-> st[Len(st)].node, decl |-> st[Len(st)].decl, matched |-> FALSE]},
           NEW st2, st2 = SubSeq(st, 1, Len(st) - 1)
    PROVE  CallerOK(x, st2, a, "visit", os2, chs, tm, sl)
  <1> DEFINE e == st[Len(st)]
             C == ContentOf[e.decl]
             r == Alone(x, e.node, e.decl)
  <1>1. /\ "search" \in Matching /\ "search" \in Searching /\ "visit" \notin Matching /\ "visit" \notin Searching
        /\ "visit" \notin Inactive /\ "visit" # "idle" /\ "visit" # "terms" /\ "visit" # "record"
    BY DEF Matching, Searching, Inactive
  <1>2. /\ st \in Seq(Frames(x)) /\ st # << >> /\ a \in [pos : Nat \ {0}, particle : Nat \ {0}]
        /\ st[1].node = x.root /\ st[1].decl = Top
    BY <1>1 DEF CallerOK, ShapeOK
  <1>3. Len(st) \in Nat \ {0} /\ e \in Frames(x)
    BY <1>2, TopFacts
  <1>4. /\ chs = Word(x, e.node) /\ a.pos <= Len(x.kids[e.node]) + 1 /\ a.particle <= Len(C) + 1
        /\ PrefixOK(x, e, a, sl[tm]) /\ Len(Word(x, e.node)) = Len(x.kids[e.node])
    BY <1>1, <1>3, ElementFacts DEF CallerOK, SearchOK
  <1>5. Placements(x, e.node, e.decl) = {}
    BY <1>2, <1>3, <1>4, PrefixStuck
  <1>6. r = [node |-> e.node, decl |-> e.decl, matched |-> FALSE] /\ os2 = os \cup {r} /\ Below(x, r) = {}
    BY <1>5 DEF Alone, Below
  <1>7. /\ ShapeOK(x, st, a, "search", os) /\ FramesOK(x, st, "search", os, sl) /\ ResultsOK(x, st, "search", os)
    BY DEF CallerOK
  <1>d. DoneOK(x, st, os, os2, sl)
    <2>1. os2 = os \cup {Alone(x, st[Len(st)].node, st[Len(st)].decl)}
      BY <1>6
    <2> QED BY ONLY x \in Documents, <1>7, <2>1, TopDone
  <1>8. /\ os2 \subseteq Found(x) /\ Whole(x) \in os2
        /\ \A k \in 1..Len(st) - 1 :
              /\ Placed(x, st[k], sl) /\ st[k].next <= Len(x.kids[st[k].node]) + 1
              /\ Alone(x, st[k].node, st[k].decl) \in os2
              /\ \A i \in 1..st[k].next - 1 : AloneKid(x, st[k], sl, i) \in os2
        /\ \A o \in os2 : /\ o = Alone(x, o.node, o.decl)
                          /\ o = Whole(x) \/ \E q \in os2 : o \in Below(x, q)
        /\ \A o \in os : \/ Below(x, o) \subseteq os2
                         \/ \E k \in 1..Len(st) - 1 : st[k].node = o.node /\ st[k].decl = o.decl
    BY <1>d DEF DoneOK
  <1>9. /\ st2 \in Seq(Frames(x)) /\ Len(st2) = Len(st) - 1 /\ \A k \in 1..Len(st) - 1 : st2[k] = st[k]
        /\ st2 # << >> => Len(st2) >= 1
    <2>1. Popped(x, st, st2)
      BY ONLY <1>2, st2 = SubSeq(st, 1, Len(st) - 1), PopFacts
    <2> QED BY <2>1 DEF Popped
  <1> HIDE DEF e, r, C
  <1>10. Settled(st2, "visit") = 1..Len(st) - 1
    BY <1>9 DEF Settled
  <1>11. ShapeOK(x, st2, a, "visit", os2)
    <2>1. st2 # << >> => st2[1] = st[1]
      BY <1>3, <1>9
    <2> QED BY <1>1, <1>2, <1>8, <1>9, <2>1 DEF ShapeOK
  <1>12. FramesOK(x, st2, "visit", os2, sl)
    <2>1. ASSUME NEW k \in Settled(st2, "visit")
          PROVE  /\ Placed(x, st2[k], sl) /\ st2[k].next <= Len(x.kids[st2[k].node]) + 1
                 /\ Alone(x, st2[k].node, st2[k].decl) \in os2
                 /\ \A i \in 1..Handled(st2, "visit", k) : AloneKid(x, st2[k], sl, i) \in os2
      <3>1. k \in 1..Len(st) - 1 /\ st2[k] = st[k] /\ Handled(st2, "visit", k) = st[k].next - 1
        BY <1>1, <1>9, <1>10 DEF Handled
      <3> QED BY <1>8, <3>1
    <2>2. ASSUME NEW k \in 1..Len(st2) - 1
          PROVE  /\ st2[k].next > 1 /\ st2[k+1].node = x.kids[st2[k].node][st2[k].next - 1]
                 /\ st2[k+1].decl = sl[st2[k].terms][st2[k].next - 1]
      <3>1. k \in 1..Len(st) - 1 /\ k + 1 \in 1..Len(st) - 1
        BY <1>3, <1>9
      <3>2. st2[k] = st[k] /\ st2[k+1] = st[k+1]
        BY <1>9, <3>1
      <3> QED BY <1>7, <3>1, <3>2 DEF FramesOK
    <2> QED BY <2>1, <2>2 DEF FramesOK
  <1>13. ResultsOK(x, st2, "visit", os2)
    <2>1. ASSUME NEW o \in os2
          PROVE  \/ Below(x, o) \subseteq os2
                 \/ \E k \in Settled(st2, "visit") : st2[k].node = o.node /\ st2[k].decl = o.decl
      <3>1. CASE o \in os
        <4>1. \/ Below(x, o) \subseteq os2
              \/ \E k \in 1..Len(st) - 1 : st[k].node = o.node /\ st[k].decl = o.decl
          BY ONLY <1>8, <3>1
        <4>2. \A k \in 1..Len(st) - 1 : st2[k] = st[k] /\ k \in Settled(st2, "visit")
          BY ONLY <1>9, <1>10
        <4> QED BY ONLY <4>1, <4>2
      <3>2. CASE o = r
        BY <1>6, <3>2
      <3> QED BY <1>6, <3>1, <3>2
    <2> QED BY <1>8, <2>1 DEF ResultsOK
  <1>14. SearchOK(x, st2, a, "visit", chs, tm, sl)
    BY <1>1 DEF SearchOK
  <1> QED BY <1>11, <1>12, <1>13, <1>14 DEF CallerOK

LEMMA ReturnKeeps ==
    ASSUME NEW x \in Documents, NEW st, NEW a, NEW os, NEW chs, NEW tm, NEW sl \in Slices,
           CallerOK(x, st, a, "search", os, chs, tm, sl),
           a.particle > Len(ContentOf[st[Len(st)].decl]), a.pos = Len(chs) + 1, NEW os2,
           os2 = os \cup {[node |-> st[Len(st)].node, decl |-> st[Len(st)].decl, matched |-> TRUE]},
           NEW st2, st2 = [st EXCEPT ![Len(st)] = [st[Len(st)] EXCEPT !.terms = tm]]
    PROVE  CallerOK(x, st2, a, "visit", os2, chs, tm, sl)
  <1> DEFINE e == st[Len(st)]
             C == ContentOf[e.decl]
             r == Alone(x, e.node, e.decl)
             f == [e EXCEPT !.terms = tm]
  <1>1. /\ "search" \in Matching /\ "search" \in Searching /\ "visit" \notin Matching /\ "visit" \notin Searching
        /\ "visit" \notin Inactive /\ "visit" # "idle" /\ "visit" # "terms" /\ "visit" # "record"
    BY DEF Matching, Searching, Inactive
  <1>2. /\ st \in Seq(Frames(x)) /\ st # << >> /\ a \in [pos : Nat \ {0}, particle : Nat \ {0}]
        /\ st[1].node = x.root /\ st[1].decl = Top /\ e.next = 1
    BY <1>1 DEF CallerOK, ShapeOK
  <1>3. Len(st) \in Nat \ {0} /\ e \in Frames(x)
    BY <1>2, TopFacts
  <1>4. /\ chs = Word(x, e.node) /\ a.pos <= Len(x.kids[e.node]) + 1 /\ a.particle <= Len(C) + 1
        /\ PrefixOK(x, e, a, sl[tm]) /\ Len(Word(x, e.node)) = Len(x.kids[e.node])
        /\ Len(C) \in Nat /\ Len(x.kids[e.node]) \in Nat
        /\ tm = Len(sl) /\ tm # 0 /\ Len(sl[tm]) = Len(x.kids[e.node])
    BY <1>1, <1>3, ElementFacts DEF CallerOK, SearchOK
  <1>5. tm \in 1..Len(sl) /\ sl[tm] \in Seq(Decl \cup {NoTerm})
    BY <1>4 DEF Slices
  <1>6. a.particle = Len(C) + 1
    <2>1. a.particle \in Nat
      BY <1>2
    <2> HIDE DEF C
    <2> QED BY <1>4, <2>1 DEF C
  <1>7. PICK g \in Placements(x, e.node, e.decl) :
            sl[tm] = [i \in DOMAIN x.kids[e.node] |-> C[g[i]].decl]
    <2>1. a.pos = Len(x.kids[e.node]) + 1
      BY <1>4
    <2>2. IsPlacing(x, e, sl[tm])
      <3> HIDE DEF e
      <3>1. /\ a \in [pos : Nat \ {0}, particle : Nat \ {0}] /\ e \in Frames(x)
            /\ a.particle = Len(ContentOf[e.decl]) + 1
            /\ Len(sl[tm]) = Len(x.kids[e.node]) /\ PrefixOK(x, e, a, sl[tm])
        BY <1>2, <1>3, <1>4, <1>6
      <3> QED BY ONLY x \in Documents, <1>5, <2>1, <3>1, PrefixEnds
    <2> QED BY <2>2 DEF IsPlacing
  <1>8. r = [node |-> e.node, decl |-> e.decl, matched |-> TRUE] /\ os2 = os \cup {r}
    BY <1>7 DEF Alone
  <1>9. f \in Frames(x) /\ f.node = e.node /\ f.decl = e.decl /\ f.terms = tm /\ f.next = 1
    <2>1. e \in [node : Node(x), decl : Decl, terms : Nat, next : Nat \ {0}] /\ tm \in Nat
      BY <1>3, <1>5 DEF Frames
    <2> HIDE DEF e
    <2> QED BY <1>2, <2>1 DEF Frames
  <1>10. Placed(x, f, sl)
    <2>1. sl[f.terms] = [i \in DOMAIN x.kids[f.node] |-> ContentOf[f.decl][g[i]].decl]
      BY <1>7, <1>9
    <2>2. g \in Placements(x, f.node, f.decl) /\ f.terms \in 1..Len(sl)
      BY <1>5, <1>7, <1>9
    <2> HIDE DEF f
    <2> QED BY <2>1, <2>2 DEF Placed
  <1>11. ShapeOK(x, st, a, "search", os) /\ FramesOK(x, st, "search", os, sl) /\ ResultsOK(x, st, "search", os)
    BY DEF CallerOK
  <1>d. DoneOK(x, st, os, os2, sl)
    <2>1. os2 = os \cup {Alone(x, st[Len(st)].node, st[Len(st)].decl)}
      BY <1>8
    <2> QED BY ONLY x \in Documents, <1>11, <2>1, TopDone
  <1>12. /\ os2 \subseteq Found(x) /\ Whole(x) \in os2
         /\ \A k \in 1..Len(st) - 1 :
              /\ Placed(x, st[k], sl) /\ st[k].next <= Len(x.kids[st[k].node]) + 1
              /\ Alone(x, st[k].node, st[k].decl) \in os2
              /\ \A i \in 1..st[k].next - 1 : AloneKid(x, st[k], sl, i) \in os2
         /\ \A o \in os2 : /\ o = Alone(x, o.node, o.decl)
                           /\ o = Whole(x) \/ \E q \in os2 : o \in Below(x, q)
         /\ \A o \in os : \/ Below(x, o) \subseteq os2
                          \/ \E k \in 1..Len(st) - 1 : st[k].node = o.node /\ st[k].decl = o.decl
    BY <1>d DEF DoneOK
  <1> HIDE DEF f
  <1>13. /\ st2 \in Seq(Frames(x)) /\ Len(st2) = Len(st)
         /\ \A k \in 1..Len(st) : st2[k] = IF k = Len(st) THEN f ELSE st[k]
    <2> DEFINE F == Frames(x)
    <2>1. st \in Seq(F) /\ f \in F /\ Len(st) \in 1..Len(st)
      BY <1>2, <1>3, <1>9
    <2> HIDE DEF F, e
    <2>2. st2 = [st EXCEPT ![Len(st)] = f]
      BY DEF f, e
    <2> QED BY <2>1, <2>2, ExceptSeq DEF F
  <1>a. /\ st2[Len(st)] = f /\ st2 # << >> /\ Len(st) \in 1..Len(st)
        /\ \A k \in 1..Len(st) - 1 : k \in 1..Len(st) /\ st2[k] = st[k]
    <2>1. Len(st) \in 1..Len(st) /\ \A k \in 1..Len(st) - 1 : k \in 1..Len(st) /\ k # Len(st)
      BY <1>3
    <2>2. Len(st2) # 0
      BY <1>3, <1>13
    <2> QED BY <1>13, <2>1, <2>2
  <1>14. Settled(st2, "visit") = 1..Len(st)
    BY <1>13 DEF Settled
  <1> HIDE DEF e, r, C
  <1>15. ShapeOK(x, st2, a, "visit", os2)
    <2>1. st2[1].node = st[1].node /\ st2[1].decl = st[1].decl
      <3>1. CASE Len(st) = 1
        BY <1>9, <1>a, <3>1 DEF e
      <3>2. CASE Len(st) # 1
        <4>1. 1 \in 1..Len(st) - 1
          <5>1. \A m \in Nat \ {0} : m # 1 => 1 \in 1..m - 1
            OBVIOUS
          <5> QED BY <1>3, <3>2, <5>1
        <4> QED BY <1>a, <4>1
      <3> QED BY <3>1, <3>2
    <2> QED BY <1>1, <1>2, <1>12, <1>13, <2>1 DEF ShapeOK
  <1>16. FramesOK(x, st2, "visit", os2, sl)
    <2>1. ASSUME NEW k \in Settled(st2, "visit")
          PROVE  /\ Placed(x, st2[k], sl) /\ st2[k].next <= Len(x.kids[st2[k].node]) + 1
                 /\ Alone(x, st2[k].node, st2[k].decl) \in os2
                 /\ \A i \in 1..Handled(st2, "visit", k) : AloneKid(x, st2[k], sl, i) \in os2
      <3>1. Handled(st2, "visit", k) = st2[k].next - 1
        BY <1>1 DEF Handled
      <3>2. CASE k = Len(st)
        <4>1. st2[k] = f /\ 1..Handled(st2, "visit", k) = {}
          <5>1. st2[k] = f
            BY <1>a, <3>2
          <5>2. st2[k].next = 1
            BY <1>9, <5>1
          <5>3. Handled(st2, "visit", k) = 1 - 1
            BY <3>1, <5>2
          <5>4. Handled(st2, "visit", k) = 0
            BY <5>3
          <5> QED BY <5>1, <5>4
        <4>2. 1 <= Len(x.kids[e.node]) + 1
          BY <1>4
        <4>3. r \in os2
          BY <1>8
        <4> QED BY <1>9, <1>10, <4>1, <4>2, <4>3 DEF r
      <3>3. CASE k # Len(st)
        <4>1. k \in 1..Len(st) - 1
          BY <1>3, <1>14, <3>3
        <4>2. st2[k] = st[k]
          BY <1>a, <4>1
        <4> QED BY <1>12, <3>1, <4>1, <4>2
      <3> QED BY <3>2, <3>3
    <2>2. ASSUME NEW k \in 1..Len(st2) - 1
          PROVE  /\ st2[k].next > 1 /\ st2[k+1].node = x.kids[st2[k].node][st2[k].next - 1]
                 /\ st2[k+1].decl = sl[st2[k].terms][st2[k].next - 1]
      <3>1. k \in 1..Len(st) - 1 /\ k + 1 \in 1..Len(st)
        BY <1>3, <1>13
      <3>2. st2[k] = st[k] /\ st2[k+1].node = st[k+1].node /\ st2[k+1].decl = st[k+1].decl
        BY <1>9, <1>13, <1>a, <3>1 DEF e
      <3> QED BY <1>11, <3>1, <3>2 DEF FramesOK
    <2> QED BY <2>1, <2>2 DEF FramesOK
  <1>17. ResultsOK(x, st2, "visit", os2)
    <2>1. ASSUME NEW o \in os2
          PROVE  \/ Below(x, o) \subseteq os2
                 \/ \E k \in Settled(st2, "visit") : st2[k].node = o.node /\ st2[k].decl = o.decl
      <3>1. CASE o \in os
        BY <1>12, <1>14, <1>a, <3>1
      <3>2. CASE o = r
        <4>1. r.node = e.node /\ r.decl = e.decl
          BY <1>8
        <4> QED BY <1>9, <1>14, <1>a, <3>2, <4>1
      <3> QED BY <1>8, <3>1, <3>2
    <2> QED BY <1>12, <2>1 DEF ResultsOK
  <1>18. SearchOK(x, st2, a, "visit", chs, tm, sl)
    BY <1>1 DEF SearchOK
  <1> QED BY <1>15, <1>16, <1>17, <1>18 DEF CallerOK

LEMMA VisitKeeps ==
    ASSUME NEW x \in Documents, NEW st, NEW a, NEW os, NEW chs, NEW tm, NEW sl \in Slices,
           CallerOK(x, st, a, "visit", os, chs, tm, sl), st # << >>,
           st[Len(st)].next <= Len(x.kids[st[Len(st)].node]),
           NEW decl, decl = sl[st[Len(st)].terms][st[Len(st)].next], NEW st2,
           st2 = Append([st EXCEPT ![Len(st)].next = @ + 1],
                        Frame(x.kids[st[Len(st)].node][st[Len(st)].next], decl))
    PROVE  /\ st[Len(st)].next <= Len(sl[st[Len(st)].terms]) /\ decl # NoTerm
           /\ CallerOK(x, st2, a, "children", os, chs, tm, sl)
  <1> DEFINE e == st[Len(st)]
             n == Len(x.kids[e.node])
             L == Len(st)
             f == [e EXCEPT !.next = @ + 1]
             kid == Frame(x.kids[e.node][e.next], decl)
             st1 == [st EXCEPT ![Len(st)] = f]
  <1>1. /\ "visit" \notin Matching /\ "visit" \notin Inactive /\ "visit" # "idle" /\ "children" # "idle"
        /\ "children" \in Matching /\ "children" \notin Inactive /\ "children" \notin Searching
        /\ "children" # "visit" /\ "children" # "terms" /\ "children" # "record"
    BY DEF Matching, Searching, Inactive
  <1>2. /\ st \in Seq(Frames(x)) /\ os \subseteq Found(x) /\ a \in [pos : Nat \ {0}, particle : Nat \ {0}]
        /\ st[1].node = x.root /\ st[1].decl = Top
    BY DEF CallerOK, ShapeOK
  <1>3. L \in Nat \ {0} /\ e \in Frames(x)
    BY <1>2, TopFacts
  <1>4. FramesOK(x, st, "visit", os, sl) /\ ResultsOK(x, st, "visit", os)
    BY DEF CallerOK
  <1>5. Settled(st, "visit") = 1..L
    BY DEF Settled
  <1>6. /\ n \in Nat /\ DOMAIN x.kids[e.node] = 1..n /\ e.node \in Node(x) /\ e.decl \in Decl
        /\ x.kids[e.node] \in Seq(Node(x)) /\ e.next \in Nat \ {0} /\ e.terms \in Nat
        /\ \A i \in 1..Len(ContentOf[e.decl]) : ContentOf[e.decl][i].decl \in Decl
        /\ DOMAIN ContentOf[e.decl] = 1..Len(ContentOf[e.decl])
    <2>1. e.next \in Nat \ {0} /\ e.terms \in Nat
      BY <1>3 DEF Frames
    <2> QED BY <1>3, <2>1, ElementFacts
  <1>7. e.next \in 1..n
    BY <1>6
  <1>8. Placed(x, e, sl)
    <2>1. L \in 1..L
      BY <1>3
    <2> QED BY <1>4, <1>5, <2>1 DEF FramesOK
  <1>9. e.terms \in 1..Len(sl) /\ DOMAIN sl[e.terms] = 1..n /\ decl \in Decl
    <2>1. PICK g \in Placements(x, e.node, e.decl) :
             sl[e.terms] = [i \in DOMAIN x.kids[e.node] |-> ContentOf[e.decl][g[i]].decl]
      BY <1>8 DEF Placed
    <2>2. g \in [1..n -> 1..Len(ContentOf[e.decl])]
      BY <1>6 DEF Placements
    <2>3. decl = ContentOf[e.decl][g[e.next]].decl
      BY <1>6, <1>7, <2>1
    <2>4. decl \in Decl
      BY <1>6, <1>7, <2>2, <2>3
    <2>5. DOMAIN sl[e.terms] = 1..n
      BY <1>6, <2>1
    <2>6. e.terms \in 1..Len(sl)
      BY <1>8 DEF Placed
    <2> QED BY <2>4, <2>5, <2>6
  <1>10. e.next <= Len(sl[e.terms]) /\ decl # NoTerm
    <2>1. sl[e.terms] \in Seq(Decl \cup {NoTerm})
      BY <1>9 DEF Slices
    <2> DEFINE s == sl[e.terms]
    <2>2. s \in Seq(Decl \cup {NoTerm}) /\ e.next \in DOMAIN s
      BY <1>7, <1>9, <2>1
    <2> HIDE DEF s, e
    <2>3. e.next \in 1..Len(s)
      BY <2>2
    <2>4. e.next <= Len(s)
      BY <1>6, <2>2, <2>3
    <2> QED BY <1>9, <2>4, ModelFacts DEF s
  <1>11. /\ f \in Frames(x) /\ f.node = e.node /\ f.decl = e.decl /\ f.terms = e.terms /\ f.next = e.next + 1
    <2>1. e \in [node : Node(x), decl : Decl, terms : Nat, next : Nat \ {0}]
      BY <1>3 DEF Frames
    <2> HIDE DEF e, L, n
    <2>2. e.next + 1 \in Nat \ {0}
      BY <2>1
    <2>3. f.node = e.node /\ f.decl = e.decl /\ f.terms = e.terms /\ f.next = e.next + 1
      BY <2>1
    <2>4. f = [node |-> f.node, decl |-> f.decl, terms |-> f.terms, next |-> f.next]
      BY <2>1
    <2> HIDE DEF f
    <2> QED BY <2>1, <2>2, <2>3, <2>4 DEF Frames
  <1>12. kid \in Frames(x) /\ kid.node = x.kids[e.node][e.next] /\ kid.decl = decl /\ kid.next = 1
    <2>1. x.kids[e.node][e.next] \in Node(x)
      BY <1>6, <1>7, ElementOfSeq
    <2> HIDE DEF e
    <2> QED BY <1>9, <2>1 DEF Frame, Frames
  <1> HIDE DEF f, kid
  <1>13. /\ st1 \in Seq(Frames(x)) /\ Len(st1) = L
         /\ \A k \in 1..L : st1[k] = IF k = L THEN f ELSE st[k]
    <2> DEFINE F == Frames(x)
    <2>1. st \in Seq(F) /\ f \in F /\ L \in 1..L
      BY <1>2, <1>3, <1>11
    <2> HIDE DEF F, e
    <2> QED BY <2>1, ExceptSeq DEF F
  <1>14. st2 = Append(st1, kid)
    BY DEF f, kid
  <1> HIDE DEF st1
  <1>15. /\ st2 \in Seq(Frames(x)) /\ Len(st2) = L + 1 /\ st2[L + 1] = kid
         /\ \A k \in 1..L : st2[k] = IF k = L THEN f ELSE st[k]
    <2> DEFINE F == Frames(x)
    <2>1. st1 \in Seq(F) /\ kid \in F
      BY <1>12, <1>13
    <2> HIDE DEF F, e, L
    <2>2. /\ Append(st1, kid) \in Seq(F) /\ Len(Append(st1, kid)) = Len(st1) + 1
          /\ \A k \in 1..Len(st1) : Append(st1, kid)[k] = st1[k]
          /\ Append(st1, kid)[Len(st1) + 1] = kid
      BY ONLY <2>1, AppendProperties
    <2>3. st2 \in Seq(F) /\ Len(st2) = Len(st1) + 1 /\ st2[Len(st1) + 1] = kid
          /\ \A k \in 1..Len(st1) : st2[k] = st1[k]
      BY <2>2, <1>14
    <2> QED BY <1>13, <2>3 DEF F
  <1> HIDE DEF e, n, L
  <1>16. /\ \A k \in 1..L : /\ st2[k].node = st[k].node /\ st2[k].decl = st[k].decl /\ st2[k].terms = st[k].terms
                            /\ k # L => st2[k] = st[k]
         /\ L \in 1..L /\ st2[L] = f /\ st2 # << >> /\ 1 \in 1..L
    <2>1. L \in 1..L /\ 1 \in 1..L
      BY <1>3
    <2>2. st2[L] = f
      BY <1>15, <2>1
    <2>3. Len(st2) # 0
      <3>1. Len(st2) = L + 1 /\ L \in Nat
        BY <1>3, <1>15
      <3> QED BY ONLY <3>1
    <2>4. \A k \in 1..L : k # L => st2[k] = st[k]
      BY <1>15
    <2> QED BY <1>11, <2>1, <2>2, <2>3, <2>4 DEF e, L
  <1>17. Settled(st2, "children") = 1..L
    <2>1. \A k \in 1..L + 1 : k < L + 1 <=> k \in 1..L
      BY <1>3
    <2>2. \A k \in 1..L : k \in 1..L + 1
      BY <1>3
    <2> QED BY <1>1, <1>15, <2>1, <2>2 DEF Settled
  <1>18. ShapeOK(x, st2, a, "children", os)
    BY <1>1, <1>2, <1>12, <1>15, <1>16 DEF ShapeOK
  <1>19. FramesOK(x, st2, "children", os, sl)
    <2>1. ASSUME NEW k \in 1..L
          PROVE  /\ Placed(x, st2[k], sl) /\ st2[k].next <= Len(x.kids[st2[k].node]) + 1
                 /\ Alone(x, st2[k].node, st2[k].decl) \in os
                 /\ \A i \in 1..Handled(st2, "children", k) : AloneKid(x, st2[k], sl, i) \in os
      <3>1. /\ Placed(x, st[k], sl) /\ st[k].next <= Len(x.kids[st[k].node]) + 1
            /\ Alone(x, st[k].node, st[k].decl) \in os
            /\ \A i \in 1..st[k].next - 1 : AloneKid(x, st[k], sl, i) \in os
        BY <1>1, <1>4, <1>5 DEF FramesOK, Handled
      <3>2. st2[k].node = st[k].node /\ st2[k].decl = st[k].decl /\ st2[k].terms = st[k].terms
        BY <1>16
      <3>3. Placed(x, st2[k], sl) /\ \A i : AloneKid(x, st2[k], sl, i) = AloneKid(x, st[k], sl, i)
        <4>1. Placed(x, st2[k], sl)
          BY ONLY <3>1, <3>2 DEF Placed
        <4>2. \A i : AloneKid(x, st2[k], sl, i) = AloneKid(x, st[k], sl, i)
          BY ONLY <3>2 DEF AloneKid
        <4> QED BY <4>1, <4>2
      <3>4. Handled(st2, "children", k) = st[k].next - 1 /\ st2[k].next <= Len(x.kids[st2[k].node]) + 1
        <4>1. CASE k = L
          <5>1. st2[k].next = e.next + 1 /\ st[k].next = e.next /\ st[k].node = e.node
            BY <1>11, <1>16, <4>1 DEF e, L
          <5>2. Handled(st2, "children", k) = (e.next + 1) - 2
            <6>1. k = Len(st2) - 1
              <7>1. Len(st2) = L + 1 /\ L \in Nat
                BY <1>3, <1>15
              <7> QED BY ONLY <7>1, <4>1
            <6> QED BY <1>1, <5>1, <6>1 DEF Handled
          <5>3. (e.next + 1) - 2 = e.next - 1 /\ e.next + 1 <= n + 1
            BY <1>6, <1>7
          <5> QED BY <3>2, <5>1, <5>2, <5>3 DEF n
        <4>2. CASE k # L
          <5>1. st2[k] = st[k]
            BY <1>16, <4>2
          <5>2. k # Len(st2) - 1
            <6>1. Len(st2) = L + 1 /\ L \in Nat
              BY <1>3, <1>15
            <6> QED BY ONLY <6>1, <4>2
          <5> QED BY <1>1, <3>1, <5>1, <5>2 DEF Handled
        <4> QED BY <4>1, <4>2
      <3> QED BY <3>1, <3>2, <3>3, <3>4
    <2>2. ASSUME NEW k \in 1..Len(st2) - 1
          PROVE  /\ st2[k].next > 1 /\ st2[k+1].node = x.kids[st2[k].node][st2[k].next - 1]
                 /\ st2[k+1].decl = sl[st2[k].terms][st2[k].next - 1]
      <3>1. CASE k = L
        <4>1. st2[k].next = e.next + 1 /\ st2[k+1] = kid
          BY <1>11, <1>15, <1>16, <3>1
        <4>2. e.next + 1 > 1 /\ (e.next + 1) - 1 = e.next
          BY <1>6
        <4>3. st2[k].node = e.node /\ st2[k].terms = e.terms
          BY <1>11, <1>16, <3>1
        <4> QED BY <1>12, <4>1, <4>2, <4>3 DEF e
      <3>2. CASE k # L
        <4>1. k \in 1..L /\ k \in 1..L - 1 /\ k + 1 \in 1..L
          <5>1. Len(st2) = L + 1 /\ L \in Nat
            BY <1>3, <1>15
          <5> QED BY ONLY k \in 1..Len(st2) - 1, <5>1, <3>2
        <4>2. st2[k] = st[k] /\ st2[k+1].node = st[k+1].node /\ st2[k+1].decl = st[k+1].decl
          BY <1>16, <3>2, <4>1
        <4> QED BY <1>4, <4>1, <4>2 DEF FramesOK, L
      <3> QED BY <3>1, <3>2
    <2> QED BY ONLY <1>17, <2>1, <2>2 DEF FramesOK
  <1>20. ResultsOK(x, st2, "children", os)
    <2>1. ASSUME NEW o \in os
          PROVE  \/ Below(x, o) \subseteq os
                 \/ \E k \in Settled(st2, "children") : st2[k].node = o.node /\ st2[k].decl = o.decl
      <3>1. \/ Below(x, o) \subseteq os
            \/ \E k \in 1..L : st[k].node = o.node /\ st[k].decl = o.decl
        BY <1>4, <1>5 DEF ResultsOK
      <3>2. CASE \E k \in 1..L : st[k].node = o.node /\ st[k].decl = o.decl
        <4>1. PICK k \in 1..L : st[k].node = o.node /\ st[k].decl = o.decl
          BY <3>2
        <4>2. st2[k].node = o.node /\ st2[k].decl = o.decl
          BY <1>16, <4>1
        <4> QED BY <1>17, <4>2
      <3> QED BY <3>1, <3>2
    <2> QED BY <1>1, <1>4, <2>1 DEF ResultsOK
  <1>21. SearchOK(x, st2, a, "children", chs, tm, sl)
    BY <1>1 DEF SearchOK
  <1> QED BY <1>10, <1>18, <1>19, <1>20, <1>21 DEF CallerOK, e

(* A frame whose children are all handed on leaves nothing due.            *)
LEMMA LeaveKeeps ==
    ASSUME NEW x \in Documents, NEW st, NEW a, NEW os, NEW chs, NEW tm, NEW sl \in Slices,
           CallerOK(x, st, a, "visit", os, chs, tm, sl), st # << >>,
           st[Len(st)].next > Len(x.kids[st[Len(st)].node]),
           NEW st2, st2 = SubSeq(st, 1, Len(st) - 1)
    PROVE  CallerOK(x, st2, a, "visit", os, chs, tm, sl)
  <1> DEFINE e == st[Len(st)]
             n == Len(x.kids[e.node])
  <1>1. /\ "visit" \notin Matching /\ "visit" \notin Inactive /\ "visit" # "idle" /\ "visit" \notin Searching
        /\ "visit" # "terms" /\ "visit" # "record"
    BY DEF Matching, Searching, Inactive
  <1>2. /\ st \in Seq(Frames(x)) /\ os \subseteq Found(x) /\ a \in [pos : Nat \ {0}, particle : Nat \ {0}]
        /\ st[1].node = x.root /\ st[1].decl = Top
    BY DEF CallerOK, ShapeOK
  <1>3. Len(st) \in Nat \ {0} /\ e \in Frames(x)
    BY <1>2, TopFacts
  <1>4. FramesOK(x, st, "visit", os, sl) /\ ResultsOK(x, st, "visit", os)
    BY DEF CallerOK
  <1>5. Settled(st, "visit") = 1..Len(st)
    BY DEF Settled
  <1>6. /\ st2 \in Seq(Frames(x)) /\ Len(st2) = Len(st) - 1 /\ \A k \in 1..Len(st) - 1 : st2[k] = st[k]
        /\ st2 # << >> => Len(st2) >= 1
    <2>1. Popped(x, st, st2)
      BY ONLY <1>2, st # << >>, st2 = SubSeq(st, 1, Len(st) - 1), PopFacts
    <2> QED BY <2>1 DEF Popped
  <1>7. Settled(st2, "visit") = 1..Len(st) - 1
    BY <1>6 DEF Settled
  <1>8. \A k \in 1..Len(st) - 1 : k \in 1..Len(st)
    BY <1>3
  <1>9. ASSUME NEW o, o.node = e.node, o.decl = e.decl PROVE Below(x, o) \subseteq os
    <2>1. Len(st) \in 1..Len(st)
      BY <1>3
    <2>2. /\ Placed(x, e, sl) /\ e.next <= n + 1
          /\ \A i \in 1..e.next - 1 : AloneKid(x, e, sl, i) \in os
      BY <1>1, <1>4, <1>5, <2>1 DEF FramesOK, Handled
    <2>3. Below(x, o) = {AloneKid(x, e, sl, i) : i \in 1..n}
      BY <1>3, <1>9, <2>2, BelowPlaced
    <2>4. e.next \in Nat /\ n \in Nat
      BY <1>3, ElementFacts DEF Frames
    <2>5. e.next - 1 = n
      <3>1. e.next > n
        OBVIOUS
      <3>2. \A p, q \in Nat : p <= q + 1 /\ p > q => p - 1 = q
        OBVIOUS
      <3> HIDE DEF e, n
      <3> QED BY <2>2, <2>4, <3>1, <3>2
    <2> QED BY <2>2, <2>3, <2>5
  <1> HIDE DEF e, n
  <1>10. ShapeOK(x, st2, a, "visit", os)
    <2>1. st2 # << >> => st2[1] = st[1]
      BY <1>3, <1>6
    <2> QED BY <1>1, <1>2, <1>6, <2>1 DEF ShapeOK
  <1>11. FramesOK(x, st2, "visit", os, sl)
    <2>1. ASSUME NEW k \in 1..Len(st) - 1
          PROVE  /\ Placed(x, st2[k], sl) /\ st2[k].next <= Len(x.kids[st2[k].node]) + 1
                 /\ Alone(x, st2[k].node, st2[k].decl) \in os
                 /\ \A i \in 1..Handled(st2, "visit", k) : AloneKid(x, st2[k], sl, i) \in os
      <3>1. st2[k] = st[k] /\ k \in Settled(st, "visit") /\ Handled(st2, "visit", k) = Handled(st, "visit", k)
        BY <1>1, <1>5, <1>6, <1>8 DEF Handled
      <3> QED BY <1>4, <3>1 DEF FramesOK
    <2>2. ASSUME NEW k \in 1..Len(st2) - 1
          PROVE  /\ st2[k].next > 1 /\ st2[k+1].node = x.kids[st2[k].node][st2[k].next - 1]
                 /\ st2[k+1].decl = sl[st2[k].terms][st2[k].next - 1]
      <3>1. k \in 1..Len(st) - 1 /\ k + 1 \in 1..Len(st) - 1
        BY <1>3, <1>6
      <3>2. st2[k] = st[k] /\ st2[k+1] = st[k+1]
        BY <1>6, <3>1
      <3> QED BY <1>4, <3>1, <3>2 DEF FramesOK
    <2> QED BY <1>7, <2>1, <2>2 DEF FramesOK
  <1>12. ResultsOK(x, st2, "visit", os)
    <2>1. ASSUME NEW o \in os
          PROVE  \/ Below(x, o) \subseteq os
                 \/ \E k \in Settled(st2, "visit") : st2[k].node = o.node /\ st2[k].decl = o.decl
      <3>1. CASE Below(x, o) \subseteq os
        BY <3>1
      <3>2. CASE ~(Below(x, o) \subseteq os)
        <4>1. PICK k \in 1..Len(st) : st[k].node = o.node /\ st[k].decl = o.decl
          BY <1>4, <1>5, <3>2 DEF ResultsOK
        <4>2. k # Len(st)
          BY <1>9, <3>2, <4>1 DEF e
        <4>3. k \in 1..Len(st) - 1
          BY <1>3, <4>2
        <4> QED BY <1>6, <1>7, <4>1, <4>3
      <3> QED BY <3>1, <3>2
    <2> QED BY <1>1, <1>4, <2>1 DEF ResultsOK
  <1>13. SearchOK(x, st2, a, "visit", chs, tm, sl)
    BY <1>1 DEF SearchOK
  <1> QED BY <1>10, <1>11, <1>12, <1>13 DEF CallerOK

LEMMA ReturnedKeeps ==
    ASSUME NEW x \in Documents, NEW a, NEW os, NEW chs, NEW tm, NEW sl,
           CallerOK(x, << >>, a, "visit", os, chs, tm, sl)
    PROVE  CallerOK(x, << >>, a, "returned", os, chs, tm, sl)
  <1>1. /\ "visit" \notin Matching /\ "visit" # "idle" /\ "returned" \notin Matching /\ "returned" \in Inactive
        /\ "returned" \notin Searching /\ "returned" # "terms" /\ "returned" # "record" /\ "returned" # "idle"
    BY DEF Matching, Searching, Inactive
  <1>2. Settled(<< >>, "visit") = {} /\ Settled(<< >>, "returned") = {} /\ 1..Len(<< >>) - 1 = {}
    BY DEF Settled
  <1>3. ShapeOK(x, << >>, a, "returned", os)
    BY <1>1 DEF CallerOK, ShapeOK
  <1>4. FramesOK(x, << >>, "returned", os, sl)
    BY <1>2 DEF FramesOK
  <1>5. ResultsOK(x, << >>, "returned", os)
    BY <1>1, <1>2 DEF CallerOK, ResultsOK
  <1>6. SearchOK(x, << >>, a, "returned", chs, tm, sl)
    BY <1>1 DEF SearchOK
  <1> QED BY <1>3, <1>4, <1>5, <1>6 DEF CallerOK

-----------------------------------------------------------------------------
(* The invariant holds of every step of calls that do not overlap.         *)
LEMMA InitInv == Init => Inv
  <1> SUFFICES ASSUME Init PROVE Inv
    OBVIOUS
  <1>1. /\ document \in [Caller -> Documents] /\ children = << >> /\ terms = 0 /\ slices = << >>
        /\ stack = [c \in Caller |-> << >>] /\ at = [c \in Caller |-> [pos |-> 1, particle |-> 1]]
        /\ pc = [c \in Caller |-> "idle"] /\ outcomes = [c \in Caller |-> {}]
    BY DEF Init
  <1>2. TypeOK /\ OneAtATime
    BY <1>1 DEF TypeOK, OneAtATime, Slices, Inactive
  <1>3. ASSUME NEW c \in Caller
        PROVE  CallerOK(document[c], stack[c], at[c], pc[c], outcomes[c], children, terms, slices)
    <2>1. stack[c] = << >> /\ at[c] = [pos |-> 1, particle |-> 1] /\ pc[c] = "idle" /\ outcomes[c] = {}
      BY <1>1
    <2>2. "idle" \in Inactive /\ "idle" \notin Matching /\ "idle" \notin Searching /\ "idle" # "visit"
          /\ "idle" # "terms" /\ "idle" # "record"
      BY DEF Inactive, Matching, Searching
    <2>3. Settled(<< >>, "idle") = {} /\ 1..Len(<< >>) - 1 = {}
      BY DEF Settled
    <2>4. ShapeOK(document[c], << >>, [pos |-> 1, particle |-> 1], "idle", {})
      BY <2>2 DEF ShapeOK
    <2>5. FramesOK(document[c], << >>, "idle", {}, slices)
      BY <2>3 DEF FramesOK
    <2>6. ResultsOK(document[c], << >>, "idle", {})
      BY <2>2 DEF ResultsOK
    <2>7. SearchOK(document[c], << >>, [pos |-> 1, particle |-> 1], "idle", children, terms, slices)
      BY <2>2 DEF SearchOK
    <2> QED BY <2>1, <2>4, <2>5, <2>6, <2>7 DEF CallerOK
  <1> QED BY <1>2, <1>3 DEF Inv

(* What is known of the caller that takes the step.                        *)
LEMMA CallerFacts ==
    ASSUME Inv, NEW c \in Caller
    PROVE  /\ document[c] \in Documents /\ slices \in Slices
           /\ CallerOK(document[c], stack[c], at[c], pc[c], outcomes[c], children, terms, slices)
           /\ stack = [stack EXCEPT ![c] = stack[c]] /\ at = [at EXCEPT ![c] = at[c]]
           /\ pc = [pc EXCEPT ![c] = pc[c]] /\ outcomes = [outcomes EXCEPT ![c] = outcomes[c]]
           /\ pc[c] \notin Inactive => \A d \in Caller \ {c} : pc[d] \in Inactive
           /\ at[c].pos \in Nat \ {0} /\ at[c].particle \in Nat \ {0}
           /\ at[c] = [pos |-> at[c].pos, particle |-> at[c].particle]
  <1>1. /\ document[c] \in Documents /\ slices \in Slices
        /\ CallerOK(document[c], stack[c], at[c], pc[c], outcomes[c], children, terms, slices)
    BY DEF Inv, TypeOK
  <1>2. stack = [stack EXCEPT ![c] = stack[c]]
    <2>1. stack = [d \in Caller |-> stack[d]]
      BY DEF Inv, TypeOK
    <2> QED BY <2>1
  <1>3. at = [at EXCEPT ![c] = at[c]]
    <2>1. at = [d \in Caller |-> at[d]]
      BY DEF Inv, TypeOK
    <2> QED BY <2>1
  <1>4. pc = [pc EXCEPT ![c] = pc[c]]
    <2>1. pc = [d \in Caller |-> pc[d]]
      BY DEF Inv, TypeOK
    <2> QED BY <2>1
  <1>5. outcomes = [outcomes EXCEPT ![c] = outcomes[c]]
    <2>1. outcomes = [d \in Caller |-> outcomes[d]]
      BY DEF Inv, TypeOK
    <2> QED BY <2>1
  <1>6. pc[c] \notin Inactive => \A d \in Caller \ {c} : pc[d] \in Inactive
    BY DEF Inv, OneAtATime
  <1>7. at[c] \in [pos : Nat \ {0}, particle : Nat \ {0}]
    BY <1>1 DEF CallerOK, ShapeOK
  <1>8. /\ at[c].pos \in Nat \ {0} /\ at[c].particle \in Nat \ {0}
        /\ at[c] = [pos |-> at[c].pos, particle |-> at[c].particle]
    BY <1>7
  <1> QED BY <1>1, <1>2, <1>3, <1>4, <1>5, <1>6, <1>8

LEMMA StepInv ==
    ASSUME ~Overlap, Inv, NEW c \in Caller, Step(c)
    PROVE  Inv'
  <1> DEFINE x == document[c]
             st == stack[c]
             a == at[c]
             os == outcomes[c]
             C == ContentOf[st[Len(st)].decl]
  <1>1. /\ x \in Documents /\ slices \in Slices
        /\ CallerOK(x, st, a, pc[c], os, children, terms, slices)
        /\ stack = [stack EXCEPT ![c] = st] /\ at = [at EXCEPT ![c] = a]
        /\ pc = [pc EXCEPT ![c] = pc[c]] /\ outcomes = [outcomes EXCEPT ![c] = os]
        /\ pc[c] \notin Inactive => \A d \in Caller \ {c} : pc[d] \in Inactive
        /\ a.pos \in Nat \ {0} /\ a.particle \in Nat \ {0} /\ a = [pos |-> a.pos, particle |-> a.particle]
    BY CallerFacts
  <1>2. "idle" \in Inactive /\ {"children", "terms", "search", "record", "visit"} \cap Inactive = {}
    BY DEF Inactive
  <1>3. Element(c) = st[Len(st)] /\ Kids(c) = x.kids[st[Len(st)].node] /\ Content(c) = C
    BY DEF Element, Kids, Content
  <1>0. Accepts(c) <=> a.pos <= Len(children) /\ NameOf[C[a.particle].decl] = children[a.pos]
    <2>1. Content(c) = C
      BY <1>3
    <2>2. Accepts(c) <=> /\ at[c].pos <= Len(children)
                         /\ NameOf[Content(c)[at[c].particle].decl] = children[at[c].pos]
      BY ONLY DEF Accepts
    <2> QED BY <2>1, <2>2
  <1>4. CASE Begin(c)
    <2>1. /\ pc[c] = "idle" /\ \A d \in Caller \ {c} : pc[d] \in Inactive
          /\ stack' = [stack EXCEPT ![c] = <<Frame(x.root, Top)>>] /\ at' = at
          /\ pc' = [pc EXCEPT ![c] = "children"] /\ outcomes' = outcomes
          /\ document' = document /\ children' = children /\ terms' = terms /\ slices' = slices
      BY <1>4 DEF Begin, Goto, Inactive
    <2>2. CallerOK(x, <<Frame(x.root, Top)>>, a, "children", os, children, terms, slices)
      BY <1>1, <2>1, BeginKeeps
    <2> HIDE DEF x, st, a, os, C
    <2> QED BY <1>1, <2>1, <2>2, StepKeeps DEF x
  <1>5. CASE SetChildren(c)
    <2>1. /\ pc[c] = "children" /\ children' = Word(x, st[Len(st)].node)
          /\ stack' = stack /\ at' = at /\ pc' = [pc EXCEPT ![c] = "terms"] /\ outcomes' = outcomes
          /\ document' = document /\ terms' = terms /\ slices' = slices
      BY <1>3, <1>5 DEF SetChildren, Goto, Word
    <2>2. CallerOK(x, st, a, "terms", os, children', terms, slices)
      BY <1>1, <2>1, SetChildrenKeeps
    <2> HIDE DEF x, st, a, os, C
    <2> QED BY <1>1, <1>2, <2>1, <2>2, StepKeeps DEF x
  <1>6. CASE MakeTerms(c)
    <2>1. /\ pc[c] = "terms" /\ terms' = Len(slices) + 1
          /\ slices' = Append(slices, [i \in 1..Len(x.kids[st[Len(st)].node]) |-> NoTerm])
          /\ stack' = stack /\ at' = [at EXCEPT ![c] = [pos |-> 1, particle |-> 1]]
          /\ pc' = [pc EXCEPT ![c] = "search"] /\ outcomes' = outcomes
          /\ document' = document /\ children' = children
      BY <1>3, <1>6 DEF MakeTerms, Allocate, Goto
    <2>2. /\ slices' \in Slices
          /\ CallerOK(x, st, [pos |-> 1, particle |-> 1], "search", os, children, terms', slices')
      <3>1. CallerOK(x, st, a, "terms", os, children, terms, slices)
        BY <1>1, <2>1
      <3> DEFINE sl2 == slices'
      <3>2. sl2 = Append(slices, [i \in 1..Len(x.kids[st[Len(st)].node]) |-> NoTerm])
        BY <2>1
      <3> HIDE DEF x, st, a, os, C, sl2
      <3>3. /\ sl2 \in Slices
            /\ CallerOK(x, st, [pos |-> 1, particle |-> 1], "search", os, children, Len(slices) + 1, sl2)
        BY <1>1, <3>1, <3>2, MakeTermsKeeps
      <3> QED BY <2>1, <3>3 DEF sl2
    <2> HIDE DEF x, st, a, os, C
    <2> QED BY <1>1, <1>2, <2>1, <2>2, StepKeeps DEF x
  <1>7. CASE Consume(c)
    <2>1. /\ pc[c] = "search" /\ a.particle <= Len(C) /\ a.pos <= Len(children)
          /\ NameOf[C[a.particle].decl] = children[a.pos]
          /\ stack' = stack /\ at' = at /\ pc' = [pc EXCEPT ![c] = "record"] /\ outcomes' = outcomes
          /\ document' = document /\ children' = children /\ terms' = terms /\ slices' = slices
      BY <1>3, <1>7 DEF Consume, Accepts, Goto
    <2>2. CallerOK(x, st, a, "record", os, children, terms, slices)
      BY <1>1, <2>1, ConsumeKeeps
    <2> HIDE DEF x, st, a, os, C
    <2>9. /\ stack' = [stack EXCEPT ![c] = st] /\ at' = [at EXCEPT ![c] = a]
          /\ pc' = [pc EXCEPT ![c] = "record"] /\ outcomes' = [outcomes EXCEPT ![c] = os]
      BY <1>1, <1>2, <2>1, <2>2
    <2>10. /\ document' = document /\ slices' \in Slices /\ \A d \in Caller \ {c} : pc[d] \in Inactive
           /\ CallerOK(document[c], st, a, "record", os, children', terms', slices')
      BY <1>1, <1>2, <2>1, <2>2 DEF x
    <2> QED BY ONLY Inv, c \in Caller, <2>9, <2>10, StepKeeps
  <1>8. CASE Record(c)
    <2> DEFINE b == [pos |-> a.pos + 1, particle |-> a.particle + 1]
               sl2 == [slices EXCEPT ![terms][a.pos] = C[a.particle].decl]
    <2>1. pc[c] = "record"
      BY <1>8 DEF Record
    <2>2. /\ a.pos <= Len(slices[terms]) /\ sl2 \in Slices
          /\ CallerOK(x, st, b, "search", os, children, terms, sl2)
      BY <1>1, <2>1, RecordKeeps
    <2>3. /\ slices' = sl2 /\ pc' = [pc EXCEPT ![c] = "search"]
          /\ stack' = stack /\ outcomes' = outcomes
          /\ document' = document /\ children' = children /\ terms' = terms
      BY <1>3, <1>8, <2>2 DEF Record, Goto
    <2>4. at' = [at EXCEPT ![c] = b]
      <3>1. at' = [at EXCEPT ![c] = [pos |-> @.pos + 1, particle |-> @.particle + 1]]
        BY <1>8, <2>2 DEF Record
      <3> QED BY <3>1
    <2> HIDE DEF x, st, a, os, C, b, sl2
    <2> QED BY <1>1, <1>2, <2>1, <2>2, <2>3, <2>4, StepKeeps DEF x
  <1>9. CASE Skip(c)
    <2> DEFINE b == [pos |-> a.pos, particle |-> a.particle + 1]
    <2>1. /\ pc[c] = "search" /\ a.particle <= Len(C) /\ C[a.particle].min = 0
          /\ ~(a.pos <= Len(children) /\ NameOf[C[a.particle].decl] = children[a.pos])
          /\ stack' = stack /\ pc' = pc /\ outcomes' = outcomes
          /\ document' = document /\ children' = children /\ terms' = terms /\ slices' = slices
      <3>1. /\ pc[c] = "search" /\ at[c].particle <= Len(Content(c)) /\ ~Accepts(c)
            /\ Content(c)[at[c].particle].min = 0
        BY ONLY <1>9 DEF Skip
      <3>2. /\ stack' = stack /\ pc' = pc /\ outcomes' = outcomes
            /\ document' = document /\ children' = children /\ terms' = terms /\ slices' = slices
        BY ONLY <1>9 DEF Skip
      <3> QED BY <1>3, <1>0, <3>1, <3>2
    <2>2. at' = [at EXCEPT ![c] = b]
      <3>1. at' = [at EXCEPT ![c].particle = @ + 1]
        BY <1>9 DEF Skip
      <3>2. [a EXCEPT !.particle = @ + 1] = b
        <4> DEFINE p == a.pos
                   q == a.particle
        <4>1. a = [pos |-> p, particle |-> q]
          BY <1>1
        <4> HIDE DEF p, q, a
        <4>2. [a EXCEPT !.particle = @ + 1] = [pos |-> p, particle |-> q + 1]
          BY <4>1
        <4> QED BY <4>2 DEF p, q
      <3>3. at' = [at EXCEPT ![c] = [a EXCEPT !.particle = @ + 1]]
        BY <3>1
      <3> QED BY <3>2, <3>3
    <2>3. CallerOK(x, st, b, "search", os, children, terms, slices)
      BY <1>1, <2>1, SkipKeeps
    <2> HIDE DEF x, st, a, os, C, b
    <2>9. /\ stack' = [stack EXCEPT ![c] = st] /\ at' = [at EXCEPT ![c] = b]
          /\ pc' = [pc EXCEPT ![c] = "search"] /\ outcomes' = [outcomes EXCEPT ![c] = os]
      BY <1>1, <1>2, <2>1, <2>2, <2>3
    <2>10. /\ document' = document /\ slices' \in Slices /\ \A d \in Caller \ {c} : pc[d] \in Inactive
           /\ CallerOK(document[c], st, b, "search", os, children', terms', slices')
      BY <1>1, <1>2, <2>1, <2>2, <2>3 DEF x
    <2> QED BY ONLY Inv, c \in Caller, <2>9, <2>10, StepKeeps
  <1>10. CASE Fail(c)
    <2> DEFINE os2 == os \cup {[node |-> st[Len(st)].node, decl |-> st[Len(st)].decl, matched |-> FALSE]}
               st2 == SubSeq(st, 1, Len(st) - 1)
    <2>1. /\ pc[c] = "search"
          /\ \/ /\ a.particle <= Len(C)
                /\ ~(a.pos <= Len(children) /\ NameOf[C[a.particle].decl] = children[a.pos])
                /\ C[a.particle].min = 1
             \/ a.particle > Len(C) /\ a.pos # Len(children) + 1
          /\ stack' = [stack EXCEPT ![c] = st2] /\ at' = at /\ pc' = [pc EXCEPT ![c] = "visit"]
          /\ outcomes' = [outcomes EXCEPT ![c] = os2]
          /\ document' = document /\ children' = children /\ terms' = terms /\ slices' = slices
      <3>1. /\ pc[c] = "search"
            /\ \/ /\ a.particle <= Len(C)
                  /\ ~(a.pos <= Len(children) /\ NameOf[C[a.particle].decl] = children[a.pos])
                  /\ C[a.particle].min = 1
               \/ a.particle > Len(C) /\ a.pos # Len(children) + 1
        <4>1. /\ pc[c] = "search"
              /\ \/ /\ at[c].particle <= Len(Content(c)) /\ ~Accepts(c)
                    /\ Content(c)[at[c].particle].min = 1
                 \/ at[c].particle > Len(Content(c)) /\ at[c].pos # Len(children) + 1
          BY ONLY <1>10 DEF Fail
        <4> QED BY <1>3, <1>0, <4>1
      <3>2. outcomes' = [outcomes EXCEPT ![c] = os2]
        BY <1>3, <1>10 DEF Fail, Note
      <3>3. /\ stack' = [stack EXCEPT ![c] = st2] /\ at' = at /\ pc' = [pc EXCEPT ![c] = "visit"]
            /\ document' = document /\ children' = children /\ terms' = terms /\ slices' = slices
        BY <1>10 DEF Fail, Goto
      <3> QED BY <3>1, <3>2, <3>3
    <2>2. CallerOK(x, st2, a, "visit", os2, children, terms, slices)
      BY <1>1, <2>1, FailKeeps
    <2> HIDE DEF x, st, a, os, C, os2, st2
    <2> QED BY <1>1, <1>2, <2>1, <2>2, StepKeeps DEF x
  <1>11. CASE Return(c)
    <2> DEFINE os2 == os \cup {[node |-> st[Len(st)].node, decl |-> st[Len(st)].decl, matched |-> TRUE]}
               st2 == [st EXCEPT ![Len(st)] = [st[Len(st)] EXCEPT !.terms = terms]]
    <2>1. /\ pc[c] = "search" /\ a.particle > Len(C) /\ a.pos = Len(children) + 1
          /\ at' = at /\ pc' = [pc EXCEPT ![c] = "visit"]
          /\ outcomes' = [outcomes EXCEPT ![c] = os2]
          /\ document' = document /\ children' = children /\ terms' = terms /\ slices' = slices
      BY <1>3, <1>11 DEF Return, Goto, Note
    <2>2. stack' = [stack EXCEPT ![c] = st2]
      <3>1. stack' = [stack EXCEPT ![c][Len(st)] = [st[Len(st)] EXCEPT !.terms = terms]]
        BY <1>3, <1>11 DEF Return, Update
      <3> QED BY <3>1
    <2>3. CallerOK(x, st2, a, "visit", os2, children, terms, slices)
      BY <1>1, <2>1, ReturnKeeps
    <2> HIDE DEF x, st, a, os, C, os2, st2
    <2> QED BY <1>1, <1>2, <2>1, <2>2, <2>3, StepKeeps DEF x
  <1>12. CASE Visit(c)
    <2> DEFINE e == st[Len(st)]
               decl == slices[e.terms][e.next]
               after == [st EXCEPT ![Len(st)].next = @ + 1]
               st2 == Append(after, Frame(x.kids[e.node][e.next], decl))
    <2>1. pc[c] = "visit" /\ st # << >> /\ e.next <= Len(x.kids[e.node])
      BY <1>3, <1>12 DEF Visit
    <2>2. /\ e.next <= Len(slices[e.terms]) /\ decl # NoTerm
          /\ CallerOK(x, st2, a, "children", os, children, terms, slices)
      <3>1. CallerOK(x, st, a, "visit", os, children, terms, slices)
        BY <1>1, <2>1
      <3>2. /\ decl = slices[st[Len(st)].terms][st[Len(st)].next]
            /\ st2 = Append([st EXCEPT ![Len(st)].next = @ + 1],
                            Frame(x.kids[st[Len(st)].node][st[Len(st)].next], decl))
        OBVIOUS
      <3>3. st[Len(st)].next <= Len(x.kids[st[Len(st)].node])
        BY <2>1
      <3> HIDE DEF x, st, a, os, C, decl, after, st2
      <3>4. x \in Documents /\ slices \in Slices /\ st # << >>
        BY <1>1, <2>1
      <3> QED BY ONLY <3>1, <3>2, <3>3, <3>4, VisitKeeps DEF e
    <2>3. /\ at' = at /\ outcomes' = outcomes
          /\ document' = document /\ children' = children /\ terms' = terms /\ slices' = slices
      BY <1>12 DEF Visit
    <2>4. ~(e.next > Len(slices[e.terms]))
      <3>1. e.next \in Nat /\ Len(slices[e.terms]) \in Nat
        <4>1. st \in Seq(Frames(x)) /\ FramesOK(x, st, "visit", os, slices)
          BY <1>1, <2>1 DEF CallerOK, ShapeOK
        <4>2. Len(st) \in Nat \ {0} /\ e \in Frames(x)
          BY <2>1, <4>1, TopFacts
        <4>3. Len(st) \in Settled(st, "visit")
          BY <4>2 DEF Settled
        <4>4. e.terms \in 1..Len(slices)
          BY <4>1, <4>3 DEF FramesOK, Placed
        <4>5. slices[e.terms] \in Seq(Decl \cup {NoTerm})
          BY <1>1, <4>4 DEF Slices
        <4>6. e.next \in Nat
          BY <4>2 DEF Frames
        <4> QED BY <4>5, <4>6
      <3> HIDE DEF e
      <3> QED BY <2>2, <3>1
    <2>5. stack' = [stack EXCEPT ![c] = st2] /\ pc' = [pc EXCEPT ![c] = "children"]
      BY <1>3, <1>12, <2>2, <2>4 DEF Visit, Goto
    <2> HIDE DEF x, st, a, os, C, e, decl, after, st2
    <2> QED BY <1>1, <1>2, <2>1, <2>2, <2>3, <2>5, StepKeeps DEF x
  <1>13. CASE Leave(c)
    <2>1. /\ pc[c] = "visit" /\ at' = at /\ outcomes' = outcomes
          /\ document' = document /\ children' = children /\ terms' = terms /\ slices' = slices
      BY <1>13 DEF Leave
    <2>2. CASE st = << >>
      <3>1. pc' = [pc EXCEPT ![c] = "returned"] /\ stack' = stack
        BY <1>13, <2>2 DEF Leave, Goto
      <3>2. CallerOK(x, st, a, "returned", os, children, terms, slices)
        BY <1>1, <2>1, <2>2, ReturnedKeeps
      <3> HIDE DEF x, st, a, os, C
      <3> QED BY <1>1, <1>2, <2>1, <3>1, <3>2, StepKeeps DEF x
    <2>3. CASE st # << >>
      <3> DEFINE st2 == SubSeq(st, 1, Len(st) - 1)
      <3>1. /\ st[Len(st)].next > Len(x.kids[st[Len(st)].node]) /\ pc' = pc
            /\ stack' = [stack EXCEPT ![c] = st2]
        BY <1>3, <1>13, <2>3 DEF Leave
      <3>2. CallerOK(x, st2, a, "visit", os, children, terms, slices)
        BY <1>1, <2>1, <2>3, <3>1, LeaveKeeps
      <3> HIDE DEF x, st, a, os, C, st2
      <3>9. /\ stack' = [stack EXCEPT ![c] = st2] /\ at' = [at EXCEPT ![c] = a]
            /\ pc' = [pc EXCEPT ![c] = "visit"] /\ outcomes' = [outcomes EXCEPT ![c] = os]
        BY <1>1, <1>2, <2>1, <3>1, <3>2
      <3>10. /\ document' = document /\ slices' \in Slices /\ \A d \in Caller \ {c} : pc[d] \in Inactive
             /\ CallerOK(document[c], st2, a, "visit", os, children', terms', slices')
        BY <1>1, <1>2, <2>1, <3>1, <3>2 DEF x
      <3> QED BY ONLY Inv, c \in Caller, <3>9, <3>10, StepKeeps
    <2> QED BY <2>2, <2>3
  <1> QED BY <1>4, <1>5, <1>6, <1>7, <1>8, <1>9, <1>10, <1>11, <1>12, <1>13 DEF Step, Match

LEMMA InvCalls == Inv => AsIfAlone
  <1> SUFFICES ASSUME Inv, NEW c \in Caller
               PROVE  LET due == {Alone(document[c], document[c].root, Top)}
                                   \cup UNION {Below(document[c], o) : o \in outcomes[c]}
                      IN  /\ pc[c] # "panicked"
                          /\ outcomes[c] \subseteq due
                          /\ pc[c] = "returned" => outcomes[c] = due
    BY DEF AsIfAlone
  <1> DEFINE x == document[c]
             os == outcomes[c]
             due == {Whole(x)} \cup UNION {Below(x, o) : o \in os}
  <1>1. CallerOK(x, stack[c], at[c], pc[c], os, children, terms, slices)
    BY CallerFacts
  <1>2. pc[c] # "panicked"
    BY <1>1 DEF CallerOK, ShapeOK, Matching, Searching, Inactive
  <1>3. os \subseteq due
    <2>1. \A o \in os : o = Whole(x) \/ \E q \in os : o \in Below(x, q)
      BY <1>1 DEF CallerOK, ResultsOK
    <2> HIDE DEF os
    <2> QED BY <2>1
  <1>4. ASSUME pc[c] = "returned" PROVE due \subseteq os
    <2>1. "returned" \notin Matching /\ "returned" # "idle" /\ "returned" # "visit" /\ "returned" \in Inactive
      BY DEF Matching, Searching, Inactive
    <2>2. stack[c] = << >>
      BY <1>1, <1>4, <2>1 DEF CallerOK, ShapeOK
    <2>3. Settled(stack[c], pc[c]) = {}
      BY <2>2 DEF Settled
    <2>4. Whole(x) \in os /\ \A o \in os : Below(x, o) \subseteq os
      BY <1>1, <1>4, <2>1, <2>3 DEF CallerOK, ResultsOK
    <2> HIDE DEF os
    <2> QED BY <2>4
  <1> QED BY <1>2, <1>3, <1>4 DEF Whole

(* "Validator is ... an immutable, concurrency-safe assessor" is true of   *)
(* calls that follow one another: for every instance and every content     *)
(* model, what Assess finds is what it would find with a matcher of its    *)
(* own, and Match's attributions are never indexed out of range.           *)
THEOREM CallsAsIfAlone == ASSUME ~Overlap PROVE Spec => []AsIfAlone
  <1>1. ASSUME Inv, [Next]_vars PROVE Inv'
    <2>1. CASE Next
      BY <1>1, <2>1, StepInv DEF Next
    <2>2. CASE UNCHANGED vars
      BY <1>1, <2>2 DEF vars, Inv, TypeOK, OneAtATime
    <2> QED BY <1>1, <2>1, <2>2
  <1> QED BY <1>1, InitInv, InvCalls, PTL DEF Spec
=============================================================================
