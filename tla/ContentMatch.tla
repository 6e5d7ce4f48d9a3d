----------------------------- MODULE ContentMatch -----------------------------
(***************************************************************************)
(* xsdwalk.Matcher: deciding whether the children of an element match its  *)
(* content model, and which term of the model each child is attributed to. *)
(*                                                                         *)
(* The code searches with continuations: matchParticle(p, pos, cont) hands *)
(* cont the end positions p can reach from pos, one after the other, until *)
(* cont succeeds.  Here a function of the position returns the sequence of *)
(* all that would be handed over, in that order, each as the attributions  *)
(* of the children consumed; the match is the first `finish' accepts.      *)
(* A matcher m is [particle, children, open]: the content model, its       *)
(* references expanded, the names of the children and the open content.    *)
(***************************************************************************)
EXTENDS ContentModels

CONSTANT Substitutes   \* the pairs <<g, d>> with SubstitutableFor(g, d)

Matcher(p, w, o) == [particle |-> p, children |-> w, open |-> o]

Positions(m) == 0..Len(m.children)

ByElement(d)  == [by |-> "element", what |-> d]
ByWildcard(w) == [by |-> "wildcard", what |-> w]
ByOpen(w)     == [by |-> "open", what |-> w]

-----------------------------------------------------------------------------
(* Which names a term accepts.                                             *)
Substitutable(q, d) == q \in DOMAIN Globals /\ <<Globals[q], d>> \in Substitutes

(* matchesSibling, for ##definedSibling; ##defined asks for any global.    *)
MatcherContext(m) ==
    [k \in Keyword |->
       IF k = "##defined" THEN DOMAIN Globals \cap Name
       ELSE {q \in Name : \E d \in ElementsOf(m.particle) : q = d.name \/ Substitutable(q, d)}]

WildcardOK(m, w, q) == Allows(w, q, MatcherContext(m))

(* acceptElement: the declaration, or one substitutable for it, as a set.  *)
AcceptElement(d, q) ==
    IF q = d.name /\ ~d.abstract THEN {d}
    ELSE IF d.global /\ Substitutable(q, d) /\ ~Globals[q].abstract THEN {Globals[q]} ELSE {}

(* What a leaf term attributes a child to (at most one thing).             *)
Accept(m, t, q) ==
    IF t.kind = "element" THEN {ByElement(d) : d \in AcceptElement(t.decl, q)}
    ELSE IF t.kind = "wildcard" /\ WildcardOK(m, t.wildcard, q) THEN {ByWildcard(t.wildcard)} ELSE {}

Interleaves(m, q) == m.open.mode = "interleave" /\ WildcardOK(m, m.open.wildcard, q)

-----------------------------------------------------------------------------
(* The search.  An outcome is the sequence of attributions of the children *)
(* consumed from a position; outcomes come in the order they are tried.    *)
Nothing == << << >> >>
If(cond, outcomes) == IF cond THEN outcomes ELSE << >>
Prefixed(head, outcomes) == [i \in DOMAIN outcomes |-> head \o outcomes[i]]

(* A child taken by a term, and by interleaved open content, before others.*)
Taking(m, t, pos, outcomes) ==
    LET accepted == Accept(m, t, m.children[pos + 1])
    IN  If(accepted # {}, Prefixed(<<CHOOSE a \in accepted : TRUE>>, outcomes))

Absorbing(m, pos, outcomes) ==
    If(Interleaves(m, m.children[pos + 1]), Prefixed(<<ByOpen(m.open.wildcard)>>, outcomes))

(* matchLeaf: the term itself first, then a child given to interleaved     *)
(* open content and the term again.                                        *)
MatchLeaf(m, t) ==
    LET from[pos \in Positions(m)] ==
          IF pos = Len(m.children) THEN << >>
          ELSE Taking(m, t, pos, Nothing) \o Absorbing(m, pos, from[pos + 1])
    IN  from

(* matchSeq: each outcome of a member is continued by those of the rest;   *)
(* inner[i] are the outcomes of the i-th member, per position.             *)
MatchSeq(m, parts, inner) ==
    LET rest[i \in 1..(Len(parts) + 1)] ==
          [pos \in Positions(m) |->
             IF i > Len(parts) THEN Nothing
             ELSE LET first == inner[i][pos]
                  IN  FlattenSeq([k \in DOMAIN first |-> Prefixed(first[k], rest[i + 1][pos + Len(first[k])])])]
    IN  rest[1]

MatchChoice(m, parts, inner) == [pos \in Positions(m) |-> FlattenSeq([i \in DOMAIN parts |-> inner[i][pos]])]

(* flattenAll: the members of nested all groups, optional when the         *)
(* particle around them is.                                                *)
FlattenAll[p \in Particles] ==
    IF p.term.kind # "all" THEN <<p>>
    ELSE FlattenSeq([i \in DOMAIN p.term.particles |->
           LET q == p.term.particles[i]
               inner == FlattenAll[q]
           IN  [k \in DOMAIN inner |-> IF q.min = 0 THEN [inner[k] EXCEPT !.min = 0] ELSE inner[k]]])

MayRepeat(p, count) == p.max = Unbounded \/ count < p.max

(* matchAll: used[i] children have gone to member i.  Leaving the group is *)
(* tried before it takes another child.                                    *)
MatchAll(m, parts) ==
    LET with[pos \in Positions(m)] ==
          [used \in [DOMAIN parts -> Nat] |->
             If(\A i \in DOMAIN parts : used[i] >= parts[i].min, Nothing)
             \o IF pos = Len(m.children) THEN << >>
                ELSE FlattenSeq([i \in DOMAIN parts |->
                       If(MayRepeat(parts[i], used[i]),
                          Taking(m, parts[i].term, pos, with[pos + 1][[used EXCEPT ![i] = @ + 1]]))])
                     \o Absorbing(m, pos, with[pos + 1][used])]
    IN  [pos \in Positions(m) |-> with[pos][[i \in DOMAIN parts |-> 0]]]

(* When a particle may be left: enough occurrences, or an occurrence that  *)
(* can be empty and so stands for the missing ones.                        *)
(* Mutant: an empty occurrence does not count.                             *)
MayLeaveCounted(p, count, emptyOK) == count >= p.min

MayLeave(p, count, emptyOK) == count >= p.min \/ emptyOK

(* matchParticle: after `count' occurrences one more, or leave; once are   *)
(* the outcomes of one occurrence.                                         *)
MatchOccurrences(m, p, once) ==
    LET after[pos \in Positions(m)] ==
          [count \in Nat |->
             LET first == If(MayRepeat(p, count), once[pos])
             IN  FlattenSeq([k \in DOMAIN first |->
                     If(first[k] # << >>, Prefixed(first[k], after[pos + Len(first[k])][count + 1]))])
                 \o If(MayLeave(p, count, << >> \in ToSet(first)), Nothing)]
    IN  [pos \in Positions(m) |-> after[pos][0]]

(* matchTerm, matchGroup, around the outcomes of the members.              *)
MatchTerm(m, p, inner) ==
    CASE p.term.kind = "sequence" -> MatchSeq(m, p.term.particles, inner)
      [] p.term.kind = "choice"   -> MatchChoice(m, p.term.particles, inner)
      [] p.term.kind = "all"      -> MatchAll(m, FlattenAll[p])
      [] OTHER                    -> MatchLeaf(m, p.term)

Outcomes(m) ==
    LET of[p \in Particles] ==
          MatchOccurrences(m, p, MatchTerm(m, p, [i \in DOMAIN p.term.particles |-> of[p.term.particles[i]]]))
    IN  of[m.particle][0]

(* finish: the remaining children are open content's.                      *)
Finishes(m, pos) ==
    IF m.open.mode = "none" THEN pos = Len(m.children)
    ELSE \A i \in (pos + 1)..Len(m.children) : WildcardOK(m, m.open.wildcard, m.children[i])

Found(m, outcomes) ==
    LET accepted == {i \in DOMAIN outcomes : Finishes(m, Len(outcomes[i]))}
        Completed(first) == first \o [i \in 1..(Len(m.children) - Len(first)) |-> ByOpen(m.open.wildcard)]
    IN  IF accepted = {} THEN [ok |-> FALSE, terms |-> << >>]
        ELSE [ok |-> TRUE, terms |-> Completed(outcomes[Min(accepted)])]

Match(m) == Found(m, Outcomes(m))

-----------------------------------------------------------------------------
(* The language of a content model, and the attributions of a word that    *)
(* are runs of it (cvc-particle, cvc-model-group), without any order.      *)

Concatenations(A, B) == {a \o b : a \in A, b \in B}
Cuts(w) == {<<SubSeq(w, 1, n), SubSeq(w, n + 1, Len(w))>> : n \in 0..Len(w)}

EmptyRun(w) == IF w = << >> THEN {<< >>} ELSE {}

RunsOfLeaf(m, t, w) == IF Len(w) # 1 THEN {} ELSE {<<a>> : a \in Accept(m, t, w[1])}

(* One member after the other; inner[i] are the runs of the i-th, per word.*)
RunsInSeq(parts, inner, w) ==
    LET from[i \in 1..(Len(parts) + 1)] ==
          [v \in Seq(Name) |->
             IF i > Len(parts) THEN EmptyRun(v)
             ELSE UNION {Concatenations(inner[i][c[1]], from[i + 1][c[2]]) : c \in Cuts(v)}]
    IN  from[1][w]

(* Every assignment of the children to the members of an all group that    *)
(* respects what each member accepts and how often it may.                 *)
RunsOfAll(m, parts, w) ==
    LET OfMember(f, i) == {k \in DOMAIN w : f[k] = i}
        Fits(f) == /\ \A k \in DOMAIN w : Accept(m, parts[f[k]].term, w[k]) # {}
                   /\ \A i \in DOMAIN parts :
                        /\ Cardinality(OfMember(f, i)) >= parts[i].min
                        /\ Within(Cardinality(OfMember(f, i)), parts[i].max)
    IN  {[k \in DOMAIN w |-> CHOOSE a \in Accept(m, parts[f[k]].term, w[k]) : TRUE] :
           f \in {g \in [DOMAIN w -> DOMAIN parts] : Fits(g)}}

RunsOfTerm(m, p, inner, w) ==
    CASE p.term.kind = "sequence" -> RunsInSeq(p.term.particles, inner, w)
      [] p.term.kind = "choice"   -> UNION {inner[i][w] : i \in DOMAIN p.term.particles}
      [] p.term.kind = "all"      -> RunsOfAll(m, FlattenAll[p], w)
      [] OTHER                    -> RunsOfLeaf(m, p.term, w)

(* A number of runs of a term; once are the runs of one occurrence.        *)
(* More occurrences than children and the minimum are never needed.        *)
RunsTimes(p, once, w) ==
    LET times[n \in Nat] ==
          [v \in Seq(Name) |->
             IF n = 0 THEN EmptyRun(v)
             ELSE UNION {Concatenations(once[c[1]], times[n - 1][c[2]]) : c \in Cuts(v)}]
    IN  UNION {times[n][w] : n \in {k \in p.min..(p.min + Len(w)) : Within(k, p.max)}}

Runs(m) ==
    LET of[p \in Particles] ==
          LET inner == [i \in DOMAIN p.term.particles |-> of[p.term.particles[i]]]
              once == [w \in Seq(Name) |-> RunsOfTerm(m, p, inner, w)]
          IN  [w \in Seq(Name) |-> RunsTimes(p, once, w)]
    IN  of[m.particle]

(* With open content: the runs of the children it does not take, which are *)
(* any it admits (interleave), the last ones (suffix) or none.             *)
ModelRuns(m) ==
    LET all == DOMAIN m.children
        Admitted == {i \in all : m.open.mode # "none" /\ WildcardOK(m, m.open.wildcard, m.children[i])}
        Sets == {S \in SUBSET Admitted :
                   m.open.mode = "suffix" => \A i \in S : (i + 1)..Len(m.children) \subseteq S}
        Place(S, i) == Cardinality({j \in 1..i : j \notin S})
        Kept(S) == [k \in 1..Place(S, Len(m.children)) |->
                      m.children[CHOOSE i \in all \ S : Place(S, i) = k]]
        With(S, run) == [i \in all |-> IF i \in S THEN ByOpen(m.open.wildcard) ELSE run[Place(S, i)]]
    IN  UNION {{With(S, run) : run \in Runs(m)[Kept(S)]} : S \in Sets}

=============================================================================
