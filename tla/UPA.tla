---------------------------------- MODULE UPA ----------------------------------
(***************************************************************************)
(* Unique Particle Attribution, as the schema builder checks it: a         *)
(* position automaton for sequences and choices (checkSeqChoiceUPA), a     *)
(* pairwise test for all groups (checkAllUPA).                             *)
(*                                                                         *)
(* Particles are expanded.  A leaf is known by its place: the indices that *)
(* lead to it from the root.                                               *)
(***************************************************************************)
EXTENDS ContentModels

CONSTANT Longest   \* the length of the paths the reference looks at

Place == Seq(Nat)

TermAt(p, place) ==
    LET particle[n \in 0..Len(place)] == IF n = 0 THEN p ELSE particle[n - 1].term.particles[place[n]]
    IN  particle[Len(place)].term

GroupPlaces[p \in Particles] ==
    IF ~IsGroup(p.term) THEN {}
    ELSE {<< >>} \cup UNION {{<<i>> \o place : place \in GroupPlaces[p.term.particles[i]]} : i \in DOMAIN p.term.particles}

-----------------------------------------------------------------------------
(* When two leaves can take one child.                                     *)
(* wildcardsOverlap                                                        *)
NamespacesOverlap(a, b) ==
    CASE a.mode = "any" \/ b.mode = "any" -> TRUE
      [] a.mode = "not" /\ b.mode = "not" -> TRUE
      [] a.mode = "enumeration" /\ b.mode = "enumeration" -> a.namespaces \cap b.namespaces # {}
      [] a.mode = "enumeration" /\ b.mode = "not" -> a.namespaces \ b.namespaces # {}
      [] OTHER -> b.namespaces \ a.namespaces # {}

Disallows(w) == w.notQName # {} \/ w.keywords # {}
WildcardsOverlap(a, b) == ~Disallows(a) /\ ~Disallows(b) /\ NamespacesOverlap(a, b)

Conflict(s, t) ==
    \/ s.kind = "element" /\ t.kind = "element" /\ Accepted(s.decl) \cap Accepted(t.decl) # {}
    \/ s.kind = "wildcard" /\ t.kind = "wildcard" /\ WildcardsOverlap(s.wildcard, t.wildcard)

-----------------------------------------------------------------------------
(* The position automaton: which leaves may come first, last, and after    *)
(* one another.  It is given up (bail) where there is an all group.        *)
Automaton(nullable, first, last, follow) ==
    [nullable |-> nullable, first |-> first, last |-> last, follow |-> follow]

(* Mutant: what follows a nullable member is not reached from before it.   *)
ThenBlocked(a, b) ==
    Automaton(a.nullable /\ b.nullable,
              IF a.nullable THEN a.first \cup b.first ELSE a.first,
              b.last,
              a.follow \cup b.follow \cup (a.last \X b.first))

Then(a, b) ==
    Automaton(a.nullable /\ b.nullable,
              IF a.nullable THEN a.first \cup b.first ELSE a.first,
              IF b.nullable THEN a.last \cup b.last ELSE b.last,
              a.follow \cup b.follow \cup (a.last \X b.first))

Or(a, b) == Automaton(a.nullable \/ b.nullable, a.first \cup b.first, a.last \cup b.last, a.follow \cup b.follow)

EmptySequence == Automaton(TRUE, {}, {}, {})
EmptyChoice   == Automaton(FALSE, {}, {}, {})

Repeats(p) == p.max = Unbounded \/ p.max > 1

Visit[p \in Particles, at \in Place] ==
    LET inner == [i \in DOMAIN p.term.particles |-> Visit[p.term.particles[i], Append(at, i)]]
        once  == CASE p.term.kind = "sequence" -> FoldLeft(Then, EmptySequence, inner)
                   [] p.term.kind = "choice"   -> FoldLeft(Or, EmptyChoice, inner)
                   [] OTHER                    -> Automaton(FALSE, {at}, {at}, {})
    IN  Automaton(once.nullable \/ p.min = 0, once.first, once.last,
                  IF Repeats(p) THEN once.follow \cup (once.last \X once.first) ELSE once.follow)

HasAll(p) == \E g \in GroupPlaces[p] : TermAt(p, g).kind = "all"

Pairs(S) == {{i, j} : i, j \in S} \ {{i} : i \in S}
Conflicts(p, S) == {pair \in Pairs(S) : \E i, j \in pair : i # j /\ Conflict(TermAt(p, i), TermAt(p, j))}

SeqChoiceUPA(p) ==
    IF HasAll(p) THEN {}
    ELSE LET a == Visit[p, << >>]
             After(i) == {f[2] : f \in {f \in a.follow : f[1] = i}}
         IN  Conflicts(p, a.first) \cup UNION {Conflicts(p, After(f[1])) : f \in a.follow}

(* Each all group on its own: the leaves that are its members.             *)
AllUPA(p) ==
    UNION {LET g == TermAt(p, at)
           IN  IF g.kind # "all" THEN {}
               ELSE Conflicts(p, {Append(at, i) : i \in {i \in DOMAIN g.particles : ~IsGroup(g.particles[i].term)}}) :
             at \in GroupPlaces[p]}

-----------------------------------------------------------------------------
(* The paths of a particle (3.8.4.1, 3.9.4.1): the sequences of leaves     *)
(* that members of its language match, up to a length.                     *)
Concat(A, B) == {s \in {a \o b : a \in A, b \in B} : Len(s) <= Longest}

Interleavings[s \in Seq(Place), t \in Seq(Place)] ==
    IF s = << >> THEN {t} ELSE IF t = << >> THEN {s}
    ELSE {<<Head(s)>> \o r : r \in Interleavings[Tail(s), t]}
           \cup {<<Head(t)>> \o r : r \in Interleavings[s, Tail(t)]}

Shuffle(A, B) ==
    UNION {Interleavings[ab[1], ab[2]] : ab \in {ab \in A \X B : Len(ab[1]) + Len(ab[2]) <= Longest}}

Power(A, n) ==
    LET power[k \in 0..n] == IF k = 0 THEN {<< >>} ELSE Concat(A, power[k - 1]) IN power[n]

Paths[p \in Particles, at \in Place] ==
    LET inner == [i \in DOMAIN p.term.particles |-> Paths[p.term.particles[i], Append(at, i)]]
        once  == CASE p.term.kind = "sequence" -> FoldLeft(Concat, {<< >>}, inner)
                   [] p.term.kind = "choice"   -> UNION {inner[i] : i \in DOMAIN inner}
                   [] p.term.kind = "all"      -> FoldLeft(Shuffle, {<< >>}, inner)
                   [] OTHER                    -> {<<at>>}
        most  == IF p.max = Unbounded THEN p.min + Longest ELSE p.max
    IN  UNION {Power(once, n) : n \in p.min..most}

Takes(t, q) ==
    IF t.kind = "element" THEN q \in Accepted(t.decl) ELSE AllowsNamespace(t.wildcard, NamespaceOf[q])

(* Leaves that compete: some sequence has two paths that differ in their   *)
(* last item only.                                                         *)
Competing(p) ==
    LET beginnings == UNION {{SubSeq(s, 1, n) : n \in 1..Len(s)} : s \in Paths[p, << >>]}
        Together(s, t) == /\ Len(s) = Len(t) /\ s # t
                          /\ SubSeq(s, 1, Len(s) - 1) = SubSeq(t, 1, Len(t) - 1)
                          /\ \A i \in 1..(Len(s) - 1) : \E q \in Name : Takes(TermAt(p, s[i]), q)
                          /\ \E q \in Name : Takes(TermAt(p, Last(s)), q) /\ Takes(TermAt(p, Last(t)), q)
    IN  {{Last(st[1]), Last(st[2])} : st \in {st \in beginnings \X beginnings : Together(st[1], st[2])}}

(* Two elements or two wildcards: an element and a wildcard may compete.   *)
Prohibited(p) == {pair \in Competing(p) : \E k \in {"element", "wildcard"} : \A i \in pair : TermAt(p, i).kind = k}

=============================================================================
