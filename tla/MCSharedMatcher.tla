--------------------------- MODULE MCSharedMatcher ---------------------------
(* Documents of up to seven elements in three levels; local declarations  *)
(* of one name but different types below different elements.              *)
EXTENDS SharedMatcher, TLC

One(d)      == [decl |-> d, min |-> 1]
Optional(d) == [decl |-> d, min |-> 0]

Names    == [top |-> "r", p |-> "a", q |-> "b", p1 |-> "a", q1 |-> "b", p2 |-> "a", q2 |-> "b"]
Contents == [top |-> <<One("p"), Optional("q")>>,
             p   |-> <<Optional("p1"), Optional("q1")>>, q |-> <<One("p2"), One("q2")>>,
             p1  |-> << >>, q1 |-> << >>, p2 |-> << >>, q2 |-> << >>]

Shapes == {<<2>>, <<2, 3>>}
Grandchildren == {<< >>, <<4>>, <<4, 5>>}
Labels == {[n \in 1..7 |-> IF n = 1 THEN "r" ELSE l[n]] :
             l \in [2..7 -> {"a", "b"}]}

Doc(k, below2, below3, labels) ==
    [root |-> 1, name |-> labels,
     kids |-> [n \in 1..7 |-> CASE n = 1 -> k [] n = 2 -> below2 [] n = 3 -> below3 [] OTHER -> << >>]]

(* Every labelling of the first two levels, two of the third.              *)
LabelsOf == {l \in Labels : l[6] = "a" /\ l[7] = "b" /\ l[4] = "a"}
AllDocs == {Doc(k, b2, b3, l) : k \in Shapes, b2 \in Grandchildren, b3 \in {<< >>, <<6, 7>>}, l \in LabelsOf}

FewDocs == {Doc(<<2>>, << >>, << >>, [n \in 1..7 |-> IF n = 1 THEN "r" ELSE "a"]),
            Doc(<<2, 3>>, << >>, <<6, 7>>,
                [n \in 1..7 |-> CASE n = 1 -> "r" [] n \in {3, 7} -> "b" [] OTHER -> "a"])}
=============================================================================
