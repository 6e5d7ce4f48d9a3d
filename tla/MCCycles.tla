------------------------------- MODULE MCCycles -------------------------------
(* Four types in two schemas, three groups with at most two references,    *)
(* four elements with at most two heads, four simple types with one or two *)
(* sources each.  The checks of the four kinds share no state but the      *)
(* reports, so one kind varies at a time; one family mixes them.           *)
EXTENDS Cycles, TLC

CONSTANTS A, B, C, D, G, H, K, e1, e2, e3, e4, s1, s2, s3, s4

TwoSchemas == <<{A, B, G}, {C, D, H, K}>>

Flat   == [t \in Type |-> AnyType]
NoRefs == [x \in Group |-> << >>]
NoHead == [e \in Element |-> {}]
Plain  == [s \in Simple |-> [by |-> "restriction", of |-> <<Atomic>>]]
Definition(b, r, h) == [base |-> b, refs |-> r, heads |-> h, simple |-> Plain]
OfSimple(d) == [base |-> Flat, refs |-> NoRefs, heads |-> NoHead, simple |-> d]

UpToTwo  == {<< >>} \cup {<<x>> : x \in Group} \cup {<<x, y>> : x, y \in Group}
FewHeads == {S \in SUBSET Element : Cardinality(S) <= 2}
AllHeads == {f \in [Element -> FewHeads] : Cardinality(f[e4]) <= 1 /\ f[e3] = {} /\ Cardinality(f[e2]) <= 1}
            \cup {f \in [Element -> {{}, {e1}, {e2}, {e3}, {e4}}] : TRUE}

Mixed == [Type -> {B, AnyType}] \X [Group -> {<< >>, <<G, H>>}] \X [Element -> {{}, {e1}}]

(* One type may be derived from two sources only by union.                 *)
Sourced(S) == {[by |-> v, of |-> <<x>>] : v \in {"restriction", "list"}, x \in S}
Unions(S)  == {[by |-> "union", of |-> <<x, y>>] : x, y \in S}
SimpleDefinitions ==
    {(s1 :> d[1]) @@ (s2 :> d[2]) @@ (s3 :> d[3]) @@ (s4 :> d[4]) :
       d \in (Sourced({s2, s3}) \cup Unions({s2, s3})) \X (Sourced({s1, s3, s4}) \cup Unions({s3, s4}))
          \X (Sourced({s4, Atomic}) \cup Unions({s1, s4})) \X Sourced({s1, Atomic, AnySimpleType})}

AllDefinitions ==
    {OfSimple(d) : d \in SimpleDefinitions} \cup
    {Definition(b, NoRefs, NoHead) : b \in [Type -> Type \cup {AnyType}]}
    \cup {Definition(Flat, r, NoHead) : r \in [Group -> UpToTwo]}
    \cup {Definition(Flat, NoRefs, h) : h \in AllHeads}
    \cup {Definition(m[1], m[2], m[3]) : m \in Mixed}
=============================================================================
