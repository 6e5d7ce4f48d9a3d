---------------------------- MODULE Registration ----------------------------
(***************************************************************************)
(* parser/loader.go: register().  When every document is loaded, the       *)
(* globals replaced by a redefine or an override are suppressed in the     *)
(* documents they replace, the remaining globals are registered in         *)
(* document order, and then the replacements themselves, of which those    *)
(* that are replaced in turn are left out.                                 *)
(*                                                                         *)
(* A component is <<namespace, name>>; the registry maps it to the         *)
(* declaration that resolves references to it, as [owner, rep, base]: the  *)
(* document it stands in, the replacement it is a child of (0 for none)    *)
(* and, for a redefinition, the document whose declaration its own name    *)
(* resolves to inside it.                                                  *)
(***************************************************************************)
EXTENDS Loader

CONSTANT None   \* the nil *schemaDoc

ASSUME NoneAssumption == None \notin Key

VARIABLES
    stage,       \* "suppress", "documents", "replacements" or "done"
    pos,         \* entries of reps or order handled in this stage
    suppressed,  \* suppressed[k]: schemaDoc.suppressed
    registry,    \* component -> its declaration
    duplicates,  \* components reported under sch-props-correct.2
    unmatched,   \* redefinitions of nothing, reported under src-redefine
    unrelated    \* redefinitions that do not derive from themselves, likewise

regVars == <<stage, pos, suppressed, registry, duplicates, unmatched, unrelated>>
vars == <<loadVars, regVars>>

RegInit ==
    /\ stage = "suppress" /\ pos = 0
    /\ suppressed = [k \in Key |-> {}]
    /\ registry = << >> /\ duplicates = {} /\ unmatched = {} /\ unrelated = {}

Component(k, n) == <<NamespaceOf(k), n>>

(* The documents composed in by `start' and by those, not passing `barred'. *)
Closure(start, barred) ==
    LET Within[n \in 0..Cardinality(docs)] ==
            IF n = 0 THEN {start} \ barred
            ELSE LET R == Within[n - 1]
                 IN  R \cup ((UNION {ToSet(targets[k]) : k \in R}) \ barred)
    IN  Within[Cardinality(docs)]

-----------------------------------------------------------------------------
(* Mutant: a replacement suppresses the component in its own document too. *)
ReplacedInOwnToo(rep) == Closure(rep.target, {})

(* The documents in which the children of rep replace a component: the     *)
(* target's closure, except the replacement's own document.                *)
ReplacedIn(rep) == Closure(rep.target, {rep.owner})

SuppressOriginals ==
    /\ stage = "suppress" /\ pos < Len(reps)
    /\ pos' = pos + 1
    /\ suppressed' = LET rep == reps[pos + 1]
                         D == ReplacedIn(rep)
                     IN  [k \in Key |-> IF k \in D THEN suppressed[k] \cup rep.names
                                        ELSE suppressed[k]]
    /\ UNCHANGED <<stage, registry, duplicates, unmatched, unrelated>>

-----------------------------------------------------------------------------
(* registry.register() on the declarations `new' of distinct components:   *)
(* the first declaration of a component stays, a later one is reported.    *)
Register(new) ==
    LET taken == DOMAIN new \cap DOMAIN registry IN
    /\ registry' = [c \in DOMAIN new \cup DOMAIN registry |->
                       IF c \in DOMAIN registry THEN registry[c] ELSE new[c]]
    /\ duplicates' = duplicates \cup taken

(* The globals of k that registerDoc() registers.                          *)
Globals(k) == world.decls[UriOf(k)] \ suppressed[k]

RegisterDocument ==
    /\ stage = "documents" /\ pos < Len(order)
    /\ pos' = pos + 1
    /\ LET k == order[pos + 1] IN
       Register([c \in {Component(k, n) : n \in Globals(k)} |->
                    [owner |-> k, rep |-> 0, base |-> None]])
    /\ UNCHANGED <<stage, suppressed, unmatched, unrelated>>

-----------------------------------------------------------------------------
(* The globals registerDoc() sets aside: schemaDoc.originals.              *)
Originals(k) == world.decls[UriOf(k)] \cap suppressed[k]

(* findOriginal(): the first document, depth first, among `pending' and    *)
(* what they compose in, with a suppressed declaration of n.               *)
FindOriginal(start, n) ==
    LET Search[at \in Seq(Key) \X SUBSET Key] ==
            LET pending == at[1]
                seen == at[2]
                k == Head(pending)
            IN  IF pending = << >> THEN None
                ELSE IF k \in seen THEN Search[<<Tail(pending), seen>>]
                ELSE IF n \in Originals(k) THEN k
                ELSE Search[<<targets[k] \o Tail(pending), seen \cup {k}>>]
    IN  Search[<< <<start>>, {} >>]

(* Mutant: a replacement that is replaced in turn is registered as well. *)
StandingSuperseded(rep) == rep.names

(* The children of rep that are not replaced in turn.                      *)
Standing(rep) == rep.names \ suppressed[rep.owner]

(* registerReplacement().  An override of nothing is no component; a       *)
(* redefinition of nothing is reported and registered all the same.        *)
RegisterReplacement ==
    /\ stage = "replacements" /\ pos < Len(reps)
    /\ pos' = pos + 1
    /\ LET rep == reps[pos + 1]
           original == [n \in Standing(rep) |-> FindOriginal(rep.target, n)]
           redefine == rep.kind = "redefine"
           orphans == {n \in Standing(rep) : original[n] = None}
           kept == IF redefine THEN Standing(rep) ELSE Standing(rep) \ orphans
           Components(S) == {Component(rep.owner, n) : n \in S}
       IN  /\ Register([c \in Components(kept) |->
                           [owner |-> rep.owner, rep |-> pos + 1,
                            base |-> IF redefine THEN original[c[2]] ELSE None]])
           /\ unmatched' = unmatched \cup IF redefine THEN Components(orphans) ELSE {}
           /\ unrelated' = unrelated \cup IF redefine /\ ~rep.selfBase
                                          THEN Components(Standing(rep)) ELSE {}
    /\ UNCHANGED <<stage, suppressed>>

NextStage ==
    /\ \/ stage = "suppress" /\ pos = Len(reps) /\ stage' = "documents"
       \/ stage = "documents" /\ pos = Len(order) /\ stage' = "replacements"
       \/ stage = "replacements" /\ pos = Len(reps) /\ stage' = "done"
    /\ pos' = 0
    /\ UNCHANGED <<suppressed, registry, duplicates, unmatched, unrelated>>

(* Parse(): load() and then, unless a root is unloadable, register().      *)
Next ==
    \/ LoadNext /\ UNCHANGED regVars
    \/ /\ phase = "loaded" /\ UNCHANGED loadVars
       /\ SuppressOriginals \/ RegisterDocument \/ RegisterReplacement \/ NextStage

Init == LoadInit /\ RegInit

Spec == Init /\ [][Next]_vars

-----------------------------------------------------------------------------
Done == stage = "done"

(* Redefining or overriding never makes a component disappear: whatever a  *)
(* loaded document declares can be referred to after registration.         *)
NoComponentLost ==
    Done => \A k \in docs : IsDoc(k) =>
              \A n \in world.decls[UriOf(k)] : Component(k, n) \in DOMAIN registry

(* The replacements of component c.                                        *)
Replacing(c) == {i \in DOMAIN reps : \E n \in reps[i].names : Component(reps[i].owner, n) = c}

(* i is applied after j and to its result: j stands in a document that i   *)
(* replaces components of.                                                 *)
Outside(i, j) == reps[j].owner \in Closure(reps[i].target, {reps[i].owner})

(* Of nested replacements of a component the outermost is the one that     *)
(* references resolve to, wherever they stand: no other replacement of the *)
(* component is applied to the result of the one registered.               *)
OutermostWins ==
    Done => \A c \in DOMAIN registry :
              registry[c].rep # 0 =>
                 ~\E i \in Replacing(c) : i # registry[c].rep /\ Outside(i, registry[c].rep)

(* A duplicate is reported only for two declarations neither of which the  *)
(* other replaces: replacing a component, once or in a chain, is no clash. *)
Declares(k, c) == \E n \in world.decls[UriOf(k)] : Component(k, n) = c
DuplicatesAreReal ==
    Done => \A c \in duplicates :
       \/ \E k1, k2 \in {order[i] : i \in DOMAIN order} :
             k1 # k2 /\ Declares(k1, c) /\ Declares(k2, c)
       \/ \E i, j \in Replacing(c) : i # j /\ ~Outside(i, j) /\ ~Outside(j, i)
       \/ \E i \in Replacing(c), k \in docs :
             Declares(k, c) /\ k \notin Closure(reps[i].target, {reps[i].owner})

(* Replacements take effect from the inside out, and are no duplicates.    *)
ReplacementsInOrder == OutermostWins /\ DuplicatesAreReal
=============================================================================
