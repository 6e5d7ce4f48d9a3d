------------------------------- MODULE Loader -------------------------------
(***************************************************************************)
(* parser/loader.go: discovery.  instance() reads a document as part of a  *)
(* namespace and recurses into its compositions; compose() runs once per   *)
(* composition.  `stack' is the Go call stack of instance() activations    *)
(* and `next' the loop index of each activation's                          *)
(* `for _, comp := range doc.compositions'.  What follows the recursive    *)
(* call in compose() (recording the target and the replacement) is part of *)
(* the step that returns from it.                                          *)
(***************************************************************************)
EXTENDS SchemaDocs, SequencesExt

VARIABLES
    world,     \* the document set being loaded
    phase,     \* "load", "failed" (a root is unloadable) or "loaded"
    root,      \* entry points handled so far
    stack,     \* the documents being read, innermost last; empty between roots
    next,      \* next[k]: compositions of k already handed to compose
    fetches,   \* fetches[u]: calls of the resolver for u
    trees,     \* loader.trees: the URIs with a cached treeEntry
    docs,      \* loader.docs: the instances created (those of alien roots nil)
    reports,   \* reports[u]: times pass 1 reported on the document at u
    order,     \* loader.order
    targets,   \* targets[k]: schemaDoc.targets
    reps,      \* loader.reps, as [kind, owner, target, names, selfBase]
    failures   \* src-import, src-include, ... errors, as <<document, index>>

stackVars == <<stack, next>>
treeVars == <<fetches, trees>>
linkVars == <<targets, reps>>
loadVars == <<world, phase, root, stackVars, treeVars, docs, reports, order, linkVars, failures>>

Top == stack[Len(stack)]

IsDoc(k) == world.status[UriOf(k)] = "schema"   \* loadDoc returned a schemaDoc

LoadInit ==
    /\ world \in DocSets
    /\ phase = "load" /\ root = 0 /\ stack = << >>
    /\ next = [k \in Key |-> 0]
    /\ fetches = [u \in Uri |-> 0] /\ trees = {}
    /\ docs = {} /\ reports = [u \in Uri |-> 0]
    /\ order = << >> /\ targets = [k \in Key |-> << >>] /\ reps = << >>
    /\ failures = {}

-----------------------------------------------------------------------------
(* The step of `for _, comp := range doc.compositions'.                    *)
Advance(k) == [next EXCEPT ![k] = @ + 1]

(* Where a fault in the next composition of k is reported.                 *)
Fault(k) == <<k, next[k] + 1>>

(* Mutant: every reference to a document resolves and parses it again. *)
TreeUncached(u) ==
    /\ fetches' = [fetches EXCEPT ![u] = @ + 1]
    /\ trees' = trees \cup {u}

(* tree(): one resolution and parse attempt per URI, failures included.    *)
Tree(u) ==
    /\ fetches' = IF u \in trees THEN fetches ELSE [fetches EXCEPT ![u] = @ + 1]
    /\ trees' = trees \cup {u}

(* Pass-1 reports of a second instance of a document are discarded.        *)
Reports(u) == IF \E k \in docs : UriOf(k) = u THEN reports ELSE [reports EXCEPT ![u] = @ + 1]

(* Mutant: a document in progress is not found in the cache. *)
KnownWhenDone(k) == k \in docs /\ (IsDoc(k) => next[k] = Len(world.comps[UriOf(k)]))

(* Mutant: the cache is asked for the namespace the document declares. *)
KnownAsDeclared(k) == ReadAs(UriOf(k), world.tns[UriOf(k)]) \in docs

Known(k) == k \in docs   \* instance(): l.docs has the key

(* instance() on a key met for the first time.                             *)
Create(k) ==
    /\ docs' = docs \cup {k}
    /\ reports' = Reports(UriOf(k))
    /\ IF IsDoc(k)
       THEN /\ order' = Append(order, k)
            /\ stack' = Append(stack, k)
       ELSE UNCHANGED <<order, stack>>

(* The tail of compose(): what k records once its target t is loaded.      *)
Link(k, c, t) ==
    IF c.kind = "import" \/ ~IsDoc(t) THEN UNCHANGED linkVars
    ELSE /\ targets' = [targets EXCEPT ![k] = Append(@, t)]
         /\ reps' = IF c.kind = "include" THEN reps
                    ELSE Append(reps, [kind |-> c.kind, owner |-> k, target |-> t,
                                       names |-> c.names, selfBase |-> c.selfBase])

(* loadRoot() on the next entry point: an unloadable one ends the parse.   *)
LoadRoot ==
    /\ phase = "load" /\ stack = << >> /\ root < Len(world.roots)
    /\ LET u == world.roots[root + 1]
           k == ReadAs(u, world.tns[u])
       IN  /\ Tree(u)
           /\ IF world.status[u] \in {"unresolvable", "malformed"}
              THEN phase' = "failed" /\ UNCHANGED <<root, stack, docs, reports, order>>
              ELSE /\ root' = root + 1 /\ UNCHANGED phase
                   /\ IF Known(k) THEN UNCHANGED <<stack, docs, reports, order>>
                      ELSE Create(k)
    /\ UNCHANGED <<world, next, linkVars, failures>>

(* compose() on the next composition of the document on top of the stack.  *)
Compose ==
    /\ phase = "load" /\ stack # << >> /\ next[Top] < Len(world.comps[UriOf(Top)])
    /\ LET c == world.comps[UriOf(Top)][next[Top] + 1]
           t == TargetOf(world, Top, c)
           outcome == Outcome(world, Top, c)
       IN  /\ next' = Advance(Top)
           /\ IF Followed(Top, c) THEN Tree(c.loc) ELSE UNCHANGED treeVars
           /\ failures' = IF outcome = "error" THEN failures \cup {Fault(Top)} ELSE failures
           /\ IF outcome = "load" /\ ~Known(t) THEN Create(t) ELSE UNCHANGED <<stack, docs, reports, order>>
           /\ IF outcome = "load" /\ Known(t) THEN Link(Top, c, t) ELSE UNCHANGED linkVars
    /\ UNCHANGED <<world, phase, root>>

(* instance() returns; its caller, if a composition, records the target.   *)
Return ==
    /\ phase = "load" /\ stack # << >> /\ next[Top] = Len(world.comps[UriOf(Top)])
    /\ stack' = SubSeq(stack, 1, Len(stack) - 1)
    /\ IF Len(stack) = 1 THEN UNCHANGED linkVars
       ELSE LET k == stack[Len(stack) - 1]
            IN  Link(k, world.comps[UriOf(k)][next[k]], Top)
    /\ UNCHANGED <<world, phase, root, next, treeVars, docs, reports, order, failures>>

(* Every entry point is loaded: Parse goes on to finish().                 *)
Loaded ==
    /\ phase = "load" /\ stack = << >> /\ root = Len(world.roots)
    /\ phase' = "loaded"
    /\ UNCHANGED <<world, root, stackVars, treeVars, docs, reports, order, linkVars, failures>>

LoadNext == LoadRoot \/ Compose \/ Return \/ Loaded

-----------------------------------------------------------------------------
LoadTypeOK ==
    /\ IsDocSet(world) /\ phase \in {"load", "failed", "loaded"}
    /\ root \in 0..Len(world.roots)
    /\ stack \in Seq(Key) /\ next \in [Key -> Nat]
    /\ fetches \in [Uri -> Nat] /\ trees \subseteq Uri
    /\ docs \subseteq Key /\ reports \in [Uri -> Nat]
    /\ order \in Seq(Key) /\ targets \in [Key -> Seq(Key)]
    /\ failures \subseteq Key \X (Nat \ {0})

(* The resolver is asked for a document once, however many documents refer *)
(* to it, in whatever roles, and whether or not the attempt succeeded; and *)
(* a document, read into however many namespaces, has its own (pass-1)     *)
(* errors reported once.                                                   *)
FetchedOnce == \A u \in Uri : fetches[u] <= 1
ReportedOnce == \A u \in Uri : reports[u] = IF \E k \in docs : UriOf(k) = u THEN 1 ELSE 0
ReadOnce == FetchedOnce /\ ReportedOnce

(* An entry point whose document can be read.                              *)
Readable(w, u) == w.status[u] \in {"schema", "alien"}

(* k composes t in, by the rules of src-import, src-include and the        *)
(* chameleon rule src-include.2.2.                                         *)
ComposesIn(w, k, t) ==
    /\ w.status[UriOf(k)] = "schema"
    /\ Readable(w, UriOf(t))
    /\ \E i \in DOMAIN w.comps[UriOf(k)] :
          LET c == w.comps[UriOf(k)][i] IN
          /\ c.loc = UriOf(t)
          /\ \/ /\ c.kind = "import"
                /\ c.ns # NamespaceOf(k)
                /\ c.ns = w.tns[UriOf(t)] /\ NamespaceOf(t) = c.ns
             \/ /\ c.kind # "import"
                /\ NamespaceOf(t) = NamespaceOf(k)
                /\ w.tns[UriOf(t)] \in {NamespaceOf(k), Absent}

(* S holds the entry points and everything its members compose in.         *)
ClosedUnderComposition(S) ==
    /\ \A i \in DOMAIN world.roots : ReadAs(world.roots[i], world.tns[world.roots[i]]) \in S
    /\ \A k \in S : \A t \in Key : ComposesIn(world, k, t) => t \in S

(* Nothing is loaded that the entry points do not lead to: no document can *)
(* be left out of those loaded without losing closure under composition.   *)
NothingElseLoaded ==
    phase = "loaded" => \A S \in SUBSET docs : ClosedUnderComposition(S) => docs = S

(* Everything the entry points lead to is loaded, cycles, diamonds and     *)
(* chameleons included; a cycle met while its documents are still being    *)
(* read loses none of them.                                                *)
EverythingLoaded == phase = "loaded" => ClosedUnderComposition(docs)

(* Both: the documents loaded are the least set closed under composition.   *)
LoadedExactly == NothingElseLoaded /\ EverythingLoaded

(* Each faulty composition of a loaded document is reported, at that       *)
(* document and composition, and nothing else is.                          *)
FaultyComposition(w, k, i) ==
    LET c == w.comps[UriOf(k)][i] IN
    \/ c.kind = "import" /\ c.ns = NamespaceOf(k)
    \/ /\ c.loc # NoLocation
       /\ \/ w.status[c.loc] = "malformed"
          \/ w.status[c.loc] = "unresolvable" /\ c.kind # "import"
          \/ Readable(w, c.loc) /\ c.kind = "import" /\ c.ns # w.tns[c.loc]
          \/ Readable(w, c.loc) /\ c.kind # "import"
                /\ w.tns[c.loc] \notin {NamespaceOf(k), Absent}
FaultsReported ==
    phase = "loaded" =>
        \A k \in Key : \A i \in DOMAIN world.comps[UriOf(k)] :
            <<k, i>> \in failures <=> k \in docs /\ IsDoc(k) /\ FaultyComposition(world, k, i)

(* The registration order lists each schema document once.                 *)
OrderIsDocs == IsInjective(order) /\ ToSet(order) = {k \in docs : IsDoc(k)}

(* No two open calls of instance() are for one document and namespace: a   *)
(* composition that leads back to a document in progress is answered from  *)
(* the cache (parser/loader.go:131), so the recursion is never deeper than *)
(* there are instances, whatever cycles the documents form.                *)
OpenOnce == \A i, j \in 1..Len(stack) : stack[i] = stack[j] => i = j
=============================================================================
