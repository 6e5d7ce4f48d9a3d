---------------------------- MODULE SchemaProofs ----------------------------
(***************************************************************************)
(* What is read for a schema, and the derivation of the types it declares. *)
(*                                                                         *)
(* The loader reads each document once and finds exactly the documents the *)
(* entry points lead to, for every set of documents, however they refer to *)
(* one another.  The inductive invariant says what holds half way: every   *)
(* document created is finished or on the stack, and the compositions a    *)
(* document has handled so far have their targets created and their faults *)
(* reported.  Registration after it is right for every such set: of nested *)
(* replacements the outermost counts, a clash is a real one, and unless    *)
(* documents replace a component in each other no declaration is lost.     *)
(*                                                                         *)
(* The derivation queries are right for schemas of any size: xsi:type      *)
(* accepts exactly what the Recommendation calls validly derived, the      *)
(* deciders of the builder and of the assessor agree, and substitution     *)
(* groups keep to their rules.  The recursive queries and the recursive    *)
(* definitions they are compared with are unfolded one step each; the rest *)
(* is induction along the base chain, the members of unions and the heads  *)
(* of elements, all of which refer to what was declared before.            *)
(***************************************************************************)
EXTENDS Registration, DerivationRules, FiniteSetTheorems, SequenceTheorems, Induction, TLAPS

Comp(k, i) == world.comps[UriOf(k)][i]
CompCount(k) == Len(world.comps[UriOf(k)])

StackOfDocs == \A i \in 1..Len(stack) : stack[i] \in docs /\ IsDoc(stack[i])
FetchCounts == \A u \in Uri : fetches[u] = IF u \in trees THEN 1 ELSE 0
NextInBounds ==
    \A k \in Key : /\ next[k] <= CompCount(k)
                   /\ k \notin docs \/ ~IsDoc(k) => next[k] = 0
FinishedOrOpen ==
    \A k \in docs : IsDoc(k) => next[k] = CompCount(k) \/ \E i \in 1..Len(stack) : stack[i] = k
TargetsCreated ==
    \A k \in docs : IsDoc(k) => \A i \in 1..next[k] :
        Outcome(world, k, Comp(k, i)) = "load" => TargetOf(world, k, Comp(k, i)) \in docs
RootsCreated ==
    \A i \in 1..root : ReadAs(world.roots[i], world.tns[world.roots[i]]) \in docs
FaultsSoFar ==
    \A k \in Key : \A i \in 1..CompCount(k) :
        <<k, i>> \in failures <=>
            k \in docs /\ IsDoc(k) /\ i <= next[k] /\ Outcome(world, k, Comp(k, i)) = "error"
NothingElse == \A S \in SUBSET Key : ClosedUnderComposition(S) => docs \subseteq S
LoadedIsIdle == phase = "loaded" => stack = << >> /\ root = Len(world.roots)

LoadInv ==
    /\ LoadTypeOK /\ FetchCounts /\ ReportedOnce /\ OrderIsDocs
    /\ StackOfDocs /\ NextInBounds /\ FinishedOrOpen /\ TargetsCreated
    /\ RootsCreated /\ FaultsSoFar /\ NothingElse /\ LoadedIsIdle

-----------------------------------------------------------------------------
(* A composition the code loads composes its target in, by the rules.      *)
LEMMA LoadIsComposition ==
    ASSUME NEW w, IsDocSet(w), NEW k \in Key, w.status[UriOf(k)] = "schema",
           NEW i \in 1..Len(w.comps[UriOf(k)]),
           Outcome(w, k, w.comps[UriOf(k)][i]) = "load"
    PROVE  /\ TargetOf(w, k, w.comps[UriOf(k)][i]) \in Key
           /\ ComposesIn(w, k, TargetOf(w, k, w.comps[UriOf(k)][i]))
  <1> DEFINE c == w.comps[UriOf(k)][i]
  <1>1. /\ UriOf(k) \in Uri /\ NamespaceOf(k) \in Tns /\ c \in CompositionRecord
        /\ i \in DOMAIN w.comps[UriOf(k)] /\ w.tns \in [Uri -> Tns] /\ w.status \in [Uri -> Status]
    BY DocSetsAssumption DEF IsDocSet, Key, UriOf, NamespaceOf
  <1> HIDE DEF c
  <1>2. /\ ~MisplacedImport(k, c) /\ c.loc # NoLocation /\ Followed(k, c)
        /\ w.status[c.loc] # "unresolvable" /\ w.status[c.loc] # "malformed" /\ Compatible(w, k, c)
    <2>1. Outcome(w, k, c) = "load"
      BY DEF c
    <2> QED BY <2>1 DEF Outcome, Followed
  <1>3. c.loc \in Uri /\ Readable(w, c.loc)
    BY <1>1, <1>2 DEF CompositionRecord, Readable, Status
  <1>4. TargetOf(w, k, c) \in Key /\ UriOf(TargetOf(w, k, c)) = c.loc
    BY <1>1, <1>3 DEF TargetOf, ReadAs, Key, UriOf
  <1>5. NamespaceOf(TargetOf(w, k, c)) = IF c.kind = "import" THEN w.tns[c.loc] ELSE NamespaceOf(k)
    BY DEF TargetOf, ReadAs, NamespaceOf
  <1>6. /\ c.loc = UriOf(TargetOf(w, k, c))
        /\ \/ /\ c.kind = "import" /\ c.ns # NamespaceOf(k)
              /\ c.ns = w.tns[UriOf(TargetOf(w, k, c))] /\ NamespaceOf(TargetOf(w, k, c)) = c.ns
           \/ /\ c.kind # "import" /\ NamespaceOf(TargetOf(w, k, c)) = NamespaceOf(k)
              /\ w.tns[UriOf(TargetOf(w, k, c))] \in {NamespaceOf(k), Absent}
    BY <1>2, <1>4, <1>5 DEF MisplacedImport, Compatible
  <1> QED
    BY <1>1, <1>3, <1>4, <1>6 DEF ComposesIn, c

(* What a document composes in, by the rules, the code loads.              *)
LEMMA CompositionIsLoad ==
    ASSUME NEW w, IsDocSet(w), NEW k \in Key, NEW t \in Key, ComposesIn(w, k, t)
    PROVE  \E i \in 1..Len(w.comps[UriOf(k)]) :
              /\ Outcome(w, k, w.comps[UriOf(k)][i]) = "load"
              /\ TargetOf(w, k, w.comps[UriOf(k)][i]) = t
  <1>1. UriOf(k) \in Uri /\ UriOf(t) \in Uri /\ t = <<UriOf(t), NamespaceOf(t)>> /\ NoLocation \notin Uri
    BY DocSetsAssumption DEF IsDocSet, Key, UriOf, NamespaceOf
  <1>2. PICK i \in DOMAIN w.comps[UriOf(k)] :
          LET c == w.comps[UriOf(k)][i] IN
          /\ c.loc = UriOf(t)
          /\ \/ /\ c.kind = "import"
                /\ c.ns # NamespaceOf(k)
                /\ c.ns = w.tns[UriOf(t)] /\ NamespaceOf(t) = c.ns
             \/ /\ c.kind # "import"
                /\ NamespaceOf(t) = NamespaceOf(k)
                /\ w.tns[UriOf(t)] \in {NamespaceOf(k), Absent}
    BY DEF ComposesIn
  <1> DEFINE c == w.comps[UriOf(k)][i]
  <1>3. i \in 1..Len(w.comps[UriOf(k)])
    BY <1>1, DocSetsAssumption DEF IsDocSet
  <1>4. w.status[c.loc] # "unresolvable" /\ w.status[c.loc] # "malformed"
    BY <1>2 DEF ComposesIn, Readable
  <1>5. ~MisplacedImport(k, c) /\ c.loc # NoLocation /\ Followed(k, c) /\ Compatible(w, k, c)
    BY <1>1, <1>2 DEF MisplacedImport, Followed, Compatible
  <1>6. Outcome(w, k, c) = "load"
    <2> HIDE DEF c
    <2> QED BY <1>4, <1>5 DEF Outcome
  <1>7. TargetOf(w, k, c) = t
    BY <1>1, <1>2 DEF TargetOf, ReadAs
  <1> QED
    BY <1>3, <1>6, <1>7

(* The code reports a composition exactly when the rules find it faulty.   *)
LEMMA ErrorIsFault ==
    ASSUME NEW w, IsDocSet(w), NEW k \in Key, NEW i \in 1..Len(w.comps[UriOf(k)])
    PROVE  Outcome(w, k, w.comps[UriOf(k)][i]) = "error" <=> FaultyComposition(w, k, i)
  <1> DEFINE c == w.comps[UriOf(k)][i]
  <1>1. /\ UriOf(k) \in Uri /\ c \in CompositionRecord
        /\ w.status \in [Uri -> Status]
    BY DocSetsAssumption DEF IsDocSet, Key, UriOf
  <1> DEFINE faulty == \/ c.kind = "import" /\ c.ns = NamespaceOf(k)
                       \/ /\ c.loc # NoLocation
                          /\ \/ w.status[c.loc] = "malformed"
                             \/ w.status[c.loc] = "unresolvable" /\ c.kind # "import"
                             \/ Readable(w, c.loc) /\ c.kind = "import" /\ c.ns # w.tns[c.loc]
                             \/ Readable(w, c.loc) /\ c.kind # "import"
                                   /\ w.tns[c.loc] \notin {NamespaceOf(k), Absent}
             failing == Outcome(w, k, c) = "error"
  <1>2. FaultyComposition(w, k, i) <=> faulty
    BY DEF FaultyComposition
  <1>a. (Outcome(w, k, w.comps[UriOf(k)][i]) = "error") <=> failing
    OBVIOUS
  <1> HIDE DEF c
  <1>3. c.loc \in Uri \cup {NoLocation}
    BY <1>1 DEF CompositionRecord
  <1>4. c.loc # NoLocation => w.status[c.loc] \in Status
    BY <1>1, <1>3
  <1>5. CASE MisplacedImport(k, c)
    <2>1. failing <=> faulty
      BY <1>5 DEF Outcome, MisplacedImport, Followed
    <2> QED BY <2>1, <1>2, <1>a
  <1>6. CASE ~MisplacedImport(k, c) /\ c.loc = NoLocation
    <2>1. failing <=> faulty
      BY <1>6 DEF Outcome, MisplacedImport, Followed
    <2> QED BY <2>1, <1>2, <1>a
  <1>7. CASE Followed(k, c) /\ w.status[c.loc] = "unresolvable"
    <2>1. failing <=> faulty
      BY <1>7 DEF Outcome, MisplacedImport, Followed, Readable
    <2> QED BY <2>1, <1>2, <1>a
  <1>8. CASE Followed(k, c) /\ w.status[c.loc] = "malformed"
    <2>1. failing <=> faulty
      BY <1>8 DEF Outcome, MisplacedImport, Followed
    <2> QED BY <2>1, <1>2, <1>a
  <1>9. CASE Followed(k, c) /\ w.status[c.loc] \in {"schema", "alien"}
    <2>1. failing <=> faulty
      BY <1>9 DEF Outcome, MisplacedImport, Followed, Readable, Compatible
    <2> QED BY <2>1, <1>2, <1>a
  <1> QED
    BY <1>4, <1>5, <1>6, <1>7, <1>8, <1>9 DEF Followed, Status

-----------------------------------------------------------------------------
(* A document's compositions are records of its set of documents.          *)
LEMMA WorldFacts ==
    ASSUME LoadTypeOK, NEW k \in Key
    PROVE  /\ UriOf(k) \in Uri /\ CompCount(k) \in Nat
           /\ \A i \in 1..CompCount(k) : Comp(k, i) \in CompositionRecord
           /\ DOMAIN world.comps[UriOf(k)] = 1..CompCount(k)
           /\ world.status[UriOf(k)] \in Status
  <1>1. UriOf(k) \in Uri /\ IsDocSet(world)
    BY DEF LoadTypeOK, Key, UriOf
  <1>2. world.comps[UriOf(k)] \in Seq(CompositionRecord) /\ world.status \in [Uri -> Status]
    BY <1>1, DocSetsAssumption DEF IsDocSet
  <1> QED
    BY <1>1, <1>2 DEF CompCount, Comp

(* tree() keeps the count of resolver calls at one per cached URI.         *)
LEMMA TreeOnce ==
    ASSUME NEW u \in Uri, fetches \in [Uri -> Nat], trees \subseteq Uri, FetchCounts, Tree(u)
    PROVE  FetchCounts' /\ fetches' \in [Uri -> Nat] /\ trees' \subseteq Uri
  BY DEF FetchCounts, Tree

(* instance() on a new key: it is recorded once, in every table.           *)
LEMMA CreateOnce ==
    ASSUME LoadInv, NEW k \in Key, ~Known(k), Create(k), world' = world
    PROVE  /\ docs' = docs \cup {k} /\ docs' \subseteq Key
           /\ reports' \in [Uri -> Nat] /\ ReportedOnce'
           /\ order' \in Seq(Key) /\ OrderIsDocs'
           /\ stack' \in Seq(Key) /\ StackOfDocs'
           /\ \A i \in 1..Len(stack) : i \in 1..Len(stack') /\ stack'[i] = stack[i]
           /\ IsDoc(k) => \E i \in 1..Len(stack') : stack'[i] = k
  <1>1. /\ docs \subseteq Key /\ reports \in [Uri -> Nat] /\ order \in Seq(Key)
        /\ stack \in Seq(Key) /\ UriOf(k) \in Uri
    BY DEF LoadInv, LoadTypeOK, Key, UriOf
  <1>2. docs' = docs \cup {k} /\ k \notin docs /\ docs' \subseteq Key
    BY <1>1 DEF Create, Known
  <1>3. reports' \in [Uri -> Nat] /\ ReportedOnce'
    <2>1. reports' = IF \E j \in docs : UriOf(j) = UriOf(k) THEN reports
                     ELSE [reports EXCEPT ![UriOf(k)] = @ + 1]
      BY DEF Create, Reports
    <2>2. \A u \in Uri : reports[u] = IF \E j \in docs : UriOf(j) = u THEN 1 ELSE 0
      BY DEF LoadInv, ReportedOnce
    <2>3. reports' \in [Uri -> Nat]
      BY <1>1, <2>1
    <2>4. ASSUME NEW u \in Uri
          PROVE  reports'[u] = IF \E j \in docs' : UriOf(j) = u THEN 1 ELSE 0
      <3>1. CASE u = UriOf(k)
        BY <1>1, <1>2, <2>1, <2>2, <3>1
      <3>2. CASE u # UriOf(k)
        BY <1>1, <1>2, <2>1, <2>2, <3>2
      <3> QED BY <3>1, <3>2
    <2> QED BY <2>3, <2>4 DEF ReportedOnce
  <1>4. CASE IsDoc(k)
    <2>1. order' = Append(order, k) /\ stack' = Append(stack, k)
      BY <1>4 DEF Create
    <2>2. IsInjective(order) /\ ToSet(order) = {j \in docs : IsDoc(j)}
      BY DEF LoadInv, OrderIsDocs
    <2>3. \A i \in 1..Len(order) : order[i] # k
      BY <1>1, <1>2, <2>2 DEF ToSet
    <2>4. IsInjective(order')
      BY <1>1, <2>1, <2>2, <2>3 DEF IsInjective
    <2>5. ToSet(order') = ToSet(order) \cup {k}
      <3>1. /\ DOMAIN order = 1..Len(order) /\ DOMAIN order' = 1..(Len(order) + 1)
            /\ \A i \in 1..Len(order) : order'[i] = order[i]
            /\ order'[Len(order) + 1] = k /\ Len(order) \in Nat
        BY <1>1, <2>1
      <3>2. ASSUME NEW j \in ToSet(order') PROVE j \in ToSet(order) \cup {k}
        BY <3>1 DEF ToSet
      <3>3. ASSUME NEW j \in ToSet(order) PROVE j \in ToSet(order')
        BY <3>1 DEF ToSet
      <3>4. k \in ToSet(order')
        BY <3>1 DEF ToSet
      <3> QED BY <3>2, <3>3, <3>4
    <2>6. ToSet(order') = {j \in docs' : IsDoc(j)'}
      BY <1>2, <1>4, <2>2, <2>5 DEF IsDoc
    <2>7. order' \in Seq(Key) /\ stack' \in Seq(Key)
      BY <1>1, <2>1
    <2>8. Len(stack') = Len(stack) + 1 /\ stack'[Len(stack) + 1] = k
          /\ \A i \in 1..Len(stack) : stack'[i] = stack[i]
      BY <1>1, <2>1
    <2>9. StackOfDocs'
      BY <1>1, <1>2, <1>4, <2>8 DEF StackOfDocs, LoadInv, IsDoc
    <2> QED BY <1>1, <1>2, <1>3, <2>4, <2>6, <2>7, <2>8, <2>9 DEF OrderIsDocs
  <1>5. CASE ~IsDoc(k)
    <2>1. order' = order /\ stack' = stack
      BY <1>5 DEF Create
    <2>2. OrderIsDocs'
      BY <1>2, <1>5, <2>1 DEF LoadInv, OrderIsDocs, IsDoc
    <2>3. StackOfDocs'
      BY <1>2, <2>1 DEF LoadInv, StackOfDocs, IsDoc
    <2> QED BY <1>1, <1>2, <1>3, <1>5, <2>1, <2>2, <2>3
  <1> QED BY <1>4, <1>5

(* The tail of compose() leaves targets a sequence of documents each.      *)
LEMMA LinkTypes ==
    ASSUME LoadTypeOK, NEW k \in Key, NEW c, NEW t \in Key, Link(k, c, t)
    PROVE  targets' \in [Key -> Seq(Key)]
  <1>1. targets \in [Key -> Seq(Key)]
    BY DEF LoadTypeOK
  <1>2. targets' = targets \/ targets' = [targets EXCEPT ![k] = Append(@, t)]
    BY DEF Link, linkVars
  <1>3. Append(targets[k], t) \in Seq(Key)
    BY <1>1
  <1> QED BY <1>1, <1>2, <1>3
-----------------------------------------------------------------------------
(* Nothing is loaded at first.                                             *)
LEMMA InvInit == LoadInit => LoadInv
  <1> SUFFICES ASSUME LoadInit PROVE LoadInv
    OBVIOUS
  <1> USE DEF LoadInit
  <1>1. LoadTypeOK
    <2>1. IsDocSet(world)
      BY DocSetsAssumption
    <2>2. 0 \in 0..Len(world.roots)
      BY <2>1 DEF IsDocSet
    <2>3. << >> \in Seq(Key)
      OBVIOUS
    <2> QED BY <2>1, <2>2, <2>3 DEF LoadTypeOK
  <1>2. FetchCounts /\ ReportedOnce /\ StackOfDocs /\ FinishedOrOpen /\ TargetsCreated /\ RootsCreated
        /\ NothingElse /\ LoadedIsIdle
    BY DEF FetchCounts, ReportedOnce, StackOfDocs, FinishedOrOpen, TargetsCreated, RootsCreated,
           NothingElse, LoadedIsIdle
  <1>3. OrderIsDocs
    BY DEF OrderIsDocs, IsInjective, ToSet
  <1>4. NextInBounds
    BY <1>1, WorldFacts DEF NextInBounds
  <1>5. FaultsSoFar
    BY DEF FaultsSoFar
  <1> QED BY <1>1, <1>2, <1>3, <1>4, <1>5 DEF LoadInv

(* Creating a document while no composition is advanced.                   *)
LEMMA CreateKeeps ==
    ASSUME LoadInv, NEW k \in Key, ~Known(k), Create(k), UNCHANGED <<world, next, failures>>
    PROVE  FinishedOrOpen' /\ TargetsCreated' /\ FaultsSoFar' /\ NextInBounds'
  <1>1. /\ docs' = docs \cup {k} /\ k \notin docs /\ next[k] = 0 /\ docs \subseteq Key
        /\ \A i \in 1..Len(stack) : i \in 1..Len(stack') /\ stack'[i] = stack[i]
        /\ IsDoc(k) => \E i \in 1..Len(stack') : stack'[i] = k
    BY CreateOnce DEF Known, LoadInv, NextInBounds, LoadTypeOK
  <1>2. FinishedOrOpen'
    <2> SUFFICES ASSUME NEW j \in docs', IsDoc(j)
                 PROVE  next[j] = CompCount(j) \/ \E i \in 1..Len(stack') : stack'[i] = j
      BY DEF FinishedOrOpen, IsDoc, CompCount
    <2>1. CASE j = k
      BY <1>1, <2>1
    <2>2. CASE j \in docs
      BY <1>1, <2>2 DEF LoadInv, FinishedOrOpen
    <2> QED BY <1>1, <2>1, <2>2
  <1>3. TargetsCreated'
    <2> SUFFICES ASSUME NEW j \in docs', IsDoc(j), NEW i \in 1..next[j],
                        Outcome(world, j, Comp(j, i)) = "load"
                 PROVE  TargetOf(world, j, Comp(j, i)) \in docs'
      BY DEF TargetsCreated, IsDoc, Comp
    <2>1. j \in docs
      BY <1>1
    <2> QED BY <1>1, <2>1 DEF LoadInv, TargetsCreated
  <1>4. FaultsSoFar'
    <2> SUFFICES ASSUME NEW j \in Key, NEW i \in 1..CompCount(j)
                 PROVE  <<j, i>> \in failures <=>
                           j \in docs' /\ IsDoc(j) /\ i <= next[j] /\ Outcome(world, j, Comp(j, i)) = "error"
      BY DEF FaultsSoFar, IsDoc, Comp, CompCount
    <2>1. <<j, i>> \in failures <=>
             j \in docs /\ IsDoc(j) /\ i <= next[j] /\ Outcome(world, j, Comp(j, i)) = "error"
      BY DEF LoadInv, FaultsSoFar
    <2>2. j = k => ~(i <= next[j])
      BY <1>1
    <2> QED BY <1>1, <2>1, <2>2
  <1>5. NextInBounds'
    BY <1>1 DEF LoadInv, NextInBounds, IsDoc, CompCount
  <1> QED BY <1>2, <1>3, <1>4, <1>5

(* loadRoot() keeps the invariant, loadable or not, met before or not.     *)
LEMMA InvLoadRoot == LoadInv /\ LoadRoot => LoadInv'
  <1> SUFFICES ASSUME LoadInv, LoadRoot PROVE LoadInv'
    OBVIOUS
  <1> DEFINE u == world.roots[root + 1]
             k == ReadAs(u, world.tns[u])
  <1>1. /\ world' = world /\ next' = next /\ failures' = failures /\ targets' = targets
        /\ stack = << >> /\ phase = "load" /\ Tree(u) /\ root < Len(world.roots)
    BY DEF LoadRoot, linkVars
  <1>2. u \in Uri /\ k \in Key /\ root + 1 \in 1..Len(world.roots) /\ root \in Nat
    <2>1. IsDocSet(world) /\ root \in 0..Len(world.roots)
      BY DEF LoadInv, LoadTypeOK
    <2>2. world.roots \in Seq(Uri) /\ world.tns \in [Uri -> Tns]
      BY ONLY <2>1 DEF IsDocSet
    <2>3. root \in Nat /\ Len(world.roots) \in Nat
      BY ONLY <2>1, <2>2
    <2>4. root + 1 \in 1..Len(world.roots)
      BY ONLY <1>1, <2>3
    <2>5. u \in Uri
      BY ONLY <2>2, <2>4 DEF u
    <2>6. world.tns[u] \in Tns
      BY ONLY <2>2, <2>5
    <2>7. k \in Key
      BY ONLY <2>5, <2>6 DEF k, ReadAs, Key
    <2> QED BY ONLY <2>3, <2>4, <2>5, <2>7
  <1>3. FetchCounts' /\ fetches' \in [Uri -> Nat] /\ trees' \subseteq Uri
    BY <1>1, <1>2, TreeOnce DEF LoadInv, LoadTypeOK
  <1>4. CASE phase' = "failed" /\ UNCHANGED <<root, stack, docs, reports, order>>
    <2>1. LoadTypeOK'
      BY <1>1, <1>3, <1>4 DEF LoadInv, LoadTypeOK
    <2>2. /\ ReportedOnce' /\ OrderIsDocs' /\ StackOfDocs' /\ NextInBounds' /\ FinishedOrOpen'
          /\ TargetsCreated' /\ RootsCreated' /\ FaultsSoFar' /\ NothingElse' /\ LoadedIsIdle'
      BY <1>1, <1>4 DEF LoadInv, ReportedOnce, OrderIsDocs, StackOfDocs, NextInBounds, FinishedOrOpen,
         TargetsCreated, RootsCreated, FaultsSoFar, NothingElse, LoadedIsIdle, IsDoc, Comp, CompCount,
         ClosedUnderComposition
    <2> QED BY <1>3, <2>1, <2>2 DEF LoadInv
  <1>5. CASE root' = root + 1 /\ phase' = phase /\ Known(k) /\ UNCHANGED <<stack, docs, reports, order>>
    <2>1. LoadTypeOK'
      <3>1. LoadTypeOK
        BY DEF LoadInv
      <3>2. root' \in 0..Len(world.roots)
        BY ONLY <1>2, <1>5
      <3>3. phase' \in {"load", "failed", "loaded"}
        BY ONLY <1>1, <1>5
      <3> HIDE DEF u, k
      <3> QED BY ONLY <1>1, <1>3, <1>5, <3>1, <3>2, <3>3 DEF LoadTypeOK
    <2>2. /\ ReportedOnce' /\ OrderIsDocs' /\ StackOfDocs' /\ NextInBounds' /\ FinishedOrOpen'
          /\ TargetsCreated' /\ FaultsSoFar' /\ NothingElse' /\ LoadedIsIdle'
      BY <1>1, <1>5 DEF LoadInv, ReportedOnce, OrderIsDocs, StackOfDocs, NextInBounds, FinishedOrOpen,
         TargetsCreated, FaultsSoFar, NothingElse, LoadedIsIdle, IsDoc, Comp, CompCount,
         ClosedUnderComposition
    <2>3. RootsCreated'
      BY <1>1, <1>2, <1>5 DEF LoadInv, RootsCreated, Known
    <2> QED BY <1>3, <2>1, <2>2, <2>3 DEF LoadInv
  <1>6. CASE root' = root + 1 /\ phase' = phase /\ ~Known(k) /\ Create(k)
    <2>1. /\ docs' = docs \cup {k} /\ docs' \subseteq Key
          /\ reports' \in [Uri -> Nat] /\ ReportedOnce' /\ order' \in Seq(Key) /\ OrderIsDocs'
          /\ stack' \in Seq(Key) /\ StackOfDocs'
      <3> HIDE DEF k
      <3> QED BY <1>1, <1>2, <1>6, CreateOnce
    <2>2. FinishedOrOpen' /\ TargetsCreated' /\ FaultsSoFar' /\ NextInBounds'
      <3> HIDE DEF k
      <3> QED BY <1>1, <1>2, <1>6, CreateKeeps
    <2>3. LoadTypeOK'
      <3>1. root' \in 0..Len(world.roots)
        BY <1>2, <1>6
      <3>2. phase' \in {"load", "failed", "loaded"}
        BY <1>6 DEF LoadInv, LoadTypeOK
      <3> HIDE DEF k
      <3> QED BY <1>1, <1>3, <2>1, <3>1, <3>2 DEF LoadInv, LoadTypeOK
    <2>4. RootsCreated'
      BY <1>1, <1>2, <1>6, <2>1 DEF LoadInv, RootsCreated
    <2>5. LoadedIsIdle'
      BY <1>1, <1>6 DEF LoadedIsIdle
    <2>6. NothingElse'
      <3> SUFFICES ASSUME NEW S \in SUBSET Key, ClosedUnderComposition(S)
                   PROVE  docs' \subseteq S
        BY <1>1 DEF NothingElse, ClosedUnderComposition
      <3>1. docs \subseteq S
        BY DEF LoadInv, NothingElse
      <3>2. k \in S
        <4>1. world.roots \in Seq(Uri) /\ root + 1 \in 1..Len(world.roots)
          BY <1>2 DEF LoadInv, LoadTypeOK, IsDocSet
        <4> QED BY <4>1 DEF ClosedUnderComposition
      <3> QED BY <2>1, <3>1, <3>2
    <2> QED BY <1>3, <2>1, <2>2, <2>3, <2>4, <2>5, <2>6 DEF LoadInv
  <1> QED
    BY <1>4, <1>5, <1>6 DEF LoadRoot

(* Going on to finish() keeps the invariant.                               *)
LEMMA InvLoaded == LoadInv /\ Loaded => LoadInv'
  <1> SUFFICES ASSUME LoadInv, Loaded PROVE LoadInv'
    OBVIOUS
  <1>1. /\ UNCHANGED <<world, root, stack, next, fetches, trees, docs, reports, order, targets, failures>>
        /\ phase' = "loaded" /\ stack = << >> /\ root = Len(world.roots)
    BY DEF Loaded, stackVars, treeVars, linkVars
  <1>2. LoadTypeOK' /\ FetchCounts' /\ ReportedOnce' /\ OrderIsDocs' /\ LoadedIsIdle'
    BY <1>1 DEF LoadInv, LoadTypeOK, FetchCounts, ReportedOnce, OrderIsDocs, LoadedIsIdle, IsDoc
  <1>3. /\ StackOfDocs' /\ NextInBounds' /\ FinishedOrOpen' /\ TargetsCreated' /\ RootsCreated'
        /\ FaultsSoFar' /\ NothingElse'
    BY <1>1 DEF LoadInv, StackOfDocs, NextInBounds, FinishedOrOpen, TargetsCreated, RootsCreated,
       FaultsSoFar, NothingElse, IsDoc, Comp, CompCount, ClosedUnderComposition
  <1> QED BY <1>2, <1>3 DEF LoadInv
(* Only a finished document returns, so none is lost from the stack.       *)
LEMMA InvReturn == LoadInv /\ Return => LoadInv'
  <1> SUFFICES ASSUME LoadInv, Return PROVE LoadInv'
    OBVIOUS
  <1> USE DEF LoadInv
  <1>1. /\ UNCHANGED <<world, phase, root, next, fetches, trees, docs, reports, order, failures>>
        /\ stack # << >> /\ stack' = SubSeq(stack, 1, Len(stack) - 1) /\ phase = "load"
        /\ next[Top] = CompCount(Top)
    BY DEF Return, treeVars, CompCount
  <1>2. /\ stack \in Seq(Key) /\ Len(stack) \in Nat \ {0} /\ Top \in Key
    BY <1>1 DEF LoadTypeOK, Top
  <1>3. /\ stack' \in Seq(Key) /\ Len(stack') = Len(stack) - 1
        /\ \A i \in 1..Len(stack') : stack'[i] = stack[i]
    <2> DEFINE n == Len(stack) - 1
    <2>1. n \in Nat /\ \A i \in 1..n : stack[i] \in Key
      BY <1>2
    <2> HIDE DEF n
    <2>2. /\ SubSeq(stack, 1, n) \in Seq(Key)
          /\ Len(SubSeq(stack, 1, n)) = IF 1 <= n THEN n - 1 + 1 ELSE 0
          /\ \A i \in 1..n - 1 + 1 : SubSeq(stack, 1, n)[i] = stack[1 + i - 1]
      BY <2>1, SubSeqProperties
    <2>3. Len(SubSeq(stack, 1, n)) = n /\ \A i \in 1..n : SubSeq(stack, 1, n)[i] = stack[i]
      BY <2>1, <2>2
    <2> QED BY <1>1, <2>2, <2>3 DEF n
  <1>4. targets' \in [Key -> Seq(Key)]
    <2>1. CASE Len(stack) = 1
      BY <2>1 DEF Return, linkVars, LoadTypeOK
    <2>2. CASE Len(stack) # 1
      <3> DEFINE k == stack[Len(stack) - 1]
                 c == world.comps[UriOf(k)][next[k]]
      <3>1. Link(k, c, Top)
        BY <2>2 DEF Return
      <3>2. k \in Key
        <4>1. \A n \in Nat \ {0} : n # 1 => n - 1 \in 1..n
          OBVIOUS
        <4>2. Len(stack) - 1 \in 1..Len(stack)
          BY <1>2, <2>2, <4>1
        <4> QED BY <1>2, <4>2
      <3> HIDE DEF k, c
      <3> QED BY <1>2, <3>1, <3>2, LinkTypes
    <2> QED BY <2>1, <2>2
  <1>5. LoadTypeOK'
    BY <1>1, <1>3, <1>4 DEF LoadTypeOK
  <1>6. FetchCounts' /\ ReportedOnce' /\ OrderIsDocs' /\ LoadedIsIdle'
    BY <1>1 DEF FetchCounts, ReportedOnce, OrderIsDocs, LoadedIsIdle, IsDoc
  <1>7. /\ NextInBounds' /\ TargetsCreated' /\ RootsCreated' /\ FaultsSoFar' /\ NothingElse'
    BY <1>1 DEF NextInBounds, TargetsCreated, RootsCreated, FaultsSoFar, NothingElse, IsDoc, Comp,
       CompCount, ClosedUnderComposition
  <1>8. StackOfDocs'
    BY <1>1, <1>2, <1>3 DEF StackOfDocs, IsDoc
  <1>9. FinishedOrOpen'
    <2> SUFFICES ASSUME NEW j \in docs, IsDoc(j), next[j] # CompCount(j)
                 PROVE  \E i \in 1..Len(stack') : stack'[i] = j
      BY <1>1 DEF FinishedOrOpen, IsDoc, CompCount
    <2>1. PICK i \in 1..Len(stack) : stack[i] = j
      BY DEF FinishedOrOpen
    <2>2. i # Len(stack)
      BY <1>1, <2>1 DEF Top
    <2> QED BY <1>2, <1>3, <2>1, <2>2
  <1> QED BY <1>5, <1>6, <1>7, <1>8, <1>9
(* The composition at hand, whatever becomes of it: its target is in docs' *)
(* if it is to be loaded, and nothing but its target is new.               *)
LEMMA ComposeFacts ==
    ASSUME LoadInv, Compose
    PROVE  LET i == next[Top] + 1
               c == Comp(Top, i)
               t == TargetOf(world, Top, c)
               load == Outcome(world, Top, c) = "load"
           IN  /\ Top \in docs /\ Top \in Key /\ IsDoc(Top) /\ stack # << >> /\ phase = "load"
               /\ i \in 1..CompCount(Top) /\ next' = [next EXCEPT ![Top] = i]
               /\ UNCHANGED <<world, phase, root>>
               /\ failures' = IF Outcome(world, Top, c) = "error"
                              THEN failures \cup {<<Top, i>>} ELSE failures
               /\ load => t \in docs' /\ t \in Key /\ ComposesIn(world, Top, t)
               /\ docs' = IF load THEN docs \cup {t} ELSE docs
               /\ IF load /\ ~Known(t) THEN Create(t)
                  ELSE UNCHANGED <<stack, docs, reports, order>>
  <1> DEFINE i == next[Top] + 1
             c == Comp(Top, i)
             t == TargetOf(world, Top, c)
             load == Outcome(world, Top, c) = "load"
  <1> USE DEF LoadInv
  <1>1. stack # << >> /\ phase = "load" /\ UNCHANGED <<world, phase, root>> /\ next[Top] < CompCount(Top)
    BY DEF Compose, CompCount
  <1>2. Top \in docs /\ Top \in Key /\ IsDoc(Top)
    BY <1>1 DEF Top, StackOfDocs, LoadTypeOK
  <1>3. i \in 1..CompCount(Top)
    <2>1. next[Top] \in Nat /\ CompCount(Top) \in Nat
      BY <1>2, WorldFacts DEF LoadTypeOK
    <2> QED BY <1>1, <2>1
  <1>4. /\ next' = [next EXCEPT ![Top] = i]
        /\ failures' = IF Outcome(world, Top, c) = "error" THEN failures \cup {<<Top, i>>} ELSE failures
        /\ IF load /\ ~Known(t) THEN Create(t) ELSE UNCHANGED <<stack, docs, reports, order>>
    <2>1. next' = [next EXCEPT ![Top] = next[Top] + 1]
      BY <1>2 DEF Compose, Advance, LoadTypeOK
    <2> QED BY <2>1 DEF Compose, Comp, Fault
  <1>5. load => t \in Key /\ ComposesIn(world, Top, t)
    <2> SUFFICES ASSUME load PROVE t \in Key /\ ComposesIn(world, Top, t)
      OBVIOUS
    <2>1. IsDocSet(world) /\ world.status[UriOf(Top)] = "schema"
          /\ i \in 1..Len(world.comps[UriOf(Top)])
      BY <1>2, <1>3 DEF LoadTypeOK, IsDoc, CompCount
    <2> QED BY <1>2, <2>1, LoadIsComposition DEF Comp
  <1>6. docs' = IF load THEN docs \cup {t} ELSE docs
    <2> HIDE DEF t, load
    <2> QED BY <1>4 DEF Create, Known
  <1> HIDE DEF load
  <1> QED BY <1>1, <1>2, <1>3, <1>4, <1>5, <1>6 DEF load
(* compose() keeps the invariant, whatever the composition asks for.       *)
LEMMA InvCompose == LoadInv /\ Compose => LoadInv'
  <1> SUFFICES ASSUME LoadInv, Compose PROVE LoadInv'
    OBVIOUS
  <1> DEFINE k == Top
             i == next[Top] + 1
             c == Comp(k, i)
             t == TargetOf(world, k, c)
             load == Outcome(world, k, c) = "load"
             error == Outcome(world, k, c) = "error"
  <1>1. /\ k \in docs /\ k \in Key /\ IsDoc(k) /\ stack # << >> /\ phase = "load"
        /\ i \in 1..CompCount(k) /\ next' = [next EXCEPT ![k] = i]
        /\ UNCHANGED <<world, phase, root>>
        /\ failures' = IF error THEN failures \cup {<<k, i>>} ELSE failures
        /\ load => t \in docs' /\ t \in Key /\ ComposesIn(world, k, t)
        /\ docs' = IF load THEN docs \cup {t} ELSE docs
        /\ IF load /\ ~Known(t) THEN Create(t) ELSE UNCHANGED <<stack, docs, reports, order>>
    BY ComposeFacts
  <1>2. FetchCounts' /\ fetches' \in [Uri -> Nat] /\ trees' \subseteq Uri
    <2>1. CASE Followed(k, c)
      <3>1. Tree(c.loc)
        BY <2>1 DEF Compose, Comp
      <3>2. c \in CompositionRecord
        BY <1>1, WorldFacts DEF LoadInv
      <3>3. c.loc \in Uri
        BY <2>1, <3>2 DEF CompositionRecord, Followed
      <3> QED BY <3>1, <3>3, TreeOnce DEF LoadInv, LoadTypeOK
    <2>2. CASE ~Followed(k, c)
      BY <2>2 DEF Compose, Comp, treeVars, LoadInv, LoadTypeOK, FetchCounts
    <2> QED BY <2>1, <2>2
  <1>3. targets' \in [Key -> Seq(Key)]
    <2>1. CASE load /\ Known(t)
      <3>1. Link(k, c, t)
        BY <2>1 DEF Compose, Comp
      <3> HIDE DEF c, t
      <3> QED BY <1>1, <2>1, <3>1, LinkTypes DEF LoadInv
    <2>2. CASE ~(load /\ Known(t))
      BY <2>2 DEF Compose, Comp, linkVars, LoadInv, LoadTypeOK
    <2> QED BY <2>1, <2>2
  <1>n. next \in [Key -> Nat] /\ docs \subseteq Key /\ stack \in Seq(Key) /\ i \in Nat \ {0}
    BY <1>1 DEF LoadInv, LoadTypeOK
  <1> HIDE DEF k, i, c, t, load, error
  <1>4. /\ docs' \subseteq Key /\ reports' \in [Uri -> Nat] /\ ReportedOnce' /\ order' \in Seq(Key)
        /\ OrderIsDocs' /\ stack' \in Seq(Key) /\ StackOfDocs'
        /\ \A m \in 1..Len(stack) : m \in 1..Len(stack') /\ stack'[m] = stack[m]
        /\ \A j \in docs' : j \notin docs /\ IsDoc(j) => \E m \in 1..Len(stack') : stack'[m] = j
    <2>1. CASE load /\ ~Known(t)
      BY <1>1, <2>1, CreateOnce
    <2>2. CASE ~(load /\ ~Known(t))
      BY <1>1, <2>2 DEF LoadInv, LoadTypeOK, ReportedOnce, OrderIsDocs, StackOfDocs, IsDoc
    <2> QED BY <2>1, <2>2
  <1>5. LoadTypeOK'
    <2>1. next' \in [Key -> Nat] /\ failures' \subseteq Key \X (Nat \ {0})
      <3>1. next' \in [Key -> Nat]
        BY <1>1, <1>n
      <3>2. failures \subseteq Key \X (Nat \ {0}) /\ k \in Key
        BY <1>1 DEF LoadInv, LoadTypeOK
      <3>3. failures' \subseteq Key \X (Nat \ {0})
        BY <1>1, <1>n, <3>2
      <3> QED  BY <3>1, <3>3
    <2> QED BY <1>1, <1>2, <1>3, <1>4, <2>1 DEF LoadInv, LoadTypeOK
  <1>6. \A j \in Key : j # k => next'[j] = next[j]
    BY <1>1, <1>n
  <1>7. next'[k] = i /\ next[k] = i - 1
    BY <1>1, <1>n DEF i, k
  <1>8. NextInBounds'
    <2> SUFFICES ASSUME NEW j \in Key
                 PROVE  next'[j] <= CompCount(j) /\ (j \notin docs' \/ ~IsDoc(j) => next'[j] = 0)
      BY <1>1 DEF NextInBounds, IsDoc, CompCount
    <2>1. CASE j = k
      <3>1. k \in docs'
        BY <1>1
      <3> QED BY <1>1, <1>7, <2>1, <3>1
    <2>2. CASE j # k
      BY <1>1, <1>6, <2>2 DEF LoadInv, NextInBounds
    <2> QED BY <2>1, <2>2
  <1>9. \A j \in docs' : j \notin docs => next'[j] = 0
    BY <1>1, <1>4, <1>6 DEF LoadInv, NextInBounds
  <1>10. FinishedOrOpen'
    <2> SUFFICES ASSUME NEW j \in docs', IsDoc(j)
                 PROVE  next'[j] = CompCount(j) \/ \E m \in 1..Len(stack') : stack'[m] = j
      BY <1>1 DEF FinishedOrOpen, IsDoc, CompCount
    <2>1. CASE j = k
      <3>1. Len(stack) \in 1..Len(stack) /\ stack[Len(stack)] = k
        BY <1>1, <1>n DEF k, Top
      <3> QED BY <1>4, <2>1, <3>1
    <2>2. CASE j \notin docs
      BY <1>4, <2>2
    <2>3. CASE j \in docs /\ j # k
      BY <1>4, <1>6, <1>n, <2>3 DEF LoadInv, FinishedOrOpen
    <2> QED BY <2>1, <2>2, <2>3
  <1>11. TargetsCreated'
    <2> SUFFICES ASSUME NEW j \in docs', IsDoc(j), NEW m \in 1..next'[j],
                        Outcome(world, j, Comp(j, m)) = "load"
                 PROVE  TargetOf(world, j, Comp(j, m)) \in docs'
      BY <1>1 DEF TargetsCreated, IsDoc, Comp
    <2>1. j \in docs /\ j \in Key
      BY <1>4, <1>9
    <2>2. CASE j = k /\ m = i
      BY <1>1, <2>2 DEF c, t, load
    <2>3. CASE ~(j = k /\ m = i)
      <3>1. m \in 1..next[j]
        BY <1>6, <1>7, <1>n, <2>1, <2>3
      <3>2. TargetOf(world, j, Comp(j, m)) \in docs
        BY <2>1, <3>1 DEF LoadInv, TargetsCreated
      <3> QED BY <1>1, <3>2
    <2> QED BY <2>2, <2>3
  <1>12. FaultsSoFar'
    <2> SUFFICES ASSUME NEW j \in Key, NEW m \in 1..CompCount(j)
                 PROVE  <<j, m>> \in failures' <=>
                           j \in docs' /\ IsDoc(j) /\ m <= next'[j] /\ Outcome(world, j, Comp(j, m)) = "error"
      BY <1>1 DEF FaultsSoFar, IsDoc, Comp, CompCount
    <2>1. <<j, m>> \in failures <=>
             j \in docs /\ IsDoc(j) /\ m <= next[j] /\ Outcome(world, j, Comp(j, m)) = "error"
      BY DEF LoadInv, FaultsSoFar
    <2>2. CASE j = k /\ m = i
      BY <1>1, <1>7, <1>n, <2>1, <2>2 DEF c, error
    <2>3. CASE ~(j = k /\ m = i)
      <3>1. <<j, m>> \in failures' <=> <<j, m>> \in failures
        BY <1>1, <2>3
      <3>2. CASE j = k
        <4>1. m <= next'[j] <=> m <= next[j]
          BY <1>7, <1>n, <2>3, <3>2
        <4> QED BY <1>1, <2>1, <3>1, <3>2, <4>1
      <3>3. CASE j # k /\ j \in docs
        BY <1>1, <1>6, <2>1, <3>1, <3>3
      <3>4. CASE j \notin docs
        <4>1. j \in docs' => ~(m <= next'[j])
          BY <1>9, <3>4
        <4> QED BY <2>1, <3>1, <3>4, <4>1
      <3> QED BY <3>2, <3>3, <3>4
    <2> QED BY <2>2, <2>3
  <1>13. NothingElse'
    <2> SUFFICES ASSUME NEW S \in SUBSET Key, ClosedUnderComposition(S)
                 PROVE  docs' \subseteq S
      BY <1>1 DEF NothingElse, ClosedUnderComposition
    <2>1. docs \subseteq S
      BY DEF LoadInv, NothingElse
    <2>2. load => t \in S
      BY <1>1, <2>1 DEF ClosedUnderComposition
    <2> QED BY <1>1, <2>1, <2>2
  <1>14. RootsCreated' /\ LoadedIsIdle'
    BY <1>1 DEF LoadInv, RootsCreated, LoadedIsIdle
  <1> QED
    BY <1>2, <1>4, <1>5, <1>8, <1>10, <1>11, <1>12, <1>13, <1>14 DEF LoadInv

-----------------------------------------------------------------------------
(* The documents created are finished or on the stack, and what they have  *)
(* composed so far is created: the inductive invariant of loading.         *)
THEOREM LoadInvariant == Spec => []LoadInv
  <1>1. LoadInv /\ [LoadNext]_loadVars => LoadInv'
    <2> SUFFICES ASSUME LoadInv, [LoadNext]_loadVars PROVE LoadInv'
      OBVIOUS
    <2>1. CASE LoadRoot
      BY <2>1, InvLoadRoot
    <2>2. CASE Compose
      BY <2>2, InvCompose
    <2>3. CASE Return
      BY <2>3, InvReturn
    <2>4. CASE Loaded
      BY <2>4, InvLoaded
    <2>5. CASE UNCHANGED loadVars
      <3>1. UNCHANGED <<world, phase, root, stack, next, fetches, trees, docs, reports, order, targets, failures>>
        BY <2>5 DEF loadVars, stackVars, treeVars, linkVars
      <3>2. LoadTypeOK' /\ FetchCounts' /\ ReportedOnce' /\ OrderIsDocs' /\ LoadedIsIdle'
        BY <3>1 DEF LoadInv, LoadTypeOK, FetchCounts, ReportedOnce, OrderIsDocs, LoadedIsIdle, IsDoc
      <3>3. /\ StackOfDocs' /\ NextInBounds' /\ FinishedOrOpen' /\ TargetsCreated' /\ RootsCreated'
            /\ FaultsSoFar' /\ NothingElse'
        BY <3>1 DEF LoadInv, StackOfDocs, NextInBounds, FinishedOrOpen, TargetsCreated, RootsCreated,
           FaultsSoFar, NothingElse, IsDoc, Comp, CompCount, ClosedUnderComposition
      <3> QED BY <3>2, <3>3 DEF LoadInv
    <2> QED BY <2>1, <2>2, <2>3, <2>4, <2>5 DEF LoadNext
  <1>2. [Next]_vars => [LoadNext]_loadVars
    BY DEF Next, vars
  <1>3. Init => LoadInv
    BY InvInit DEF Init
  <1> QED BY <1>1, <1>2, <1>3, PTL DEF Spec

(* loader.tree, loader.instance: whatever the documents, each is asked for  *)
(* at most once and has its errors reported exactly once.                  *)
THEOREM ReadsOnce == Spec => []ReadOnce
  <1>1. LoadInv => ReadOnce
    BY DEF LoadInv, FetchCounts, FetchedOnce, ReadOnce
  <1> QED BY <1>1, LoadInvariant, PTL

(* loader.order: whatever the documents, each is registered once.          *)
THEOREM RegistersOnce == Spec => []OrderIsDocs
  <1>1. LoadInv => OrderIsDocs
    BY DEF LoadInv
  <1> QED BY <1>1, LoadInvariant, PTL

(* instance(): the documents loaded are the least set that holds the entry *)
(* points and is closed under composition.                                 *)
THEOREM LoadsExactly == Spec => []LoadedExactly
  <1>1. LoadInv => NothingElseLoaded
    BY DEF LoadInv, LoadTypeOK, NothingElse, NothingElseLoaded
  <1>2. LoadInv => EverythingLoaded
    <2> SUFFICES ASSUME LoadInv, phase = "loaded" PROVE ClosedUnderComposition(docs)
      BY DEF EverythingLoaded
    <2>1. stack = << >> /\ root = Len(world.roots) /\ IsDocSet(world) /\ docs \subseteq Key
      BY DEF LoadInv, LoadedIsIdle, LoadTypeOK
    <2>2. ASSUME NEW i \in DOMAIN world.roots
          PROVE  ReadAs(world.roots[i], world.tns[world.roots[i]]) \in docs
      <3>1. i \in 1..root
        BY <2>1, DocSetsAssumption DEF IsDocSet
      <3> QED BY <3>1 DEF LoadInv, RootsCreated
    <2>3. ASSUME NEW k \in docs, NEW t \in Key, ComposesIn(world, k, t)
          PROVE  t \in docs
      <3>1. k \in Key /\ IsDoc(k)
        BY <2>1, <2>3 DEF ComposesIn, IsDoc
      <3>2. next[k] = CompCount(k)
        <4>1. Len(stack) = 0
          BY <2>1
        <4> QED BY <3>1, <4>1 DEF LoadInv, FinishedOrOpen
      <3>3. PICK i \in 1..Len(world.comps[UriOf(k)]) :
              /\ Outcome(world, k, world.comps[UriOf(k)][i]) = "load"
              /\ TargetOf(world, k, world.comps[UriOf(k)][i]) = t
        BY <2>1, <2>3, <3>1, CompositionIsLoad
      <3> QED BY <3>1, <3>2, <3>3 DEF LoadInv, TargetsCreated, Comp, CompCount
    <2> QED BY <2>2, <2>3 DEF ClosedUnderComposition
  <1>3. LoadInv => LoadedExactly
    BY <1>1, <1>2 DEF LoadedExactly
  <1> QED BY <1>3, LoadInvariant, PTL

(* compose(): the faults reported are those of the loaded documents.       *)
THEOREM ReportsExactly == Spec => []FaultsReported
  <1>1. LoadInv => FaultsReported
    <2> SUFFICES ASSUME LoadInv, phase = "loaded", NEW k \in Key, NEW i \in DOMAIN world.comps[UriOf(k)]
                 PROVE  <<k, i>> \in failures <=> k \in docs /\ IsDoc(k) /\ FaultyComposition(world, k, i)
      BY DEF FaultsReported
    <2>1. IsDocSet(world) /\ i \in 1..CompCount(k) /\ stack = << >> /\ Len(stack) = 0
      BY WorldFacts DEF LoadInv, LoadTypeOK, LoadedIsIdle
    <2>2. Outcome(world, k, Comp(k, i)) = "error" <=> FaultyComposition(world, k, i)
      BY <2>1, ErrorIsFault DEF Comp, CompCount
    <2>3. k \in docs /\ IsDoc(k) => next[k] = CompCount(k)
      BY <2>1 DEF LoadInv, FinishedOrOpen
    <2>4. k \in docs /\ IsDoc(k) => i <= next[k]
      BY <2>1, <2>3
    <2> QED BY <2>1, <2>2, <2>4 DEF LoadInv, FaultsSoFar
  <1> QED BY <1>1, LoadInvariant, PTL

-----------------------------------------------------------------------------
(* What a document composes in is a set of documents.                      *)
LEMMA TargetsTyped ==
    ASSUME LoadTypeOK, NEW k \in Key
    PROVE  targets[k] \in Seq(Key) /\ ToSet(targets[k]) \subseteq Key
<1>1. targets[k] \in Seq(Key)
  BY DEF LoadTypeOK
<1> QED  BY <1>1 DEF ToSet

(* k is start or composed in by it, directly or not.                       *)
LedTo(start, k) ==
    \A T \in SUBSET Key : start \in T /\ (\A x \in T : ToSet(targets[x]) \subseteq T) => k \in T

(* The documents suppress() visits are such documents.                     *)
LEMMA ClosureIsLedTo ==
    ASSUME LoadTypeOK, IsFiniteSet(docs), NEW start \in Key, NEW barred,
           NEW k \in Closure(start, barred)
    PROVE  k \in Key /\ k \notin barred /\ LedTo(start, k)
<1> DEFINE N == Cardinality(docs)
           D == SUBSET Key
           More(R) == R \cup ((UNION {ToSet(targets[x]) : x \in R}) \ barred)
           F == [R \in D |-> More(R)]
           Is(f) == f = [n \in 0..N |-> IF n = 0 THEN {start} \ barred ELSE More(f[n - 1])]
           Within == CHOOSE f : Is(f)
<1>1. N \in Nat
  BY FS_CardinalityType
<1>2. k \in Within[N]
  BY DEF Closure
<1> HIDE DEF N
<1>3. \A R \in D : More(R) \in D
  BY TargetsTyped
<1>4. \E f : Is(f)
  <2>1. F \in [D -> D] /\ {start} \ barred \in D
    BY <1>3
  <2> HIDE DEF D, F
  <2>2. PICK c : Iteration(c, D, F, {start} \ barred, N)
    BY <1>1, <2>1, Iterates
  <2>3. c \in [0..N -> D] /\ c[0] = {start} \ barred /\ \A n \in 1..N : c[n] = F[c[n - 1]]
    BY <2>2 DEF Iteration
  <2>4. ASSUME NEW n \in 0..N PROVE c[n] = IF n = 0 THEN {start} \ barred ELSE More(c[n - 1])
    <3>1. CASE n = 0
      BY <2>3, <3>1
    <3>2. CASE n # 0
      <4>1. n \in 1..N /\ n - 1 \in 0..N
        BY <1>1, <3>2
      <4>2. c[n] = F[c[n - 1]] /\ c[n - 1] \in D
        BY <2>3, <4>1
      <4> HIDE DEF More
      <4> QED  BY <3>2, <4>2 DEF F
    <3> QED  BY <3>1, <3>2
  <2> HIDE DEF More
  <2>5. Is(c)
    BY <2>3, <2>4
  <2> QED  BY <2>5
<1>5. Is(Within)
  <2> HIDE DEF Is
  <2> QED  BY <1>4
<1> HIDE DEF Within
<1>6. Within[0] = {start} \ barred
  BY <1>1, <1>5
<1>7. ASSUME NEW n \in Nat, n + 1 \in 0..N PROVE n \in 0..N /\ Within[n + 1] = More(Within[n])
  <2>1. n \in 0..N /\ n + 1 # 0 /\ (n + 1) - 1 = n
    BY <1>1, <1>7
  <2>2. Within[n + 1] = IF n + 1 = 0 THEN {start} \ barred ELSE More(Within[(n + 1) - 1])
    <3> HIDE DEF More
    <3> QED  BY <1>5, <1>7
  <2> HIDE DEF More
  <2> QED  BY <2>1, <2>2
<1>8. ASSUME NEW T \in SUBSET Key, start \in T, \A x \in T : ToSet(targets[x]) \subseteq T
      PROVE  k \in T \ barred
  <2> DEFINE S == {n \in Nat : n \in 0..N => Within[n] \subseteq T \ barred}
  <2>1. 0 \in S
    BY <1>6, <1>8
  <2>2. ASSUME NEW n \in Nat, n \in S PROVE n + 1 \in S
    <3> SUFFICES ASSUME n + 1 \in 0..N PROVE Within[n + 1] \subseteq T \ barred
      OBVIOUS
    <3>1. Within[n] \subseteq T \ barred /\ Within[n + 1] = More(Within[n])
      BY <1>7, <2>2
    <3>2. \A x \in Within[n] : ToSet(targets[x]) \subseteq T
      BY <3>1, <1>8
    <3> DEFINE U == UNION {ToSet(targets[x]) : x \in Within[n]}
    <3>3. U \subseteq T
      BY ONLY <3>2
    <3>4. Within[n + 1] = Within[n] \cup (U \ barred)
      BY ONLY <3>1
    <3> HIDE DEF U
    <3> QED  BY ONLY <3>1, <3>3, <3>4
  <2> HIDE DEF S
  <2>3. Nat \subseteq S
    BY <2>1, <2>2, InductionOnNat
  <2>4. N \in 0..N
    BY <1>1
  <2>5. Within[N] \subseteq T \ barred
    BY <1>1, <2>3, <2>4 DEF S
  <2> QED  BY <1>2, <2>5
<1>9. k \in Key \ barred
  BY <1>8, TargetsTyped
<1> QED  BY <1>8, <1>9 DEF LedTo

-----------------------------------------------------------------------------
(* findOriginal() as a function of what is still to be visited.            *)
At == Seq(Key) \X SUBSET Key

IsSearch(f, n) ==
    f = [at \in At |->
           LET pending == at[1]
               seen == at[2]
               k == Head(pending)
           IN  IF pending = << >> THEN None
               ELSE IF k \in seen THEN f[<<Tail(pending), seen>>]
               ELSE IF n \in Originals(k) THEN k
               ELSE f[<<targets[k] \o Tail(pending), seen \cup {k}>>]]

LEMMA SearchExists ==
    ASSUME LoadTypeOK, NEW n
    PROVE  \E f : IsSearch(f, n)
<1> DEFINE Hit(at) == at[1] = << >> \/ (Head(at[1]) \notin at[2] /\ n \in Originals(Head(at[1])))
           After(at) == IF Head(at[1]) \in at[2] THEN <<Tail(at[1]), at[2]>>
                        ELSE <<targets[Head(at[1])] \o Tail(at[1]), at[2] \cup {Head(at[1])}>>
           stop == {at \in At : Hit(at)}
           step == [at \in At \ stop |-> After(at)]
           value == [at \in At |-> IF at[1] = << >> THEN None ELSE Head(at[1])]
<1>1. ASSUME NEW at \in At, at[1] # << >> PROVE After(at) \in At
  <2>1. at[1] \in Seq(Key) /\ at[2] \subseteq Key
    BY DEF At
  <2>2. Head(at[1]) \in Key /\ Tail(at[1]) \in Seq(Key)
    BY <1>1, <2>1
  <2>3. targets[Head(at[1])] \o Tail(at[1]) \in Seq(Key)
    BY <2>2, TargetsTyped
  <2> QED  BY <2>1, <2>2, <2>3 DEF At
<1>2. step \in [At \ stop -> At] /\ stop \in SUBSET At
  BY <1>1
<1> HIDE DEF step
<1>3. PICK f : f = [at \in At |-> IF at \in stop THEN value[at] ELSE f[step[at]]]
  <2> HIDE DEF stop, value
  <2>1. stop \in SUBSET At /\ step \in [At \ stop -> At]
    BY <1>2
  <2> QED  BY ONLY <2>1, TailRecursion
<1>4. ASSUME NEW at \in At
      PROVE  f[at] = LET pending == at[1]
                         seen == at[2]
                         k == Head(pending)
                     IN  IF pending = << >> THEN None
                         ELSE IF k \in seen THEN f[<<Tail(pending), seen>>]
                         ELSE IF n \in Originals(k) THEN k
                         ELSE f[<<targets[k] \o Tail(pending), seen \cup {k}>>]
  <2>1. f[at] = IF at \in stop THEN value[at] ELSE f[step[at]]
    BY <1>3
  <2>2. at \notin stop => step[at] = After(at)
    BY DEF step
  <2>3. at \in stop <=> Hit(at)
    OBVIOUS
  <2> HIDE DEF stop
  <2> QED  BY <2>1, <2>2, <2>3
<1> HIDE DEF stop, value
<1>5. IsSearch(f, n)
  BY <1>3, <1>4 DEF IsSearch
<1> QED  BY <1>5

(* A search that finds nothing has been through everything the documents   *)
(* still to be visited lead to: T is what has been seen in the end.        *)
NothingIn(n, pending, seen) ==
    \E T \in SUBSET Key : /\ seen \subseteq T /\ ToSet(pending) \subseteq T
                          /\ \A x \in T \ seen : n \notin Originals(x) /\ ToSet(targets[x]) \subseteq T

Unseen(seen) == Cardinality(docs \ seen)

LEMMA SearchIsComplete ==
    ASSUME LoadTypeOK, IsFiniteSet(docs), \A k \in Key : ToSet(targets[k]) \subseteq docs,
           NEW n, NEW f, IsSearch(f, n)
    PROVE  \A pending \in Seq(docs), seen \in SUBSET docs :
              f[<<pending, seen>>] = None => NothingIn(n, pending, seen)
<1> DEFINE Q(m) == \A pending \in Seq(docs), seen \in SUBSET docs :
                      Unseen(seen) = m /\ f[<<pending, seen>>] = None => NothingIn(n, pending, seen)
           S == {m \in Nat : \A l \in 0..m : Q(l)}
<1>d. docs \subseteq Key /\ \A seen \in SUBSET docs : IsFiniteSet(docs \ seen) /\ Unseen(seen) \in Nat
  BY FS_Subset, FS_CardinalityType DEF LoadTypeOK, Unseen
<1>1. ASSUME NEW m \in Nat, \A l \in 0..(m - 1) : Q(l) PROVE Q(m)
  <2> DEFINE In(pending, seen) == Unseen(seen) = m /\ f[<<pending, seen>>] = None => NothingIn(n, pending, seen)
             L == {l \in Nat : \A pending \in Seq(docs), seen \in SUBSET docs : Len(pending) = l => In(pending, seen)}
  <2>1. 0 \in L
    <3> SUFFICES ASSUME NEW pending \in Seq(docs), NEW seen \in SUBSET docs, Len(pending) = 0
                 PROVE  NothingIn(n, pending, seen)
      OBVIOUS
    <3>1. ToSet(pending) = {}
      BY DEF ToSet
    <3> QED  BY <1>d, <3>1 DEF NothingIn
  <2>2. ASSUME NEW l \in Nat, l \in L PROVE l + 1 \in L
    <3> SUFFICES ASSUME NEW pending \in Seq(docs), NEW seen \in SUBSET docs, Len(pending) = l + 1,
                        Unseen(seen) = m, f[<<pending, seen>>] = None
                 PROVE  NothingIn(n, pending, seen)
      OBVIOUS
    <3> DEFINE k == Head(pending)
               rest == Tail(pending)
    <3>1. /\ pending # << >> /\ k \in docs /\ rest \in Seq(docs) /\ Len(rest) = l
          /\ ToSet(pending) = {k} \cup ToSet(rest)
      <4>1. pending # << >> /\ k \in docs /\ rest \in Seq(docs) /\ Len(rest) = l
        OBVIOUS
      <4>2. \A i \in 1..(l + 1) : i = 1 \/ i - 1 \in 1..l
        OBVIOUS
      <4>3. k = pending[1] /\ \A i \in 1..l : rest[i] = pending[i + 1]
        OBVIOUS
      <4>4. ToSet(pending) = {pending[i] : i \in 1..(l + 1)} /\ ToSet(rest) = {rest[i] : i \in 1..l}
        <5>1. DOMAIN pending = 1..(l + 1)
          OBVIOUS
        <5> HIDE DEF rest
        <5>2. DOMAIN rest = 1..l
          BY <4>1
        <5> QED  BY ONLY <5>1, <5>2 DEF ToSet
      <4> HIDE DEF k, rest
      <4>5. ToSet(pending) \subseteq {k} \cup ToSet(rest)
        <5> SUFFICES ASSUME NEW i \in 1..(l + 1), i # 1 PROVE pending[i] \in ToSet(rest)
          BY <4>3, <4>4
        <5>1. i - 1 \in 1..l /\ rest[i - 1] = pending[(i - 1) + 1] /\ (i - 1) + 1 = i
          BY <4>2, <4>3
        <5> QED  BY <4>4, <5>1
      <4>6. {k} \cup ToSet(rest) \subseteq ToSet(pending)
        <5>1. 1 \in 1..(l + 1) /\ \A i \in 1..l : i + 1 \in 1..(l + 1)
          OBVIOUS
        <5> QED  BY <4>3, <4>4, <5>1
      <4> QED  BY <4>1, <4>5, <4>6
    <3>2. <<pending, seen>> \in At
      BY <1>d DEF At
    <3>3. None = IF k \in seen THEN f[<<rest, seen>>]
                 ELSE IF n \in Originals(k) THEN k
                 ELSE f[<<targets[k] \o rest, seen \cup {k}>>]
      BY <3>1, <3>2 DEF IsSearch
    <3> HIDE DEF k, rest
    <3>4. CASE k \in seen
      <4>1. NothingIn(n, rest, seen)
        BY <2>2, <3>1, <3>3, <3>4
      <4> QED  BY <3>1, <3>4, <4>1 DEF NothingIn
    <3>5. CASE k \notin seen
      <4>1. k # None
        BY <1>d, <3>1, NoneAssumption
      <4>2. n \notin Originals(k) /\ f[<<targets[k] \o rest, seen \cup {k}>>] = None
        BY <3>3, <3>5, <4>1
      <4> DEFINE later == targets[k] \o rest
      <4>3. later \in Seq(docs) /\ ToSet(later) = ToSet(targets[k]) \cup ToSet(rest)
        <5>1. targets[k] \in Seq(Key) /\ ToSet(targets[k]) \subseteq docs
          BY <1>d, <3>1, TargetsTyped
        <5>2. targets[k] \in Seq(docs)
          BY <5>1 DEF ToSet
        <5> DEFINE a == targets[k]
        <5>3. a \in Seq(docs) /\ rest \in Seq(docs)
          BY <5>2, <3>1
        <5> HIDE DEF a
        <5>4. /\ a \o rest \in Seq(docs) /\ Len(a \o rest) = Len(a) + Len(rest)
              /\ \A i \in 1..(Len(a) + Len(rest)) : (a \o rest)[i] = IF i <= Len(a) THEN a[i] ELSE rest[i - Len(a)]
          BY <5>3
        <5>5. Len(a) \in Nat /\ Len(rest) \in Nat
          BY <5>3
        <5>6. ToSet(a \o rest) = {(a \o rest)[i] : i \in 1..(Len(a) + Len(rest))}
          <6>1. DOMAIN (a \o rest) = 1..(Len(a) + Len(rest))
            BY <5>4
          <6> QED  BY <6>1 DEF ToSet
        <5>7. ToSet(a) = {a[i] : i \in 1..Len(a)} /\ ToSet(rest) = {rest[i] : i \in 1..Len(rest)}
          BY <5>3 DEF ToSet
        <5>8. ToSet(a \o rest) \subseteq ToSet(a) \cup ToSet(rest)
          BY <5>4, <5>5, <5>6, <5>7
        <5>9. \A i \in 1..Len(a) : i \in 1..(Len(a) + Len(rest)) /\ (a \o rest)[i] = a[i]
          BY <5>4, <5>5
        <5>10. \A i \in 1..Len(rest) : Len(a) + i \in 1..(Len(a) + Len(rest)) /\ (a \o rest)[Len(a) + i] = rest[i]
          BY <5>4, <5>5
        <5>11. ToSet(a) \cup ToSet(rest) \subseteq ToSet(a \o rest)
          BY <5>6, <5>7, <5>9, <5>10
        <5> QED  BY <5>4, <5>8, <5>11 DEF a
      <4> HIDE DEF later
      <4>4. Unseen(seen \cup {k}) \in 0..(m - 1)
        <5>1. docs \ (seen \cup {k}) = (docs \ seen) \ {k} /\ k \in docs \ seen
          BY <3>1, <3>5
        <5>2. Unseen(seen \cup {k}) = m - 1
          <6>1. IsFiniteSet(docs \ seen) /\ Cardinality(docs \ seen) = m
            BY <1>d DEF Unseen
          <6>2. Cardinality((docs \ seen) \ {k}) = Cardinality(docs \ seen) - 1
            BY ONLY <5>1, <6>1, FS_RemoveElement
          <6> QED  BY <5>1, <6>1, <6>2 DEF Unseen
        <5>3. Unseen(seen \cup {k}) \in Nat
          BY <1>d, <3>1
        <5> QED  BY <5>2, <5>3
      <4>5. NothingIn(n, later, seen \cup {k})
        BY <1>1, <3>1, <4>2, <4>3, <4>4 DEF later
      <4>6. PICK T \in SUBSET Key :
              /\ seen \cup {k} \subseteq T /\ ToSet(later) \subseteq T
              /\ \A x \in T \ (seen \cup {k}) : n \notin Originals(x) /\ ToSet(targets[x]) \subseteq T
        BY <4>5 DEF NothingIn
      <4> QED  BY <3>1, <4>2, <4>3, <4>6 DEF NothingIn
    <3> QED  BY <3>4, <3>5
  <2> HIDE DEF L, In
  <2>3. Nat \subseteq L
    BY <2>1, <2>2, InductionOnNat
  <2>4. \A pending \in Seq(docs), seen \in SUBSET docs : Len(pending) \in Nat /\ In(pending, seen)
    BY <2>3 DEF L
  <2> QED  BY <2>4 DEF In
<1> HIDE DEF Q
<1>2. 0 \in S
  BY <1>1
<1>3. ASSUME NEW m \in Nat, m \in S PROVE m + 1 \in S
  <2>1. Q(m + 1)
    <3>1. (m + 1) - 1 = m /\ m + 1 \in Nat
      OBVIOUS
    <3> QED  BY <1>1, <1>3, <3>1
  <2> QED  BY <1>3, <2>1
<1>4. Nat \subseteq S
  <2> HIDE DEF S
  <2> QED  BY <1>2, <1>3, InductionOnNat
<1>5. \A m \in Nat : Q(m)
  BY <1>4
<1> QED  BY <1>5, <1>d DEF Q

(* findOriginal(): where a component that the document starts leads to is  *)
(* suppressed, one is found.                                               *)
LEMMA OriginalFound ==
    ASSUME LoadTypeOK, IsFiniteSet(docs), \A k \in Key : ToSet(targets[k]) \subseteq docs,
           NEW start \in docs, NEW k, LedTo(start, k), NEW n \in Originals(k)
    PROVE  FindOriginal(start, n) # None
<1> DEFINE f == CHOOSE g : IsSearch(g, n)
<1>1. IsSearch(f, n)
  BY SearchExists
<1>2. FindOriginal(start, n) = f[<< <<start>>, {} >>]
  BY DEF FindOriginal, IsSearch, At
<1> HIDE DEF f
<1>3. <<start>> \in Seq(docs) /\ ToSet(<<start>>) = {start}
  BY DEF ToSet
<1> SUFFICES ASSUME f[<< <<start>>, {} >>] = None PROVE FALSE
  BY <1>2
<1>4. NothingIn(n, <<start>>, {})
  BY <1>1, <1>3, SearchIsComplete
<1>5. PICK T \in SUBSET Key : start \in T /\ \A x \in T : n \notin Originals(x) /\ ToSet(targets[x]) \subseteq T
  BY <1>3, <1>4 DEF NothingIn
<1> QED  BY <1>5 DEF LedTo

-----------------------------------------------------------------------------
(* What compose() records: include, redefine and override stay within a    *)
(* namespace, and a replacement stands in a document that composes its     *)
(* target in.                                                              *)
Replacement == [kind : {"redefine", "override"}, owner : Key, target : Key,
                names : SUBSET Name, selfBase : BOOLEAN]

TargetsOK ==
    \A k \in Key : /\ ToSet(targets[k]) \subseteq docs
                   /\ \A t \in ToSet(targets[k]) : NamespaceOf(t) = NamespaceOf(k)
RepsOK ==
    /\ reps \in Seq(Replacement)
    /\ \A j \in 1..Len(reps) : reps[j].target \in ToSet(targets[reps[j].owner])

(* The calls of instance() that are open: each was made for the            *)
(* composition its caller is at.                                           *)
OpenFor(i) ==
    LET k == stack[i]
        c == Comp(k, next[k])
    IN  /\ next[k] \in 1..CompCount(k) /\ Outcome(world, k, c) = "load"
        /\ stack[i + 1] = TargetOf(world, k, c)
OpenOK == \A i \in 1..(Len(stack) - 1) : OpenFor(i)

LinkInv == TargetsOK /\ RepsOK /\ OpenOnce /\ OpenOK /\ IsFiniteSet(docs)

LEMMA LinkKeeps ==
    ASSUME LoadTypeOK, TargetsOK, RepsOK, docs \subseteq docs',
           NEW k \in Key, NEW c \in CompositionRecord, NEW t \in docs,
           c.kind # "import" => NamespaceOf(t) = NamespaceOf(k),
           Link(k, c, t)
    PROVE  TargetsOK' /\ RepsOK'
<1>1. CASE UNCHANGED <<targets, reps>>
  <2>1. targets' = targets /\ reps' = reps
    BY <1>1
  <2>2. TargetsOK'
    BY <2>1 DEF TargetsOK
  <2> QED  BY <2>1, <2>2 DEF RepsOK
<1>2. CASE /\ c.kind # "import" /\ targets' = [targets EXCEPT ![k] = Append(@, t)]
           /\ reps' = IF c.kind = "include" THEN reps
                      ELSE Append(reps, [kind |-> c.kind, owner |-> k, target |-> t,
                                         names |-> c.names, selfBase |-> c.selfBase])
  <2>0. t \in Key /\ targets \in [Key -> Seq(Key)]
    BY DEF LoadTypeOK
  <2>1. ToSet(targets'[k]) = ToSet(targets[k]) \cup {t}
    <3> DEFINE s == targets[k]
    <3>1. s \in Seq(Key) /\ targets'[k] = Append(s, t)
      BY <1>2, <2>0
    <3> HIDE DEF s
    <3>2. /\ Len(Append(s, t)) = Len(s) + 1 /\ Len(s) \in Nat /\ Append(s, t) \in Seq(Key)
          /\ Append(s, t)[Len(s) + 1] = t /\ \A i \in 1..Len(s) : Append(s, t)[i] = s[i]
      BY <2>0, <3>1
    <3>3. ToSet(Append(s, t)) = {Append(s, t)[i] : i \in 1..(Len(s) + 1)} /\ ToSet(s) = {s[i] : i \in 1..Len(s)}
      BY <3>1, <3>2 DEF ToSet
    <3>4. Len(s) + 1 \in 1..(Len(s) + 1) /\ \A i \in 1..(Len(s) + 1) : i = Len(s) + 1 \/ i \in 1..Len(s)
      BY <3>2
    <3>5. \A i \in 1..Len(s) : i \in 1..(Len(s) + 1)
      BY <3>2
    <3>6. ToSet(Append(s, t)) \subseteq ToSet(s) \cup {t}
      BY <3>2, <3>3, <3>4
    <3>7. ToSet(s) \cup {t} \subseteq ToSet(Append(s, t))
      BY <3>2, <3>3, <3>4, <3>5
    <3> QED  BY <3>1, <3>6, <3>7 DEF s
  <2>2. \A x \in Key : x # k => targets'[x] = targets[x]
    BY <1>2, <2>0
  <2>3. TargetsOK'
    BY <1>2, <2>1, <2>2 DEF TargetsOK
  <2>4. \A x \in Key : ToSet(targets[x]) \subseteq ToSet(targets'[x])
    BY <2>1, <2>2
  <2>5. reps \in Seq(Replacement) /\ \A j \in 1..Len(reps) : reps[j] \in Replacement /\ reps[j].owner \in Key
    <3>1. reps \in Seq(Replacement)
      BY DEF RepsOK
    <3>2. \A r \in Replacement : r.owner \in Key
      BY DEF Replacement
    <3>3. \A j \in 1..Len(reps) : reps[j] \in Replacement
      BY <3>1
    <3> QED  BY <3>1, <3>2, <3>3
  <2>6. CASE c.kind = "include"
    <3>1. reps' = reps
      BY <1>2, <2>6
    <3>2. RepsOK'
      BY <3>1, <2>4, <2>5 DEF RepsOK
    <3> QED  BY <2>3, <3>2
  <2>7. CASE c.kind # "include"
    <3> DEFINE r == [kind |-> c.kind, owner |-> k, target |-> t, names |-> c.names, selfBase |-> c.selfBase]
    <3>1. r \in Replacement /\ r.owner = k /\ r.target = t
      BY <1>2, <2>0, <2>7 DEF Replacement, CompositionRecord
    <3>2. reps' = Append(reps, r)
      BY <1>2, <2>7
    <3> HIDE DEF r
    <3>3. /\ reps' \in Seq(Replacement) /\ Len(reps') = Len(reps) + 1 /\ Len(reps) \in Nat
          /\ reps'[Len(reps) + 1] = r /\ \A j \in 1..Len(reps) : reps'[j] = reps[j]
      BY <2>5, <3>1, <3>2
    <3>4. ASSUME NEW j \in 1..Len(reps') PROVE reps'[j].target \in ToSet(targets'[reps'[j].owner])
      <4>1. CASE j = Len(reps) + 1
        BY <2>1, <3>1, <3>3, <4>1
      <4>2. CASE j \in 1..Len(reps)
        BY <2>4, <2>5, <3>3, <4>2 DEF RepsOK
      <4> QED  BY <3>3, <4>1, <4>2
    <3>5. RepsOK'
      BY <3>3, <3>4 DEF RepsOK
    <3> QED  BY <2>3, <3>5
  <2> QED  BY <2>6, <2>7
<1> QED  BY <1>1, <1>2 DEF Link, linkVars

(* The target of an include, redefine or override is read in its           *)
(* composer's namespace.                                                   *)
LEMMA TargetNamespace ==
    ASSUME NEW k, NEW c, c.kind # "import"
    PROVE  NamespaceOf(TargetOf(world, k, c)) = NamespaceOf(k)
  BY DEF TargetOf, ReadAs, NamespaceOf

LEMMA CreateFinite ==
    ASSUME IsFiniteSet(docs), docs' = docs \/ \E k : docs' = docs \cup {k}
    PROVE  IsFiniteSet(docs')
  BY FS_AddElement

LEMMA LinkInit == LoadInit => LinkInv
<1> SUFFICES ASSUME LoadInit PROVE LinkInv
  OBVIOUS
<1>1. docs = {} /\ stack = << >> /\ reps = << >> /\ targets = [k \in Key |-> << >>]
  BY DEF LoadInit
<1>2. \A k \in Key : ToSet(targets[k]) = {}
  BY <1>1 DEF ToSet
<1>3. IsFiniteSet(docs)
  BY <1>1, FS_EmptySet
<1>4. TargetsOK /\ RepsOK
  BY <1>1, <1>2 DEF TargetsOK, RepsOK
<1>5. OpenOnce /\ OpenOK
  BY <1>1 DEF OpenOnce, OpenOK
<1> QED  BY <1>3, <1>4, <1>5 DEF LinkInv

LEMMA LinkLoadRoot == LoadInv /\ LinkInv /\ LoadRoot => LinkInv'
<1> SUFFICES ASSUME LoadInv, LinkInv, LoadRoot PROVE LinkInv'
  OBVIOUS
<1>1. /\ stack = << >> /\ UNCHANGED <<world, next, targets, reps>>
      /\ \/ UNCHANGED <<stack, docs>>
         \/ \E k : /\ docs' = docs \cup {k}
                   /\ stack' = Append(stack, k) \/ stack' = stack
  BY DEF LoadRoot, Create, linkVars
<1>2. docs \subseteq docs' /\ IsFiniteSet(docs')
  BY <1>1, CreateFinite DEF LinkInv
<1>3. Len(stack') \in {0, 1}
  BY <1>1
<1>4. OpenOnce' /\ OpenOK'
  BY <1>3 DEF OpenOnce, OpenOK
<1>5. TargetsOK' /\ RepsOK'
  BY <1>1, <1>2 DEF LinkInv, TargetsOK, RepsOK
<1> QED  BY <1>2, <1>4, <1>5 DEF LinkInv

LEMMA LinkCompose == LoadInv /\ LinkInv /\ Compose => LinkInv'
<1> SUFFICES ASSUME LoadInv, LinkInv, Compose PROVE LinkInv'
  OBVIOUS
<1> DEFINE i == next[Top] + 1
           c == Comp(Top, i)
           t == TargetOf(world, Top, c)
           load == Outcome(world, Top, c) = "load"
<1>1. /\ Top \in docs /\ Top \in Key /\ stack # << >> /\ i \in 1..CompCount(Top)
      /\ next' = [next EXCEPT ![Top] = i] /\ world' = world
      /\ load => t \in docs' /\ t \in Key
      /\ docs' = IF load THEN docs \cup {t} ELSE docs
      /\ IF load /\ ~Known(t) THEN Create(t) ELSE UNCHANGED <<stack, docs, reports, order>>
  BY ComposeFacts
<1>2. IF load /\ Known(t) THEN Link(Top, c, t) ELSE UNCHANGED linkVars
  BY DEF Compose, Comp
<1>3. c \in CompositionRecord
  BY <1>1, WorldFacts DEF LoadInv
<1> HIDE DEF load
<1>4. docs \subseteq docs' /\ IsFiniteSet(docs')
  BY <1>1, CreateFinite DEF LinkInv
<1>5. TargetsOK' /\ RepsOK'
  <2>1. CASE load /\ Known(t)
    <3>1. Link(Top, c, t) /\ t \in docs
      BY <1>2, <2>1 DEF Known
    <3>2. c.kind # "import" => NamespaceOf(t) = NamespaceOf(Top)
      BY TargetNamespace
    <3> HIDE DEF c, t
    <3>3. LoadTypeOK /\ TargetsOK /\ RepsOK
      BY DEF LoadInv, LinkInv
    <3> QED  BY <1>1, <1>3, <1>4, <3>1, <3>2, <3>3, LinkKeeps
  <2>2. CASE ~(load /\ Known(t))
    <3>1. targets' = targets /\ reps' = reps
      BY <1>2, <2>2 DEF linkVars
    <3> QED  BY <1>4, <3>1 DEF LinkInv, TargetsOK, RepsOK
  <2> QED  BY <2>1, <2>2
<1>6. /\ Len(stack) \in Nat \ {0} /\ stack \in Seq(Key) /\ Top = stack[Len(stack)]
      /\ \A j \in 1..Len(stack) : stack[j] \in docs /\ stack[j] \in Key
  BY <1>1 DEF LoadInv, LoadTypeOK, StackOfDocs, Top
<1>7. next \in [Key -> Nat]
  BY DEF LoadInv, LoadTypeOK
<1>8. /\ next'[Top] = i
      /\ \A j \in 1..(Len(stack) - 1) : stack[j] # Top /\ next'[stack[j]] = next[stack[j]]
  <2>1. ASSUME NEW j \in 1..(Len(stack) - 1) PROVE stack[j] # Top
    <3>1. j \in 1..Len(stack) /\ j # Len(stack) /\ Len(stack) \in 1..Len(stack)
      BY <1>6
    <3> QED  BY <1>6, <3>1 DEF LinkInv, OpenOnce
  <2>2. \A j \in 1..(Len(stack) - 1) : stack[j] \in Key
    BY <1>6
  <2> HIDE DEF i
  <2> QED  BY <1>1, <1>7, <2>1, <2>2
<1>9. ASSUME NEW j \in 1..(Len(stack) - 1), stack'[j] = stack[j], stack'[j + 1] = stack[j + 1]
      PROVE  OpenFor(j)'
  <2>1. OpenFor(j)
    BY DEF LinkInv, OpenOK
  <2> QED  BY <1>1, <1>8, <1>9, <2>1 DEF OpenFor, Comp, CompCount
<1>10. CASE stack' = stack
  <2>1. OpenOnce'
    BY <1>10 DEF LinkInv, OpenOnce
  <2>2. OpenOK'
    BY <1>9, <1>10 DEF OpenOK
  <2> QED  BY <1>4, <1>5, <2>1, <2>2 DEF LinkInv
<1>11. CASE load /\ ~Known(t) /\ stack' = Append(stack, t)
  <2> DEFINE m == Len(stack)
  <2>1. t \in Key /\ t \notin docs
    BY <1>1, <1>11 DEF Known
  <2> HIDE DEF t
  <2>2. /\ m \in Nat \ {0} /\ Len(stack') = m + 1 /\ stack'[m + 1] = t
        /\ \A j \in 1..m : stack'[j] = stack[j]
    BY <1>6, <1>11, <2>1
  <2> HIDE DEF m
  <2>3. OpenOnce'
    <3> SUFFICES ASSUME NEW j \in 1..(m + 1), NEW l \in 1..(m + 1), stack'[j] = stack'[l] PROVE j = l
      BY <2>2 DEF OpenOnce
    <3>1. \A x \in 1..(m + 1) : x = m + 1 \/ (x \in 1..m /\ stack'[x] \in docs /\ stack'[x] = stack[x])
      BY <1>6, <2>2 DEF m
    <3> QED  BY <2>1, <2>2, <3>1 DEF LinkInv, OpenOnce, m
  <2>4. ASSUME NEW j \in 1..m PROVE OpenFor(j)'
    <3>1. CASE j = m
      <4>1. stack'[m] = Top /\ stack'[m + 1] = t
        BY <1>6, <2>2 DEF m
      <4>2. next'[Top] \in 1..CompCount(Top) /\ load /\ next'[Top] = i
        BY <1>1, <1>8, <1>11
      <4> HIDE DEF i
      <4> QED  BY <1>1, <3>1, <4>1, <4>2 DEF OpenFor, Comp, CompCount, load, t, c
    <3>2. CASE j # m
      <4>1. j \in 1..(Len(stack) - 1) /\ j + 1 \in 1..m
        BY <2>2, <3>2 DEF m
      <4> QED  BY <1>9, <2>2, <4>1
    <3> QED  BY <3>1, <3>2
  <2>5. OpenOK'
    <3>1. Len(stack') - 1 = m
      BY <2>2
    <3> QED  BY <2>4, <3>1 DEF OpenOK
  <2> QED  BY <1>4, <1>5, <2>3, <2>5 DEF LinkInv
<1> QED  BY <1>1, <1>10, <1>11 DEF Create

LEMMA LinkReturn == LoadInv /\ LinkInv /\ Return => LinkInv'
<1> SUFFICES ASSUME LoadInv, LinkInv, Return PROVE LinkInv'
  OBVIOUS
<1> DEFINE n == Len(stack) - 1
<1>1. /\ UNCHANGED <<world, next, docs>> /\ stack # << >> /\ stack' = SubSeq(stack, 1, n)
  BY DEF Return
<1>2. /\ Len(stack) \in Nat \ {0} /\ stack \in Seq(Key) /\ Top = stack[Len(stack)]
      /\ \A j \in 1..Len(stack) : stack[j] \in docs /\ stack[j] \in Key
  BY <1>1 DEF LoadInv, LoadTypeOK, StackOfDocs, Top
<1>3. Len(stack') = n /\ \A j \in 1..n : stack'[j] = stack[j]
  <2>1. n \in Nat /\ \A j \in 1..n : stack[j] \in Key
    BY <1>2
  <2> HIDE DEF n
  <2>2. /\ SubSeq(stack, 1, n) \in Seq(Key)
        /\ Len(SubSeq(stack, 1, n)) = IF 1 <= n THEN n - 1 + 1 ELSE 0
        /\ \A j \in 1..n - 1 + 1 : SubSeq(stack, 1, n)[j] = stack[1 + j - 1]
    BY <2>1, SubSeqProperties
  <2>3. Len(SubSeq(stack, 1, n)) = n /\ \A j \in 1..n : SubSeq(stack, 1, n)[j] = stack[j]
    BY <2>1, <2>2
  <2> QED  BY <1>1, <2>3
<1>4. OpenOnce'
  BY <1>2, <1>3 DEF LinkInv, OpenOnce
<1>5. OpenOK'
  <2> SUFFICES ASSUME NEW j \in 1..(n - 1) PROVE OpenFor(j)'
    BY <1>3 DEF OpenOK
  <2>1. /\ j \in 1..n /\ j + 1 \in 1..n /\ j \in 1..(Len(stack) - 1)
    BY <1>2
  <2>2. stack'[j] = stack[j] /\ stack'[j + 1] = stack[j + 1] /\ OpenFor(j)
    BY <1>3, <2>1 DEF LinkInv, OpenOK
  <2> QED  BY <1>1, <2>2 DEF OpenFor, Comp, CompCount
<1>6. TargetsOK' /\ RepsOK'
  <2>1. CASE Len(stack) = 1
    <3>1. targets' = targets /\ reps' = reps
      BY <2>1 DEF Return, linkVars
    <3> QED  BY <1>1, <3>1 DEF LinkInv, TargetsOK, RepsOK
  <2>2. CASE Len(stack) # 1
    <3> DEFINE k == stack[n]
               c == Comp(k, next[k])
    <3>1. Link(k, c, Top)
      BY <2>2 DEF Return, Comp
    <3>2. n \in 1..Len(stack) /\ n + 1 = Len(stack) /\ Len(stack) \in 1..Len(stack)
      <4>1. \A m \in Nat \ {0} : m # 1 => m - 1 \in 1..m /\ (m - 1) + 1 = m /\ m \in 1..m
        OBVIOUS
      <4>2. Len(stack) \in Nat \ {0}
        BY <1>2
      <4> HIDE DEF n
      <4> QED  BY ONLY <2>2, <4>1, <4>2 DEF n
    <3>3. OpenFor(n)
      BY <1>2, <2>2, <3>2 DEF LinkInv, OpenOK
    <3>4. k \in Key /\ Top \in docs
      BY <1>2, <3>2
    <3>5. next[k] \in 1..CompCount(k) /\ Top = TargetOf(world, k, c)
      BY <1>2, <3>2, <3>3 DEF OpenFor
    <3>6. c \in CompositionRecord
      BY <3>4, <3>5, WorldFacts DEF LoadInv
    <3>7. c.kind # "import" => NamespaceOf(Top) = NamespaceOf(k)
      BY <3>5, TargetNamespace
    <3>8. LoadTypeOK /\ TargetsOK /\ RepsOK /\ docs \subseteq docs'
      BY <1>1 DEF LoadInv, LinkInv
    <3> HIDE DEF k, c
    <3> QED  BY <3>1, <3>4, <3>6, <3>7, <3>8, LinkKeeps
  <2> QED  BY <2>1, <2>2
<1> QED  BY <1>1, <1>4, <1>5, <1>6 DEF LinkInv

LEMMA LinkStep == LoadInv /\ LinkInv /\ [LoadNext]_loadVars => LinkInv'
<1> SUFFICES ASSUME LoadInv, LinkInv, [LoadNext]_loadVars PROVE LinkInv'
  OBVIOUS
<1>1. CASE UNCHANGED <<world, stack, next, docs, targets, reps>>
  BY <1>1 DEF LinkInv, TargetsOK, RepsOK, OpenOnce, OpenOK, OpenFor, Comp, CompCount
<1>2. Loaded \/ UNCHANGED loadVars => UNCHANGED <<world, stack, next, docs, targets, reps>>
  BY DEF Loaded, loadVars, stackVars, linkVars
<1> QED  BY <1>1, <1>2, LinkLoadRoot, LinkCompose, LinkReturn DEF LoadNext

-----------------------------------------------------------------------------
(* How far register() is.                                                  *)
Handled == IF stage = "suppress" THEN pos ELSE Len(reps)
DocsDone == IF stage = "suppress" THEN 0 ELSE IF stage = "documents" THEN pos ELSE Len(order)
RepsDone == IF stage \in {"suppress", "documents"} THEN 0
            ELSE IF stage = "replacements" THEN pos ELSE Len(reps)

StageOK ==
    /\ stage \in {"suppress", "documents", "replacements", "done"} /\ pos \in Nat
    /\ stage \in {"suppress", "replacements"} => pos <= Len(reps)
    /\ stage = "documents" => pos <= Len(order)

NotBegun == phase # "loaded" => RegInit

(* What the replacements handled so far suppress.                          *)
SuppressedBy(h, k) == UNION {reps[i].names : i \in {j \in 1..h : k \in ReplacedIn(reps[j])}}
SuppressedOK == suppressed = [k \in Key |-> SuppressedBy(Handled, k)]

(* What is registered stands in a document or a replacement handled, and   *)
(* what those let stand is registered.                                     *)
FromDocument(c, i) == \E n \in Globals(order[i]) : c = Component(order[i], n)
FromReplacement(c, j) == \E n \in Standing(reps[j]) : c = Component(reps[j].owner, n)
Registrable(j, n) == reps[j].kind = "redefine" \/ FindOriginal(reps[j].target, n) # None

RegistryOK ==
    \A c \in DOMAIN registry :
       \/ registry[c].rep = 0 /\ \E i \in 1..DocsDone : FromDocument(c, i)
       \/ registry[c].rep \in 1..RepsDone /\ FromReplacement(c, registry[c].rep)
DocsRegistered ==
    \A i \in 1..DocsDone : \A n \in Globals(order[i]) : Component(order[i], n) \in DOMAIN registry
RepsRegistered ==
    \A j \in 1..RepsDone : \A n \in Standing(reps[j]) :
       Registrable(j, n) => Component(reps[j].owner, n) \in DOMAIN registry

(* Two declarations of a component neither of which the other replaces.    *)
Clash(c) ==
    \/ \E k1, k2 \in {order[i] : i \in DOMAIN order} : k1 # k2 /\ Declares(k1, c) /\ Declares(k2, c)
    \/ \E i, j \in Replacing(c) : i # j /\ ~Outside(i, j) /\ ~Outside(j, i)
    \/ \E i \in Replacing(c), k \in docs :
          Declares(k, c) /\ k \notin Closure(reps[i].target, {reps[i].owner})
ClashesOK == \A c \in duplicates : Clash(c)

RegInv ==
    /\ StageOK /\ NotBegun /\ SuppressedOK
    /\ RegistryOK /\ DocsRegistered /\ RepsRegistered /\ ClashesOK

(* Before register() there is nothing to be wrong.                         *)
LEMMA BeginsRight ==
    ASSUME LoadTypeOK, RepsOK, RegInit
    PROVE  RegInv
<1>1. /\ stage = "suppress" /\ pos = 0 /\ suppressed = [k \in Key |-> {}]
      /\ registry = << >> /\ duplicates = {}
  BY DEF RegInit
<1>2. Handled = 0 /\ DocsDone = 0 /\ RepsDone = 0 /\ Len(reps) \in Nat
  BY <1>1 DEF Handled, DocsDone, RepsDone, RepsOK
<1>3. StageOK /\ NotBegun
  BY <1>1, <1>2 DEF StageOK, NotBegun
<1>4. SuppressedOK
  <2>1. \A k \in Key : SuppressedBy(0, k) = {}
    BY DEF SuppressedBy
  <2> QED  BY <1>1, <1>2, <2>1 DEF SuppressedOK
<1>5. RegistryOK /\ DocsRegistered /\ RepsRegistered /\ ClashesOK
  BY <1>1, <1>2 DEF RegistryOK, DocsRegistered, RepsRegistered, ClashesOK
<1> QED  BY <1>3, <1>4, <1>5 DEF RegInv

LEMMA RegWhileLoading ==
    ASSUME LoadTypeOK', RepsOK', RegInv, LoadNext, UNCHANGED regVars
    PROVE  RegInv'
<1>1. phase # "loaded"
  BY DEF LoadNext, LoadRoot, Compose, Return, Loaded
<1>2. RegInit
  BY <1>1 DEF RegInv, NotBegun
<1>3. RegInit'
  BY <1>2 DEF RegInit, regVars
<1>4. (LoadTypeOK /\ RepsOK /\ RegInit => RegInv)'
  BY BeginsRight, PTL
<1> QED  BY <1>3, <1>4

(* register() reads what load() left behind.                               *)
LoadedSame == UNCHANGED <<world, docs, order, targets, reps>>

LEMMA SameClosures ==
    ASSUME LoadedSame
    PROVE  /\ \A s, b : Closure(s, b)' = Closure(s, b)
           /\ \A k, n : Component(k, n)' = Component(k, n)
<1>1. targets' = targets /\ docs' = docs
  BY DEF LoadedSame
<1> QED  BY <1>1 DEF Closure, Component

-----------------------------------------------------------------------------
LEMMA SameClashes ==
    ASSUME LoadedSame
    PROVE  \A c : Clash(c)' <=> Clash(c)
<1>1. UNCHANGED <<world, docs, order, targets, reps>> /\ \A s, b : Closure(s, b)' = Closure(s, b)
  BY SameClosures DEF LoadedSame
<1>2. \A c : Replacing(c)' = Replacing(c)
  BY <1>1 DEF Replacing, Component
<1>3. \A k, c : Declares(k, c)' <=> Declares(k, c)
  BY <1>1 DEF Declares, Component
<1>4. \A i, j : Outside(i, j)' <=> Outside(i, j)
  BY <1>1 DEF Outside
<1> SUFFICES ASSUME NEW c PROVE Clash(c)' <=> Clash(c)
  OBVIOUS
<1>5. order' = order /\ docs' = docs /\ reps' = reps /\ Replacing(c)' = Replacing(c)
  BY <1>1, <1>2
<1>6. \A k : Declares(k, c)' <=> Declares(k, c)
  BY <1>3
<1>7. \A i : Closure(reps[i].target, {reps[i].owner})' = Closure(reps[i].target, {reps[i].owner})
  BY <1>1
<1> DEFINE Registered == {order[i] : i \in DOMAIN order}
           Twice == \E k1, k2 \in Registered : k1 # k2 /\ Declares(k1, c) /\ Declares(k2, c)
           Rivals == \E i, j \in Replacing(c) : i # j /\ ~Outside(i, j) /\ ~Outside(j, i)
           Beside == \E i \in Replacing(c), k \in docs :
                       Declares(k, c) /\ k \notin Closure(reps[i].target, {reps[i].owner})
<1>8. Twice' <=> Twice
  BY <1>5, <1>6
<1>9. Rivals' <=> Rivals
  BY <1>4, <1>5
<1>10. Beside' <=> Beside
  BY <1>5, <1>6, <1>7
<1>11. (Clash(c) <=> Twice \/ Rivals \/ Beside) /\ (Clash(c)' <=> Twice' \/ Rivals' \/ Beside')
  BY DEF Clash
<1> HIDE DEF Twice, Rivals, Beside
<1> QED  BY <1>8, <1>9, <1>10, <1>11

LEMMA SameStanding ==
    ASSUME LoadedSame, UNCHANGED suppressed
    PROVE  /\ \A k : Globals(k)' = Globals(k)
           /\ \A r : Standing(r)' = Standing(r)
           /\ \A s, n : FindOriginal(s, n)' = FindOriginal(s, n)
           /\ \A r : ReplacedIn(r)' = ReplacedIn(r)
           /\ \A h, k : SuppressedBy(h, k)' = SuppressedBy(h, k)
           /\ \A j, n : Registrable(j, n)' <=> Registrable(j, n)
           /\ \A c, i : FromDocument(c, i)' <=> FromDocument(c, i)
           /\ \A c, j : FromReplacement(c, j)' <=> FromReplacement(c, j)
<1>1. UNCHANGED <<world, targets, reps, order, suppressed>>
  BY DEF LoadedSame
<1>2. (\A k : Globals(k)' = Globals(k)) /\ (\A r : Standing(r)' = Standing(r))
  BY <1>1 DEF Globals, Standing
<1>3. \A s, n : FindOriginal(s, n)' = FindOriginal(s, n)
  BY <1>1 DEF FindOriginal, Originals
<1>4. \A r : ReplacedIn(r)' = ReplacedIn(r)
  BY SameClosures DEF ReplacedIn
<1>5. \A h, k : SuppressedBy(h, k)' = SuppressedBy(h, k)
  BY <1>1, <1>4 DEF SuppressedBy
<1>6. \A j, n : Registrable(j, n)' <=> Registrable(j, n)
  BY <1>1, <1>3 DEF Registrable
<1>7. \A c, i : FromDocument(c, i)' <=> FromDocument(c, i)
  BY <1>1, <1>2 DEF FromDocument, Component
<1>8. \A c, j : FromReplacement(c, j)' <=> FromReplacement(c, j)
  BY <1>1, <1>2 DEF FromReplacement, Component
<1> QED  BY <1>2, <1>3, <1>4, <1>5, <1>6, <1>7, <1>8

LEMMA Registered ==
    ASSUME NEW new, Register(new)
    PROVE  /\ DOMAIN registry' = DOMAIN new \cup DOMAIN registry
           /\ \A c \in DOMAIN registry : registry'[c] = registry[c]
           /\ \A c \in DOMAIN new : c \notin DOMAIN registry => registry'[c] = new[c]
           /\ \A c \in duplicates' : c \in duplicates \/ (c \in DOMAIN new /\ c \in DOMAIN registry)
  BY DEF Register

LEMMA ComponentName ==
    ASSUME NEW k, NEW n, NEW l, NEW m, Component(k, n) = Component(l, m)
    PROVE  n = m
  BY DEF Component

(* Nothing is registered while replacements still suppress.                *)
LEMMA RegSuppress ==
    ASSUME LoadTypeOK, RepsOK, RegInv, phase = "loaded", LoadedSame, phase' = phase, SuppressOriginals
    PROVE  RegInv'
<1> DEFINE rep == reps[pos + 1]
<1>1. /\ stage = "suppress" /\ pos < Len(reps) /\ pos' = pos + 1 /\ stage' = "suppress"
      /\ UNCHANGED <<world, docs, order, targets, reps, registry, duplicates>>
      /\ suppressed' = [k \in Key |-> IF k \in ReplacedIn(rep) THEN suppressed[k] \cup rep.names
                                      ELSE suppressed[k]]
  BY DEF SuppressOriginals, LoadedSame
<1>2. pos \in Nat /\ Len(reps) \in Nat
  BY DEF RegInv, StageOK, RepsOK
<1>3. Handled = pos /\ Handled' = pos + 1 /\ DocsDone = 0 /\ RepsDone = 0 /\ DocsDone' = 0 /\ RepsDone' = 0
  BY <1>1 DEF Handled, DocsDone, RepsDone
<1>4. StageOK' /\ NotBegun'
  BY <1>1, <1>2 DEF StageOK, NotBegun
<1>5. SuppressedOK'
  <2>1. suppressed = [k \in Key |-> SuppressedBy(pos, k)]
    BY <1>3 DEF RegInv, SuppressedOK
  <2>2. \A r : ReplacedIn(r)' = ReplacedIn(r)
    BY SameClosures DEF ReplacedIn
  <2> PICK h : h = pos + 1
    OBVIOUS
  <2>3. ASSUME NEW k \in Key PROVE SuppressedBy(h, k)' = suppressed'[k]
    <3>1. SuppressedBy(h, k)' = UNION {reps[i].names : i \in {j \in 1..h : k \in ReplacedIn(reps[j])}}
      BY <1>1, <2>2 DEF SuppressedBy
    <3> DEFINE H(m) == {j \in 1..m : k \in ReplacedIn(reps[j])}
    <3>2. H(h) = IF k \in ReplacedIn(rep) THEN H(pos) \cup {h} ELSE H(pos)
      <4>1. \A j : j \in 1..h <=> j \in 1..pos \/ j = h
        BY <1>2
      <4> QED  BY <4>1
    <3>3. suppressed[k] = UNION {reps[i].names : i \in H(pos)}
      BY <2>1 DEF SuppressedBy
    <3> HIDE DEF H
    <3>4. UNION {reps[i].names : i \in H(h)}
            = IF k \in ReplacedIn(rep) THEN (UNION {reps[i].names : i \in H(pos)}) \cup rep.names
              ELSE UNION {reps[i].names : i \in H(pos)}
      BY <3>2
    <3> QED  BY <1>1, <3>1, <3>3, <3>4 DEF H
  <2>4. suppressed' = [k \in Key |-> suppressed'[k]]
    BY <1>1
  <2> QED  BY <1>3, <2>3, <2>4 DEF SuppressedOK
<1>6. DOMAIN registry = {}
  <2>1. 1..DocsDone = {} /\ 1..RepsDone = {}
    BY <1>3
  <2> QED  BY <2>1 DEF RegInv, RegistryOK
<1>7. RegistryOK' /\ DocsRegistered' /\ RepsRegistered'
  BY <1>1, <1>3, <1>6 DEF RegistryOK, DocsRegistered, RepsRegistered
<1>8. ClashesOK'
  BY <1>1, SameClashes DEF RegInv, ClashesOK
<1> QED  BY <1>4, <1>5, <1>7, <1>8 DEF RegInv

(* Two documents declare what is registered a second time by a document.   *)
LEMMA RegDocument ==
    ASSUME LoadTypeOK, OrderIsDocs, RegInv, phase = "loaded", LoadedSame, phase' = phase, RegisterDocument
    PROVE  RegInv'
<1> DEFINE k == order[pos + 1]
           new == [c \in {Component(k, n) : n \in Globals(k)} |-> [owner |-> k, rep |-> 0, base |-> None]]
<1>1. /\ stage = "documents" /\ pos < Len(order) /\ pos' = pos + 1 /\ stage' = "documents"
      /\ UNCHANGED <<world, docs, order, targets, reps, suppressed>> /\ Register(new)
  BY DEF RegisterDocument, LoadedSame
<1>2. pos \in Nat /\ Len(order) \in Nat /\ DOMAIN order = 1..Len(order)
  BY DEF RegInv, StageOK, LoadTypeOK
<1>3. Handled' = Handled /\ DocsDone = pos /\ RepsDone = 0 /\ DocsDone' = pos + 1 /\ RepsDone' = 0
  BY <1>1 DEF Handled, DocsDone, RepsDone
<1>4. StageOK' /\ NotBegun'
  BY <1>1, <1>2 DEF StageOK, NotBegun
<1>5. SuppressedOK'
  BY <1>1, <1>3, SameStanding DEF RegInv, SuppressedOK
<1>6. \A c : c \in DOMAIN new <=> FromDocument(c, pos + 1)
  BY DEF FromDocument
<1>7. \A c \in DOMAIN new : new[c].rep = 0
  OBVIOUS
<1> HIDE DEF new
<1>8. \A i : i \in 1..(pos + 1) <=> i \in 1..pos \/ i = pos + 1
  BY <1>2
<1>9. \A c \in DOMAIN registry : registry[c].rep = 0 /\ \E i \in 1..pos : FromDocument(c, i)
  BY <1>3 DEF RegInv, RegistryOK
<1>10. RegistryOK'
  <2>1. ASSUME NEW c \in DOMAIN registry' PROVE registry'[c].rep = 0 /\ \E i \in 1..(pos + 1) : FromDocument(c, i)'
    <3>1. CASE c \in DOMAIN registry
      BY <1>1, <1>8, <1>9, <3>1, Registered, SameStanding
    <3>2. CASE c \in DOMAIN new /\ c \notin DOMAIN registry
      BY <1>1, <1>6, <1>7, <1>8, <3>2, Registered, SameStanding
    <3> QED  BY <1>1, <3>1, <3>2, Registered
  <2> QED  BY <1>3, <2>1 DEF RegistryOK
<1>11. DocsRegistered'
  <2> SUFFICES ASSUME NEW i \in 1..(pos + 1), NEW n \in Globals(order[i]) PROVE Component(order[i], n) \in DOMAIN registry'
    BY <1>1, <1>3, SameStanding DEF DocsRegistered, Component
  <2>1. CASE i = pos + 1
    <3>1. FromDocument(Component(order[i], n), pos + 1)
      BY <2>1 DEF FromDocument
    <3> QED  BY <1>1, <1>6, <3>1, Registered
  <2>2. CASE i \in 1..pos
    <3>1. Component(order[i], n) \in DOMAIN registry
      BY <1>3, <2>2 DEF RegInv, DocsRegistered
    <3> QED  BY <1>1, <3>1, Registered
  <2> QED  BY <1>8, <2>1, <2>2
<1>12. RepsRegistered'
  BY <1>3 DEF RepsRegistered
<1>13. ClashesOK'
  <2> SUFFICES ASSUME NEW c \in duplicates' PROVE Clash(c)
    BY SameClashes DEF ClashesOK
  <2>1. CASE c \in duplicates
    BY <2>1 DEF RegInv, ClashesOK
  <2>2. CASE c \in DOMAIN new /\ c \in DOMAIN registry
    <3>1. PICK i \in 1..pos : FromDocument(c, i)
      BY <1>9, <2>2
    <3>2. FromDocument(c, pos + 1)
      BY <1>6, <2>2
    <3>3. Declares(order[i], c) /\ Declares(k, c)
      BY <3>1, <3>2 DEF FromDocument, Declares, Globals
    <3>4. i \in DOMAIN order /\ pos + 1 \in DOMAIN order /\ i # pos + 1
      BY <1>1, <1>2
    <3>5. order[i] # k
      BY <3>4 DEF OrderIsDocs, IsInjective
    <3> QED  BY <3>3, <3>4, <3>5 DEF Clash
  <2> QED  BY <1>1, <2>1, <2>2, Registered
<1> QED  BY <1>4, <1>5, <1>10, <1>11, <1>12, <1>13 DEF RegInv

-----------------------------------------------------------------------------
(* A replacement that stands is replaced by none: no other is outside it.  *)
LEMMA StandingIsOutermost ==
    ASSUME RepsOK, SuppressedOK, Handled = Len(reps), NEW j \in 1..Len(reps),
           NEW c, FromReplacement(c, j), NEW i \in Replacing(c)
    PROVE  ~Outside(i, j)
<1> SUFFICES ASSUME Outside(i, j) PROVE FALSE
  OBVIOUS
<1>1. PICK n \in Standing(reps[j]) : c = Component(reps[j].owner, n)
  BY DEF FromReplacement
<1>2. PICK m \in reps[i].names : Component(reps[i].owner, m) = c
  BY DEF Replacing
<1>3. i \in 1..Len(reps) /\ reps[j].owner \in Key /\ n = m
  <2>1. reps \in Seq(Replacement) /\ i \in DOMAIN reps
    BY DEF RepsOK, Replacing
  <2>2. i \in 1..Len(reps) /\ reps[j] \in Replacement
    BY <2>1
  <2> QED  BY <1>1, <1>2, <2>2, ComponentName DEF Replacement
<1>4. reps[j].owner \in ReplacedIn(reps[i])
  BY DEF Outside, ReplacedIn
<1>5. suppressed[reps[j].owner] = SuppressedBy(Len(reps), reps[j].owner)
  BY <1>3 DEF SuppressedOK
<1>6. m \in suppressed[reps[j].owner]
  BY <1>2, <1>3, <1>4, <1>5 DEF SuppressedBy
<1> QED  BY <1>1, <1>3, <1>6 DEF Standing

(* A document whose declaration stands is one no replacement reaches.      *)
LEMMA StandingIsUntouched ==
    ASSUME RepsOK, SuppressedOK, Handled = Len(reps), NEW k \in Key,
           NEW n \in Globals(k), NEW i \in Replacing(Component(k, n))
    PROVE  k \notin Closure(reps[i].target, {reps[i].owner})
<1> SUFFICES ASSUME k \in ReplacedIn(reps[i]) PROVE FALSE
  BY DEF ReplacedIn
<1>1. PICK m \in reps[i].names : Component(reps[i].owner, m) = Component(k, n)
  BY DEF Replacing
<1>2. i \in 1..Len(reps) /\ n = m
  <2>1. i \in DOMAIN reps /\ reps \in Seq(Replacement)
    BY DEF Replacing, RepsOK
  <2>2. n = m
    BY <1>1, ComponentName
  <2> QED  BY <2>1, <2>2
<1>3. suppressed[k] = SuppressedBy(Len(reps), k)
  BY DEF SuppressedOK
<1>4. m \in suppressed[k]
  BY <1>1, <1>2, <1>3 DEF SuppressedBy
<1> QED  BY <1>2, <1>4 DEF Globals

(* What is registered a second time by a replacement that stands is what a *)
(* document or another standing replacement declares.                      *)
LEMMA RegReplacement ==
    ASSUME LoadTypeOK, OrderIsDocs, RepsOK, RegInv, phase = "loaded", LoadedSame, phase' = phase,
           RegisterReplacement
    PROVE  RegInv'
<1> PICK j : j = pos + 1
  OBVIOUS
<1> DEFINE rep == reps[j]
           original == [n \in Standing(rep) |-> FindOriginal(rep.target, n)]
           redefine == rep.kind = "redefine"
           orphans == {n \in Standing(rep) : original[n] = None}
           kept == IF redefine THEN Standing(rep) ELSE Standing(rep) \ orphans
           new == [c \in {Component(rep.owner, n) : n \in kept} |->
                      [owner |-> rep.owner, rep |-> j, base |-> IF redefine THEN original[c[2]] ELSE None]]
<1>1. /\ stage = "replacements" /\ pos < Len(reps) /\ pos' = j /\ stage' = "replacements"
      /\ UNCHANGED <<world, docs, order, targets, reps, suppressed>>
  BY DEF RegisterReplacement, LoadedSame
<1>2. Register(new)
  BY DEF RegisterReplacement
<1>3. pos \in Nat /\ Len(reps) \in Nat /\ Len(order) \in Nat /\ DOMAIN order = 1..Len(order)
  BY DEF RegInv, StageOK, LoadTypeOK, RepsOK
<1>4. /\ Handled = Len(reps) /\ Handled' = Len(reps) /\ DocsDone = Len(order) /\ DocsDone' = Len(order)
      /\ RepsDone = pos /\ RepsDone' = j /\ j \in 1..Len(reps)
  BY <1>1, <1>3 DEF Handled, DocsDone, RepsDone
<1>5. StageOK' /\ NotBegun'
  BY <1>1, <1>3, <1>4 DEF StageOK, NotBegun
<1>6. SuppressedOK'
  BY <1>1, <1>4, SameStanding DEF RegInv, SuppressedOK
<1>7. kept = {n \in Standing(rep) : Registrable(j, n)}
  BY DEF Registrable
<1> HIDE DEF kept
<1>8. \A c : c \in DOMAIN new <=> \E n \in Standing(rep) : Registrable(j, n) /\ c = Component(rep.owner, n)
  BY <1>7
<1>9. \A c \in DOMAIN new : new[c].rep = j
  OBVIOUS
<1> HIDE DEF new
<1>10. \A c \in DOMAIN new : FromReplacement(c, j)
  BY <1>8 DEF FromReplacement
<1>11. \A i : i \in 1..j <=> i \in 1..pos \/ i = j
  BY <1>3
<1>12. \A c \in DOMAIN registry :
          \/ registry[c].rep = 0 /\ \E i \in 1..Len(order) : FromDocument(c, i)
          \/ registry[c].rep \in 1..pos /\ FromReplacement(c, registry[c].rep)
  BY <1>4 DEF RegInv, RegistryOK
<1>13. RegistryOK'
  <2>1. ASSUME NEW c \in DOMAIN registry'
        PROVE  \/ registry'[c].rep = 0 /\ \E i \in 1..Len(order) : FromDocument(c, i)
               \/ registry'[c].rep \in 1..j /\ FromReplacement(c, registry'[c].rep)
    <3>1. CASE c \in DOMAIN registry
      <4>1. registry'[c] = registry[c]
        BY <1>2, <3>1, Registered
      <4> QED  BY <1>11, <1>12, <3>1, <4>1
    <3>2. CASE c \in DOMAIN new /\ c \notin DOMAIN registry
      <4>1. registry'[c] = new[c]
        BY <1>2, <3>2, Registered
      <4> QED  BY <1>9, <1>10, <1>11, <3>2, <4>1
    <3> QED  BY <1>2, <3>1, <3>2, Registered
  <2>2. ASSUME NEW c \in DOMAIN registry'
        PROVE  \/ registry'[c].rep = 0 /\ \E i \in 1..Len(order) : FromDocument(c, i)'
               \/ registry'[c].rep \in 1..j /\ FromReplacement(c, registry[c].rep)'
    <3>1. \A d, i : FromDocument(d, i)' <=> FromDocument(d, i)
      BY <1>1, SameStanding
    <3>2. PICK r : r = registry'[c].rep
      OBVIOUS
    <3>3. FromReplacement(c, r)' <=> FromReplacement(c, r)
      BY <1>1, SameStanding
    <3> QED  BY <2>1, <3>1, <3>2, <3>3
  <2> QED  BY <1>4, <2>2 DEF RegistryOK
<1>14. DocsRegistered'
  <2> SUFFICES ASSUME NEW i \in 1..Len(order), NEW n \in Globals(order[i]) PROVE Component(order[i], n) \in DOMAIN registry'
    BY <1>1, <1>4, SameStanding DEF DocsRegistered, Component
  <2>1. Component(order[i], n) \in DOMAIN registry
    BY <1>4 DEF RegInv, DocsRegistered
  <2> QED  BY <1>2, <2>1, Registered
<1>15. RepsRegistered'
  <2> SUFFICES ASSUME NEW i \in 1..j, NEW n \in Standing(reps[i]), Registrable(i, n)
               PROVE  Component(reps[i].owner, n) \in DOMAIN registry'
    BY <1>1, <1>4, SameStanding DEF RepsRegistered, Component
  <2>1. CASE i = j
    BY <1>2, <1>8, <2>1, Registered
  <2>2. CASE i \in 1..pos
    <3>1. Component(reps[i].owner, n) \in DOMAIN registry
      BY <1>4, <2>2 DEF RegInv, RepsRegistered
    <3> QED  BY <1>2, <3>1, Registered
  <2> QED  BY <1>11, <2>1, <2>2
<1>16. ClashesOK'
  <2> SUFFICES ASSUME NEW c \in duplicates' PROVE Clash(c)
    BY SameClashes DEF ClashesOK
  <2>1. CASE c \in duplicates
    BY <2>1 DEF RegInv, ClashesOK
  <2>2. CASE c \in DOMAIN new /\ c \in DOMAIN registry
    <3>1. PICK n \in Standing(rep) : c = Component(rep.owner, n)
      BY <1>8, <2>2
    <3>2. \A i \in 1..Len(reps) : FromReplacement(c, i) => i \in Replacing(c)
      <4>1. DOMAIN reps = 1..Len(reps)
        BY DEF RepsOK
      <4> QED  BY <4>1 DEF FromReplacement, Standing, Replacing
    <3>3. FromReplacement(c, j) /\ j \in Replacing(c)
      BY <1>4, <1>10, <2>2, <3>2
    <3>4. CASE \E i \in 1..Len(order) : FromDocument(c, i)
      <4>1. PICK i \in 1..Len(order) : FromDocument(c, i)
        BY <3>4
      <4>2. PICK m \in Globals(order[i]) : c = Component(order[i], m)
        BY <4>1 DEF FromDocument
      <4>3. order[i] \in Key /\ order[i] \in docs
        <5>1. order[i] \in ToSet(order) /\ docs \subseteq Key
          BY <1>3 DEF ToSet, LoadTypeOK
        <5> QED  BY <5>1 DEF OrderIsDocs
      <4>4. order[i] \notin Closure(reps[j].target, {reps[j].owner})
        BY <1>4, <3>3, <4>2, <4>3, StandingIsUntouched DEF RegInv
      <4>5. Declares(order[i], c)
        BY <4>2 DEF Declares, Globals
      <4> QED  BY <3>3, <4>3, <4>4, <4>5 DEF Clash
    <3>5. CASE \E i \in 1..pos : FromReplacement(c, i)
      <4>1. PICK i \in 1..pos : FromReplacement(c, i)
        BY <3>5
      <4>2. i \in 1..Len(reps) /\ i # j /\ i \in Replacing(c)
        BY <1>1, <1>3, <3>2, <4>1
      <4>3. ~Outside(j, i)
        BY <1>4, <3>3, <4>1, <4>2, StandingIsOutermost DEF RegInv
      <4>4. ~Outside(i, j)
        BY <1>4, <3>3, <4>2, StandingIsOutermost DEF RegInv
      <4> QED  BY <3>3, <4>2, <4>3, <4>4 DEF Clash
    <3> QED  BY <1>12, <2>2, <3>4, <3>5
  <2> QED  BY <1>2, <2>1, <2>2, Registered
<1> QED  BY <1>5, <1>6, <1>13, <1>14, <1>15, <1>16 DEF RegInv

LEMMA RegNextStage ==
    ASSUME LoadTypeOK, RepsOK, RegInv, phase = "loaded", LoadedSame, phase' = phase, NextStage
    PROVE  RegInv'
<1>1. /\ pos' = 0 /\ UNCHANGED <<world, docs, order, targets, reps, suppressed, registry, duplicates>>
      /\ \/ stage = "suppress" /\ pos = Len(reps) /\ stage' = "documents"
         \/ stage = "documents" /\ pos = Len(order) /\ stage' = "replacements"
         \/ stage = "replacements" /\ pos = Len(reps) /\ stage' = "done"
  BY DEF NextStage, LoadedSame
<1>2. Len(reps) \in Nat /\ Len(order) \in Nat
  BY DEF LoadTypeOK, RepsOK
<1>3. Handled' = Handled /\ DocsDone' = DocsDone /\ RepsDone' = RepsDone
  BY <1>1 DEF Handled, DocsDone, RepsDone
<1>4. StageOK' /\ NotBegun'
  BY <1>1, <1>2 DEF StageOK, NotBegun
<1>5. SuppressedOK'
  BY <1>1, <1>3, SameStanding DEF RegInv, SuppressedOK
<1>6. RegistryOK'
  BY <1>1, <1>3, SameStanding DEF RegInv, RegistryOK
<1>7. DocsRegistered'
  BY <1>1, <1>3, SameStanding DEF RegInv, DocsRegistered, Component
<1>8. RepsRegistered'
  BY <1>1, <1>3, SameStanding DEF RegInv, RepsRegistered, Component
<1>9. ClashesOK'
  BY <1>1, SameClashes DEF RegInv, ClashesOK
<1> QED  BY <1>4, <1>5, <1>6, <1>7, <1>8, <1>9 DEF RegInv

-----------------------------------------------------------------------------
LEMMA RegStep ==
    ASSUME LoadInv, LoadInv', LinkInv, RegInv, [Next]_vars
    PROVE  LinkInv' /\ RegInv'
<1>1. [LoadNext]_loadVars
  BY DEF Next, vars
<1>2. LinkInv'
  BY <1>1, LinkStep
<1>3. CASE LoadNext /\ UNCHANGED regVars
  BY <1>2, <1>3, RegWhileLoading DEF LoadInv, LinkInv
<1>4. CASE /\ phase = "loaded" /\ UNCHANGED loadVars
           /\ SuppressOriginals \/ RegisterDocument \/ RegisterReplacement \/ NextStage
  <2>1. LoadedSame /\ phase' = phase
    BY <1>4 DEF LoadedSame, loadVars, linkVars
  <2>2. LoadTypeOK /\ OrderIsDocs /\ RepsOK
    BY DEF LoadInv, LinkInv
  <2> QED  BY <1>2, <1>4, <2>1, <2>2, RegSuppress, RegDocument, RegReplacement, RegNextStage
<1>5. CASE UNCHANGED vars
  <2>1. LoadedSame /\ UNCHANGED <<phase, stage, pos, suppressed, registry, duplicates, unmatched, unrelated>>
    BY <1>5 DEF LoadedSame, vars, loadVars, linkVars, regVars
  <2>2. Handled' = Handled /\ DocsDone' = DocsDone /\ RepsDone' = RepsDone
    BY <2>1 DEF Handled, DocsDone, RepsDone, LoadedSame
  <2>3. StageOK' /\ NotBegun'
    BY <2>1 DEF RegInv, StageOK, NotBegun, RegInit, LoadedSame
  <2>4. SuppressedOK' /\ RegistryOK'
    BY <2>1, <2>2, SameStanding DEF RegInv, SuppressedOK, RegistryOK
  <2>5. DocsRegistered' /\ RepsRegistered'
    BY <2>1, <2>2, SameStanding DEF RegInv, DocsRegistered, RepsRegistered, Component, LoadedSame
  <2>6. ClashesOK'
    BY <2>1, SameClashes DEF RegInv, ClashesOK
  <2> QED  BY <1>2, <2>3, <2>4, <2>5, <2>6 DEF RegInv
<1> QED  BY <1>3, <1>4, <1>5 DEF Next

(* register(): what is suppressed and registered at every step is what the *)
(* documents and replacements handled so far account for.                  *)
THEOREM RegistrationInvariant == Spec => [](LinkInv /\ RegInv)
<1>1. Init => LinkInv /\ RegInv
  <2>1. Init => LoadInv /\ LinkInv /\ RegInit
    BY InvInit, LinkInit DEF Init
  <2> QED  BY <2>1, BeginsRight DEF LoadInv, LinkInv
<1>2. LoadInv /\ LoadInv' /\ LinkInv /\ RegInv /\ [Next]_vars => LinkInv' /\ RegInv'
  BY RegStep
<1> QED  BY <1>1, <1>2, LoadInvariant, PTL DEF Spec

(* instance(): the recursion over the documents never enters one that is   *)
(* in progress, whatever cycles they form.                                 *)
THEOREM RecursionIsBounded == Spec => []OpenOnce
<1>1. LinkInv => OpenOnce
  BY DEF LinkInv
<1> QED  BY <1>1, RegistrationInvariant, PTL

(* register() and registerReplacement(): for any documents, of nested      *)
(* replacements of a component the outermost is registered, and a clash is *)
(* reported only for declarations neither of which replaces the other.     *)
THEOREM ReplacementsAlwaysInOrder == Spec => []ReplacementsInOrder
<1>1. LoadInv /\ LinkInv /\ RegInv => OutermostWins
  <2> SUFFICES ASSUME LinkInv, RegInv, Done, NEW c \in DOMAIN registry, registry[c].rep # 0,
                      NEW i \in Replacing(c)
               PROVE  ~Outside(i, registry[c].rep)
    BY DEF OutermostWins
  <2>1. Handled = Len(reps) /\ RepsDone = Len(reps)
    BY DEF Done, Handled, RepsDone
  <2>2. registry[c].rep \in 1..Len(reps) /\ FromReplacement(c, registry[c].rep)
    BY <2>1 DEF RegInv, RegistryOK
  <2> QED  BY <2>1, <2>2, StandingIsOutermost DEF RegInv, LinkInv
<1>2. RegInv => DuplicatesAreReal
  BY DEF RegInv, ClashesOK, Clash, DuplicatesAreReal
<1> QED  BY <1>1, <1>2, LoadInvariant, RegistrationInvariant, PTL DEF ReplacementsInOrder

(* Of any replacements of a component one is outermost: none is applied to *)
(* the result of another that is applied, round a cycle, to its own.       *)
Nested ==
    \A n \in Name : \A S \in SUBSET DOMAIN reps :
       S # {} /\ (\A i \in S : n \in reps[i].names) => \E j \in S : \A i \in S : ~Outside(i, j)

LEMMA NothingLost ==
    ASSUME LoadInv, LinkInv, RegInv, Nested, Done,
           NEW k \in docs, IsDoc(k), NEW n \in world.decls[UriOf(k)]
    PROVE  Component(k, n) \in DOMAIN registry
<1>1. /\ Handled = Len(reps) /\ DocsDone = Len(order) /\ RepsDone = Len(reps)
      /\ LoadTypeOK /\ docs \subseteq Key /\ k \in Key /\ IsFiniteSet(docs)
      /\ \A x \in Key : ToSet(targets[x]) \subseteq docs
  BY DEF Done, Handled, DocsDone, RepsDone, LoadInv, LinkInv, LoadTypeOK, TargetsOK
<1>2. DOMAIN reps = 1..Len(reps)
  BY DEF LinkInv, RepsOK
<1>3. ASSUME NEW i \in 1..Len(reps)
      PROVE  /\ reps[i].owner \in Key /\ reps[i].target \in Key /\ reps[i].target \in docs
             /\ reps[i].target \in ToSet(targets[reps[i].owner])
             /\ NamespaceOf(reps[i].target) = NamespaceOf(reps[i].owner)
  <2>1. reps \in Seq(Replacement) /\ reps[i].target \in ToSet(targets[reps[i].owner])
    BY DEF LinkInv, RepsOK
  <2>2. reps[i] \in Replacement
    BY <2>1
  <2>3. reps[i].owner \in Key /\ reps[i].target \in Key
    BY <2>2 DEF Replacement
  <2> QED  BY <1>1, <2>1, <2>3 DEF LinkInv, TargetsOK
<1>4. ASSUME NEW x \in Key, n \in suppressed[x]
      PROVE  \E i \in 1..Len(reps) : n \in reps[i].names /\ x \in Closure(reps[i].target, {reps[i].owner})
  <2>1. suppressed[x] = SuppressedBy(Len(reps), x)
    BY <1>1 DEF RegInv, SuppressedOK
  <2> QED  BY <1>4, <2>1 DEF SuppressedBy, ReplacedIn
<1>5. CASE n \notin suppressed[k]
  <2>1. PICK i \in 1..Len(order) : order[i] = k
    <3>1. k \in ToSet(order) /\ order \in Seq(Key)
      BY DEF LoadInv, LoadTypeOK, OrderIsDocs
    <3> QED  BY <3>1 DEF ToSet
  <2>2. n \in Globals(order[i])
    BY <1>5, <2>1 DEF Globals
  <2> QED  BY <1>1, <2>1, <2>2 DEF RegInv, DocsRegistered
<1>6. CASE n \in suppressed[k]
  <2> DEFINE S == {i \in 1..Len(reps) : n \in reps[i].names /\ LedTo(reps[i].target, k)}
  <2>1. S # {}
    <3>1. PICK i \in 1..Len(reps) : n \in reps[i].names /\ k \in Closure(reps[i].target, {reps[i].owner})
      BY <1>1, <1>4, <1>6
    <3>2. LedTo(reps[i].target, k)
      BY <1>1, <1>3, <3>1, ClosureIsLedTo
    <3> QED  BY <3>1, <3>2
  <2>2. n \in Name
    BY <1>1, DocSetsAssumption DEF LoadTypeOK, IsDocSet, Key, UriOf
  <2>3. PICK j \in S : \A i \in S : ~Outside(i, j)
    <3>1. S \in SUBSET DOMAIN reps /\ \A i \in S : n \in reps[i].names
      BY <1>2
    <3> HIDE DEF S
    <3> QED  BY <2>1, <2>2, <3>1 DEF Nested
  <2>4. j \in 1..Len(reps) /\ n \in reps[j].names /\ LedTo(reps[j].target, k)
    OBVIOUS
  <2>5. n \notin suppressed[reps[j].owner]
    <3> SUFFICES ASSUME n \in suppressed[reps[j].owner] PROVE FALSE
      OBVIOUS
    <3>1. PICK i \in 1..Len(reps) : n \in reps[i].names /\ reps[j].owner \in Closure(reps[i].target, {reps[i].owner})
      BY <1>3, <1>4, <2>4
    <3>2. Outside(i, j)
      BY <3>1 DEF Outside
    <3>3. LedTo(reps[i].target, reps[j].owner)
      BY <1>1, <1>3, <3>1, ClosureIsLedTo
    <3>4. LedTo(reps[i].target, k)
      BY <1>3, <2>4, <3>3 DEF LedTo
    <3> QED  BY <2>3, <3>1, <3>2, <3>4
  <2>6. n \in Standing(reps[j])
    BY <2>4, <2>5 DEF Standing
  <2>7. n \in Originals(k)
    BY <1>6 DEF Originals
  <2>8. Registrable(j, n)
    BY <1>1, <1>3, <2>4, <2>7, OriginalFound DEF Registrable
  <2>9. Component(reps[j].owner, n) \in DOMAIN registry
    BY <1>1, <2>4, <2>6, <2>8 DEF RegInv, RepsRegistered
  <2>10. NamespaceOf(k) = NamespaceOf(reps[j].owner)
    <3> DEFINE T == {x \in Key : NamespaceOf(x) = NamespaceOf(reps[j].target)}
    <3>1. \A x \in T : ToSet(targets[x]) \subseteq T
      BY <1>1 DEF LinkInv, TargetsOK
    <3>2. reps[j].target \in T
      BY <1>3, <2>4
    <3>3. k \in T
      BY <2>4, <3>1, <3>2 DEF LedTo
    <3> QED  BY <1>3, <2>4, <3>3
  <2> QED  BY <2>9, <2>10 DEF Component
<1> QED  BY <1>5, <1>6

(* register() and findOriginal(): whatever the documents, as long as no two *)
(* replace one component in each other, nothing declared is lost.          *)
THEOREM NestedReplacementsLoseNothing == Spec => [](Nested => NoComponentLost)
<1>1. LoadInv /\ LinkInv /\ RegInv => (Nested => NoComponentLost)
  BY NothingLost DEF NoComponentLost
<1> QED  BY <1>1, LoadInvariant, RegistrationInvariant, PTL

-----------------------------------------------------------------------------
(* Derivation and substitution.                                            *)

(* A type definition.                                                      *)
Records == [variety : {"complex", "atomic", "list", "union"}, base : Nat,
            method : Methods \cup {"none"}, members : SUBSET Nat, facets : BOOLEAN,
            block : TypeBlocks \cup {{}}]

(* What a type says of its base and its members.                           *)
BaseBefore(t) == types[t].base < t /\ (types[t].base = NoType <=> t = AnyType)
MembersBefore(t) == \A m \in types[t].members : m < t /\ m > AnySimpleType /\ ~IsComplex(m)
MembersOfUnion(t) == ~IsUnion(t) => types[t].members = {} /\ ~types[t].facets
VarietyOfBase(t) ==
    ~IsComplex(t) /\ t # AnySimpleType =>
        LET b == types[t].base
        IN  /\ b # AnyType /\ ~IsComplex(b)
            /\ b # AnySimpleType => types[t].variety = types[b].variety /\ types[t].members = types[b].members
MethodOfComplex(t) == IsComplex(t) /\ t # AnyType => types[t].method \in Methods
Sound(t) ==
    BaseBefore(t) /\ MembersBefore(t) /\ MembersOfUnion(t) /\ VarietyOfBase(t) /\ MethodOfComplex(t)

(* The types of a schema, whatever their number: what each says is sound,  *)
(* and it says it of earlier types alone.                                  *)
TypesOK ==
    /\ types \in Seq(Records) /\ Len(types) >= AString
    /\ types[AnyType] = UrType /\ types[AnySimpleType] = Atomic(AnyType)
    /\ \A t \in Types : Sound(t)

(* Elements name types and earlier elements; an element that was not       *)
(* reported is excluded by none of its heads                               *)
(* (checkSubstitutionGroupExclusions).                                     *)
ElementsOK ==
    /\ elements \in Seq(Declarations)
    /\ \A e \in DOMAIN elements : \A h \in elements[e].heads : h < e
ReportedOK ==
    \A e \in DOMAIN elements : e \notin reported =>
        \A h \in elements[e].heads, t \in {elements[e].type} : ~Excluded(t, h)

(* The inductive invariant.                                                *)
SchemaOK == TypesOK /\ ElementsOK /\ ReportedOK

-----------------------------------------------------------------------------
(* What is known of one type.                                              *)
LEMMA TypeFacts ==
    ASSUME TypesOK, NEW t \in Types
    PROVE  /\ t \in Nat /\ t # NoType /\ types[t] \in Records /\ Sound(t)
           /\ t # AnyType => types[t].base \in Types
           /\ types[t].members \subseteq Types
           /\ types[t].base \in 0..Len(types)
<1>1. t \in Nat /\ t # NoType /\ types[t] \in Records /\ Sound(t) /\ Len(types) \in Nat
  BY DEF TypesOK, Types, NoType
<1>2. types[t].base \in Nat /\ types[t].members \subseteq Nat
  BY <1>1 DEF Records
<1>3. types[t].base < t /\ (types[t].base = 0 <=> t = 1)
  BY <1>1 DEF Sound, BaseBefore, NoType, AnyType
<1>4. \A m \in types[t].members : m < t /\ m > 2
  BY <1>1 DEF Sound, MembersBefore, AnySimpleType
<1>5. t <= Len(types)
  BY DEF Types
<1>6. t # AnyType => types[t].base \in Types
  BY <1>1, <1>2, <1>3, <1>5 DEF Types, AnyType
<1>7. types[t].members \subseteq Types
  BY <1>1, <1>2, <1>4, <1>5 DEF Types
<1>8. types[t].base \in 0..Len(types)
  BY <1>1, <1>2, <1>3, <1>5
<1> QED  BY <1>1, <1>6, <1>7, <1>8

(* The base chain, one step at a time.                                     *)
LEMMA AncestorsUnfold ==
    ASSUME TypesOK
    PROVE  /\ Ancestors(NoType) = {}
           /\ \A t \in Types : Ancestors(t) = {t} \cup Ancestors(types[t].base)
<1> DEFINE V == 0..Len(types)
           P == [c \in V |-> IF c = NoType THEN {} ELSE {types[c].base}]
           own == [c \in V |-> IF c = NoType THEN {} ELSE {c}]
           Up(f) == f = [c \in V |-> IF c = NoType THEN {} ELSE {c} \cup f[types[c].base]]
<1>0. \A t \in V : t # NoType => t \in Types
  BY DEF TypesOK, Types, NoType
<1>1. P \in [V -> SUBSET V]
  BY <1>0, TypeFacts
<1>2. PICK f : IsCollector(f, V, P, own)
  <2> HIDE DEF V, P, own
  <2> QED  BY ONLY <1>1, PartsCollected
<1>3. ASSUME NEW c \in V PROVE own[c] \cup UNION {f[p] : p \in P[c]} = IF c = NoType THEN {} ELSE {c} \cup f[types[c].base]
  <2>1. CASE c = NoType
    <3>1. own[c] = {} /\ P[c] = {}
      BY <2>1
    <3> QED  BY <3>1, <2>1
  <2>2. CASE c # NoType
    <3>1. own[c] = {c} /\ P[c] = {types[c].base}
      BY <2>2
    <3>2. UNION {f[p] : p \in P[c]} = f[types[c].base]
      BY <3>1
    <3> QED  BY <3>1, <3>2, <2>2
  <2> QED  BY <2>1, <2>2
<1>4. Up(f)
  BY <1>2, <1>3 DEF IsCollector
<1> DEFINE g == CHOOSE h : Up(h)
<1>5. Up(g)
  BY <1>4
<1>6. \A t : Ancestors(t) = g[t]
  BY DEF Ancestors
<1> HIDE DEF g
<1>7. NoType \in V /\ Types \subseteq V /\ NoType \notin Types
  BY DEF TypesOK, Types, NoType
<1> QED  BY <1>5, <1>6, <1>7

(* Induction over the types in the order of their declaration.             *)
LEMMA TypeInduction ==
    ASSUME TypesOK, NEW S, \A t \in Types : (\A k \in Types : k < t => k \in S) => t \in S
    PROVE  Types \subseteq S
<1> DEFINE N == {n \in Nat : n \in Types => n \in S}
<1>1. ASSUME NEW n \in Nat, \A k \in Nat : k < n => k \in N PROVE n \in N
  BY <1>1 DEF Types
<1> HIDE DEF N
<1>2. Nat \subseteq N
  BY <1>1, StrongInduction
<1> QED  BY <1>2 DEF N, Types

LEMMA AncestorsOfBase ==
    ASSUME TypesOK, NEW t \in Types
    PROVE  /\ t \in Ancestors(t)
           /\ t = AnyType => Ancestors(t) = {t}
           /\ t # AnyType => /\ types[t].base \in Types /\ types[t].base < t
                             /\ Ancestors(t) = {t} \cup Ancestors(types[t].base)
<1>1. Ancestors(t) = {t} \cup Ancestors(types[t].base) /\ Ancestors(NoType) = {}
  BY AncestorsUnfold
<1>2. t # AnyType => types[t].base \in Types
  BY TypeFacts
<1>3. types[t].base < t /\ (types[t].base = NoType <=> t = AnyType)
  BY TypeFacts DEF Sound, BaseBefore
<1> QED  BY <1>1, <1>2, <1>3

(* A base chain goes back to xs:anyType.                                   *)
LEMMA AncestorsEarlier ==
    ASSUME TypesOK, NEW t \in Types
    PROVE  /\ Ancestors(t) \subseteq Types /\ AnyType \in Ancestors(t)
           /\ \A c \in Ancestors(t) : c <= t
<1> DEFINE Holds(v) == /\ Ancestors(v) \subseteq Types /\ AnyType \in Ancestors(v)
                       /\ \A c \in Ancestors(v) : c <= v
           S == {v \in Types : Holds(v)}
<1>1. ASSUME NEW v \in Types, \A k \in Types : k < v => k \in S PROVE v \in S
  <2>1. CASE v = AnyType
    BY <2>1, AncestorsOfBase DEF Types
  <2>2. CASE v # AnyType
    <3>1. types[v].base \in S /\ types[v].base < v /\ Ancestors(v) = {v} \cup Ancestors(types[v].base)
      BY <1>1, <2>2, AncestorsOfBase
    <3> QED  BY <3>1 DEF Types
  <2> QED  BY <2>1, <2>2
<1> HIDE DEF S
<1>2. Types \subseteq S
  BY <1>1, TypeInduction
<1> QED  BY <1>2 DEF S

(* Two ancestors of a type are on one chain.                               *)
LEMMA AncestorsNest ==
    ASSUME TypesOK, NEW t \in Types, NEW b \in Ancestors(t)
    PROVE  /\ Ancestors(b) \subseteq Ancestors(t)
           /\ \A a \in Ancestors(t) : a <= b => a \in Ancestors(b)
<1> DEFINE Holds(v) == \A x \in Ancestors(v) : /\ Ancestors(x) \subseteq Ancestors(v)
                                               /\ \A a \in Ancestors(v) : a <= x => a \in Ancestors(x)
           S == {v \in Types : Holds(v)}
<1>1. ASSUME NEW v \in Types, \A k \in Types : k < v => k \in S PROVE Holds(v)
  <2>1. CASE v = AnyType
    BY <2>1, AncestorsOfBase
  <2>2. CASE v # AnyType
    <3> DEFINE w == types[v].base
    <3>1. w \in Types /\ w < v /\ Ancestors(v) = {v} \cup Ancestors(w) /\ Holds(w)
      BY <1>1, <2>2, AncestorsOfBase
    <3>2. \A x \in Ancestors(w) : x <= w /\ x \in Types
      BY <3>1, AncestorsEarlier
    <3> HIDE DEF w
    <3>3. \A x \in Ancestors(w) : ~(v <= x)
      BY <3>1, <3>2 DEF Types
    <3>4. ASSUME NEW x \in Ancestors(v), x # v
          PROVE  Ancestors(x) \subseteq Ancestors(v) /\ \A a \in Ancestors(v) : a <= x => a \in Ancestors(x)
      <4>1. x \in Ancestors(w)
        BY <3>1, <3>4
      <4> QED  BY <4>1, <3>1, <3>3
    <3> QED  BY <3>4
  <2> QED  BY <2>1, <2>2
<1>2. \A v \in Types : (\A k \in Types : k < v => k \in S) => v \in S
  BY <1>1
<1> HIDE DEF S
<1>3. Types \subseteq S
  BY <1>2, TypeInduction
<1> QED  BY <1>3 DEF S

(* The base chain of a simple type has simple types alone up to            *)
(* xs:anySimpleType, of one variety and with the same members.             *)
LEMMA SimpleChain ==
    ASSUME TypesOK, NEW t \in Types, ~IsComplex(t)
    PROVE  /\ AnySimpleType \in Ancestors(t)
           /\ \A c \in Ancestors(t) : c # AnyType => ~IsComplex(c)
           /\ \A c \in Ancestors(t) : c > AnySimpleType => (IsUnion(c) <=> IsUnion(t))
<1> DEFINE Holds(v) == ~IsComplex(v) =>
                         /\ AnySimpleType \in Ancestors(v)
                         /\ \A c \in Ancestors(v) : c # AnyType => ~IsComplex(c)
                         /\ \A c \in Ancestors(v) : c > AnySimpleType => (IsUnion(c) <=> IsUnion(v))
           S == {v \in Types : Holds(v)}
<1>0. AnySimpleType \in Types /\ AnyType \in Types /\ IsComplex(AnyType) /\ types[AnySimpleType].base = AnyType
  BY DEF TypesOK, Types, AnySimpleType, AnyType, AString, IsComplex, UrType, Atomic
<1>1. ASSUME NEW v \in Types, \A k \in Types : k < v => k \in S PROVE Holds(v)
  <2> SUFFICES ASSUME ~IsComplex(v)
               PROVE  /\ AnySimpleType \in Ancestors(v)
                      /\ \A c \in Ancestors(v) : c # AnyType => ~IsComplex(c)
                      /\ \A c \in Ancestors(v) : c > AnySimpleType => (IsUnion(c) <=> IsUnion(v))
    OBVIOUS
  <2>0. v # AnyType
    BY <1>0
  <2>1. types[v].base \in Types /\ types[v].base < v /\ Ancestors(v) = {v} \cup Ancestors(types[v].base)
    BY <2>0, AncestorsOfBase
  <2>2. CASE v = AnySimpleType
    <3>1. Ancestors(v) = {v, AnyType}
      BY <2>1, <2>2, <1>0, AncestorsOfBase
    <3> QED  BY <3>1, <2>2 DEF AnySimpleType, AnyType
  <2>3. CASE v # AnySimpleType
    <3>1. types[v].base # AnyType /\ ~IsComplex(types[v].base)
      BY <2>3, TypeFacts DEF Sound, VarietyOfBase
    <3>2. types[v].base # AnySimpleType => types[v].variety = types[types[v].base].variety
      BY <2>3, TypeFacts DEF Sound, VarietyOfBase
    <3>3. Holds(types[v].base)
      BY <1>1, <2>1
    <3>4. CASE types[v].base = AnySimpleType
      <4>1. Ancestors(types[v].base) = {AnySimpleType, AnyType}
        BY <3>4, <1>0, AncestorsOfBase
      <4>2. Ancestors(v) = {v, AnySimpleType, AnyType}
        BY <4>1, <2>1
      <4> QED  BY <4>2, <3>1, <3>4 DEF AnySimpleType, AnyType
    <3>5. CASE types[v].base # AnySimpleType
      <4>1. IsUnion(types[v].base) <=> IsUnion(v)
        BY <3>2, <3>5 DEF IsUnion
      <4> QED  BY <4>1, <3>1, <3>3, <2>1
    <3> QED  BY <3>4, <3>5
  <2> QED  BY <2>2, <2>3
<1>2. \A v \in Types : (\A k \in Types : k < v => k \in S) => v \in S
  BY <1>1
<1> HIDE DEF S
<1>3. Types \subseteq S
  BY <1>2, TypeInduction
<1> QED  BY <1>3 DEF S

(* No step leads from a type to itself.                                    *)
LEMMA ClimbsItself ==
    ASSUME TypesOK, NEW d \in Types, NEW blocked
    PROVE  Climbs(d, d, blocked) /\ StepsTo(d, d) = {}
<1>1. d \in Ancestors(d)
  BY AncestorsOfBase
<1>2. StepsTo(d, d) = {}
  BY AncestorsEarlier DEF StepsTo, Types
<1> QED  BY <1>1, <1>2 DEF Climbs, derivationMethods

(* To climb past a type is to make its own step, and to climb from its     *)
(* base.                                                                   *)
LEMMA ClimbsByBase ==
    ASSUME TypesOK, NEW d \in Types, NEW b \in Types, d # b, NEW blocked
    PROVE  Climbs(d, b, blocked) <=>
             d # AnyType /\ derivationMethod(d) \notin blocked /\ Climbs(types[d].base, b, blocked)
<1>1. CASE d = AnyType
  BY <1>1, AncestorsOfBase DEF Climbs
<1>2. CASE d # AnyType
  <2> DEFINE w == types[d].base
  <2>1. w \in Types /\ w < d /\ Ancestors(d) = {d} \cup Ancestors(w)
    BY <1>2, AncestorsOfBase
  <2> HIDE DEF w
  <2>2. b \in Ancestors(d) <=> b \in Ancestors(w)
    BY <2>1
  <2>3. ASSUME b \in Ancestors(w) PROVE StepsTo(d, b) = {d} \cup StepsTo(w, b)
    <3>1. b <= w
      BY <2>1, <2>3, AncestorsEarlier
    <3>2. d > b
      BY <3>1, <2>1 DEF Types
    <3> QED  BY <3>2, <2>1 DEF StepsTo
  <2>4. ASSUME b \in Ancestors(w) PROVE derivationMethods(d, b) = {derivationMethod(d)} \cup derivationMethods(w, b)
    BY <2>3, <2>4 DEF derivationMethods
  <2>5. Climbs(d, b, blocked) <=> derivationMethod(d) \notin blocked /\ Climbs(w, b, blocked)
    BY <2>2, <2>4 DEF Climbs
  <2> QED  BY <2>5, <1>2 DEF w
<1> QED  BY <1>1, <1>2

(* The steps of a simple type are restrictions, lists and unions: to block *)
(* extension blocks none.                                                  *)
LEMMA SimpleClimbs ==
    ASSUME TypesOK, NEW d \in Types, ~IsComplex(d), NEW b \in Types,
           NEW blocked, blocked \subseteq {"extension"}
    PROVE  Climbs(d, b, blocked) <=> b \in Ancestors(d)
<1>1. ASSUME NEW c \in StepsTo(d, b) PROVE derivationMethod(c) # "extension"
  <2>1. c \in Ancestors(d) /\ c > b /\ c \in Types
    BY AncestorsEarlier DEF StepsTo
  <2>2. c # AnyType
    BY <2>1 DEF Types, AnyType
  <2>3. ~IsComplex(c) /\ types[c] \in Records
    BY <2>1, <2>2, SimpleChain, TypeFacts
  <2>4. types[c].variety \in {"atomic", "list", "union"}
    BY <2>3 DEF IsComplex, Records
  <2> QED  BY <2>3, <2>4 DEF derivationMethod
<1> QED  BY <1>1 DEF Climbs, derivationMethods

-----------------------------------------------------------------------------
(* The recursive functions, one step at a time.                            *)
LEMMA UnionMemberUnfolds ==
    ASSUME TypesOK, NEW d, NEW blocked, NEW u \in Types
    PROVE  derivedFromUnionMember(d, u, blocked) <=>
             /\ ~types[u].facets
             /\ \E m \in types[u].members :
                  IF IsUnion(m) THEN derivedFromUnionMember(d, m, blocked)
                  ELSE d = m \/ Climbs(d, m, blocked)
<1> DEFINE Here(m) == d = m \/ Climbs(d, m, blocked)
           P == [v \in Types |-> {m \in types[v].members : IsUnion(m) /\ ~types[v].facets}]
           B == {v \in Types : ~types[v].facets /\ \E m \in types[v].members : ~IsUnion(m) /\ Here(m)}
           Body(f, v) == /\ ~types[v].facets
                         /\ \E m \in types[v].members : IF IsUnion(m) THEN f[m] ELSE Here(m)
           Is(f) == f = [v \in Types |-> Body(f, v)]
<1> HIDE DEF Here
<1>1. P \in [Types -> SUBSET Types]
  BY TypeFacts
<1>2. PICK f : IsSearcher(f, Types, P, B)
  <2> HIDE DEF P, B
  <2> QED  BY ONLY <1>1, PartsSearched
<1>3. ASSUME NEW v \in Types PROVE (v \in B \/ \E p \in P[v] : f[p]) = Body(f, v)
  <2>1. P[v] = {m \in types[v].members : IsUnion(m) /\ ~types[v].facets}
    OBVIOUS
  <2>2. v \in B <=> ~types[v].facets /\ \E m \in types[v].members : ~IsUnion(m) /\ Here(m)
    OBVIOUS
  <2> HIDE DEF P, B
  <2> QED  BY <2>1, <2>2, Zenon
<1>4. Is(f)
  <2> HIDE DEF P, B, Body
  <2>1. f = [v \in Types |-> v \in B \/ \E p \in P[v] : f[p]]
    BY <1>2, Zenon DEF IsSearcher
  <2>2. [v \in Types |-> v \in B \/ \E p \in P[v] : f[p]] = [v \in Types |-> Body(f, v)]
    BY <1>3, Zenon
  <2> QED  BY <2>1, <2>2, Zenon
<1> DEFINE g == CHOOSE h : Is(h)
<1>5. Is(g)
  <2> HIDE DEF Is
  <2> QED  BY <1>4, Zenon
<1>6. \A v : derivedFromUnionMember(d, v, blocked) = g[v]
  BY DEF derivedFromUnionMember, Here
<1>7. types[u].members \subseteq Types
  BY TypeFacts
<1> HIDE DEF g
<1>8. g[u] <=> Body(g, u)
  BY <1>5
<1> QED  BY <1>6, <1>7, <1>8, Zenon DEF Here

(* The builder's search of a union.                                        *)
LEMMA UnionRestrictionUnfolds ==
    ASSUME TypesOK, NEW d, NEW u \in Types
    PROVE  stDerivedFromUnion(d, u) <=>
             /\ ~types[u].facets
             /\ \E m \in types[u].members : m \in Ancestors(d) \/ (IsUnion(m) /\ stDerivedFromUnion(d, m))
<1> DEFINE P == [v \in Types |-> {m \in types[v].members : IsUnion(m) /\ ~types[v].facets}]
           B == {v \in Types : ~types[v].facets /\ \E m \in types[v].members : m \in Ancestors(d)}
           Body(f, v) == /\ ~types[v].facets
                         /\ \E m \in types[v].members : m \in Ancestors(d) \/ (IsUnion(m) /\ f[m])
           Is(f) == f = [v \in Types |-> Body(f, v)]
<1>1. P \in [Types -> SUBSET Types]
  BY TypeFacts
<1>2. PICK f : IsSearcher(f, Types, P, B)
  <2> HIDE DEF P, B
  <2> QED  BY ONLY <1>1, PartsSearched
<1>3. ASSUME NEW v \in Types PROVE (v \in B \/ \E p \in P[v] : f[p]) = Body(f, v)
  <2>1. P[v] = {m \in types[v].members : IsUnion(m) /\ ~types[v].facets}
    OBVIOUS
  <2>2. v \in B <=> ~types[v].facets /\ \E m \in types[v].members : m \in Ancestors(d)
    OBVIOUS
  <2> HIDE DEF P, B
  <2> QED  BY <2>1, <2>2, Zenon
<1>4. Is(f)
  <2> HIDE DEF P, B, Body
  <2>1. f = [v \in Types |-> v \in B \/ \E p \in P[v] : f[p]]
    BY <1>2, Zenon DEF IsSearcher
  <2>2. [v \in Types |-> v \in B \/ \E p \in P[v] : f[p]] = [v \in Types |-> Body(f, v)]
    BY <1>3, Zenon
  <2> QED  BY <2>1, <2>2, Zenon
<1> DEFINE g == CHOOSE h : Is(h)
<1>5. Is(g)
  <2> HIDE DEF Is
  <2> QED  BY <1>4, Zenon
<1>6. \A v : stDerivedFromUnion(d, v) = g[v]
  BY DEF stDerivedFromUnion
<1> HIDE DEF g
<1>8. g[u] <=> Body(g, u)
  BY <1>5
<1> QED  BY <1>6, <1>8, Zenon

(* The transitive membership of a union.                                   *)
LEMMA MembershipUnfolds ==
    ASSUME TypesOK, NEW u \in Types
    PROVE  Membership(u) = IF types[u].facets THEN {}
                           ELSE types[u].members \cup UNION {Membership(m) : m \in {x \in types[u].members : IsUnion(x)}}
<1> DEFINE P == [v \in Types |-> {m \in types[v].members : IsUnion(m) /\ ~types[v].facets}]
           own == [v \in Types |-> IF types[v].facets THEN {} ELSE types[v].members]
           Body(f, v) == IF types[v].facets THEN {}
                         ELSE types[v].members \cup UNION {f[m] : m \in {x \in types[v].members : IsUnion(x)}}
           Is(f) == f = [v \in Types |-> Body(f, v)]
<1>1. P \in [Types -> SUBSET Types]
  BY TypeFacts
<1>2. PICK f : IsCollector(f, Types, P, own)
  <2> HIDE DEF P, own
  <2> QED  BY ONLY <1>1, PartsCollected
<1>3. ASSUME NEW v \in Types PROVE own[v] \cup UNION {f[p] : p \in P[v]} = Body(f, v)
  <2>1. CASE types[v].facets
    <3>1. P[v] = {} /\ own[v] = {} /\ Body(f, v) = {}
      BY <2>1
    <3> QED  BY <3>1
  <2>2. CASE ~types[v].facets
    <3>1. P[v] = {x \in types[v].members : IsUnion(x)} /\ own[v] = types[v].members
      BY <2>2
    <3>2. Body(f, v) = types[v].members \cup UNION {f[m] : m \in {x \in types[v].members : IsUnion(x)}}
      BY <2>2
    <3> QED  BY <3>1, <3>2
  <2> QED  BY <2>1, <2>2
<1>4. Is(f)
  <2> HIDE DEF P, own, Body
  <2>1. f = [v \in Types |-> own[v] \cup UNION {f[p] : p \in P[v]}]
    BY <1>2 DEF IsCollector
  <2> QED  BY <2>1, <1>3
<1> DEFINE g == CHOOSE h : Is(h)
<1>5. Is(g)
  <2> HIDE DEF Is
  <2> QED  BY <1>4, Zenon
<1>6. \A v : Membership(v) = g[v]
  BY DEF Membership
<1> HIDE DEF g
<1>8. g[u] = Body(g, u)
  BY <1>5
<1> QED  BY <1>6, <1>8

(* Only unions have members, declared before them.                         *)
LEMMA MembershipEarlier ==
    ASSUME TypesOK, NEW u \in Types
    PROVE  \A m \in Membership(u) : m \in Types /\ m < u /\ IsUnion(u)
<1> DEFINE S == {v \in Types : \A m \in Membership(v) : m \in Types /\ m < v}
<1>0. \A v \in Types : /\ types[v].members \subseteq Types /\ \A m \in types[v].members : m < v
                       /\ ~IsUnion(v) => types[v].members = {}
  BY TypeFacts DEF Sound, MembersBefore, MembersOfUnion
<1>1. ASSUME NEW v \in Types, \A k \in Types : k < v => k \in S PROVE v \in S
  <2>1. ASSUME NEW m \in Membership(v) PROVE m \in Types /\ m < v
    <3>1. m \in types[v].members \/ \E x \in types[v].members : m \in Membership(x)
      BY MembershipUnfolds
    <3>2. ASSUME NEW x \in types[v].members, m \in Membership(x) PROVE m \in Types /\ m < v
      <4>1. x \in Types /\ x < v /\ x \in S
        BY <1>0, <1>1
      <4> QED  BY <4>1, <3>2 DEF Types
    <3> QED  BY <3>1, <3>2, <1>0
  <2> QED  BY <2>1
<1> HIDE DEF S
<1>2. Types \subseteq S
  BY <1>1, TypeInduction
<1>3. Membership(u) # {} => IsUnion(u)
  BY <1>0, MembershipUnfolds
<1> QED  BY <1>2, <1>3 DEF S

(* cos-st-derived-ok: a step goes to the base of the one type or to a      *)
(* member of the other.                                                    *)
LEMMA SimpleDerivedUnfolds ==
    ASSUME TypesOK, NEW d \in Types, NEW b \in Types, NEW blocked
    PROVE  SimpleDerived(d, b, blocked) =
             (\/ d = b
              \/ /\ "restriction" \notin blocked
                 /\ \/ types[d].base = b
                    \/ types[d].base \notin {NoType, AnyType} /\ SimpleDerived(types[d].base, b, blocked)
                    \/ types[d].variety \in {"list", "union"} /\ b = AnySimpleType
                    \/ \E m \in Membership(b) : SimpleDerived(d, m, blocked))
<1> DEFINE V == Types \X Types
           free == "restriction" \notin blocked
           Goes(x) == types[x].base \notin {NoType, AnyType}
           Here(x, y) == x = y \/ (free /\ (types[x].base = y \/ (types[x].variety \in {"list", "union"} /\ y = AnySimpleType)))
           P == [p \in V |-> IF free THEN {q \in V : (Goes(p[1]) /\ q = <<types[p[1]].base, p[2]>>) \/ (q[1] = p[1] /\ q[2] \in Membership(p[2]))}
                             ELSE {}]
           B == {p \in V : Here(p[1], p[2])}
           Body(f, x, y) == \/ x = y
                            \/ /\ "restriction" \notin blocked
                               /\ \/ types[x].base = y
                                  \/ types[x].base \notin {NoType, AnyType} /\ f[<<types[x].base, y>>]
                                  \/ types[x].variety \in {"list", "union"} /\ y = AnySimpleType
                                  \/ \E m \in Membership(y) : f[<<x, m>>]
           Is(f) == f = [p \in V |-> Body(f, p[1], p[2])]
<1>0. /\ \A x \in Types : Goes(x) => types[x].base \in Types
      /\ \A y \in Types : Membership(y) \subseteq Types
  <2>1. \A x \in Types : Goes(x) => types[x].base \in Types
    <3> SUFFICES ASSUME NEW x \in Types, types[x].base # NoType PROVE types[x].base \in Types
      BY Zenon
    <3> QED  BY TypeFacts DEF Sound, BaseBefore
  <2> QED  BY <2>1, MembershipEarlier
<1> HIDE DEF Goes, Here, free
<1>1. P \in [V -> SUBSET V]
  OBVIOUS
<1>2. PICK f : IsSearcher(f, V, P, B)
  <2> HIDE DEF P, B, V
  <2> QED  BY ONLY <1>1, PartsSearched
<1>3. ASSUME NEW x \in Types, NEW y \in Types
      PROVE (<<x, y>> \in B \/ \E q \in P[<<x, y>>] : f[q]) <=> Body(f, x, y)
  <2>0. <<x, y>> \in V
    OBVIOUS
  <2>1. <<x, y>> \in B <=> Here(x, y)
    BY <2>0
  <2>2. P[<<x, y>>] = IF free THEN {q \in V : (Goes(x) /\ q = <<types[x].base, y>>) \/ (q[1] = x /\ q[2] \in Membership(y))}
                      ELSE {}
    BY <2>0
  <2>3. ASSUME free
        PROVE  (\E q \in P[<<x, y>>] : f[q]) <=> (Goes(x) /\ f[<<types[x].base, y>>]) \/ \E m \in Membership(y) : f[<<x, m>>]
    <3>1. ASSUME NEW q \in P[<<x, y>>] PROVE (Goes(x) /\ q = <<types[x].base, y>>) \/ \E m \in Membership(y) : q = <<x, m>>
      BY <2>2, <2>3
    <3>2. Goes(x) => <<types[x].base, y>> \in P[<<x, y>>]
      BY <1>0, <2>2, <2>3
    <3>3. \A m \in Membership(y) : <<x, m>> \in P[<<x, y>>]
      BY <1>0, <2>2, <2>3
    <3> HIDE DEF P
    <3> QED  BY <3>1, <3>2, <3>3, Zenon
  <2>4. ~free => P[<<x, y>>] = {}
    BY <2>2
  <2>5. Body(f, x, y) <=> x = y \/ (free /\ (types[x].base = y \/ (Goes(x) /\ f[<<types[x].base, y>>])
                              \/ (types[x].variety \in {"list", "union"} /\ y = AnySimpleType) \/ \E m \in Membership(y) : f[<<x, m>>]))
    BY DEF Goes, free
  <2> HIDE DEF P, B, Body
  <2> QED  BY <2>1, <2>3, <2>4, <2>5, Zenon DEF Here
<1>4. Is(f)
  <2>0. ASSUME NEW p \in V PROVE p = <<p[1], p[2]>> /\ p[1] \in Types /\ p[2] \in Types
    OBVIOUS
  <2>3. ASSUME NEW p \in V PROVE (p \in B \/ \E q \in P[p] : f[q]) <=> Body(f, p[1], p[2])
    <3> HIDE DEF P, B, Body
    <3> QED  BY <1>3, <2>0
  <2>4. \A p : (p \in B \/ \E q \in P[p] : f[q]) \in BOOLEAN /\ Body(f, p[1], p[2]) \in BOOLEAN
    <3> HIDE DEF P, B
    <3> QED  BY Zenon
  <2> HIDE DEF P, B, Body, V
  <2>1. f = [v \in V |-> v \in B \/ \E p \in P[v] : f[p]]
    BY <1>2, Zenon DEF IsSearcher
  <2>2. [v \in V |-> v \in B \/ \E p \in P[v] : f[p]] = [v \in V |-> Body(f, v[1], v[2])]
    <3>1. \A p \in V : (p \in B \/ \E q \in P[p] : f[q]) = Body(f, p[1], p[2])
      BY <2>3, <2>4, Zenon
    <3> QED  BY <3>1, Zenon
  <2> QED  BY <2>1, <2>2, Zenon
<1> DEFINE g == CHOOSE h : Is(h)
<1>5. Is(g)
  <2> HIDE DEF Is
  <2> QED  BY <1>4, Zenon
<1>6. \A x, y : SimpleDerived(x, y, blocked) = g[<<x, y>>]
  BY DEF SimpleDerived
<1> HIDE DEF g
<1>8. g[<<d, b>>] = Body(g, d, b)
  <2>1. <<d, b>> \in V /\ <<d, b>>[1] = d /\ <<d, b>>[2] = b
    OBVIOUS
  <2>2. g[<<d, b>>] = Body(g, <<d, b>>[1], <<d, b>>[2])
    <3> HIDE DEF Body, V
    <3> QED  BY <1>5, <2>1
  <2> HIDE DEF Body
  <2> QED  BY <2>1, <2>2
<1> QED  BY <1>6, <1>8, Zenon

(* cos-ct-derived-ok: a step goes to the base.                             *)
LEMMA DerivedUnfolds ==
    ASSUME TypesOK, NEW d \in Types, NEW b \in Types, NEW blocked
    PROVE  /\ Derived(d, b, blocked) \in BOOLEAN
           /\ Derived(d, b, blocked) <=>
                IF ~IsComplex(d) THEN SimpleDerived(d, b, blocked)
                ELSE \/ d = b
                     \/ /\ types[d].method \notin blocked
                        /\ \/ types[d].base = b
                           \/ types[d].base \notin {NoType, AnyType} /\ Derived(types[d].base, b, blocked)
<1> DEFINE Simply(t) == SimpleDerived(t, b, blocked)
           P == [t \in Types |-> IF IsComplex(t) /\ types[t].method \notin blocked /\ types[t].base \notin {NoType, AnyType}
                                 THEN {types[t].base} ELSE {}]
           B == {t \in Types : IF ~IsComplex(t) THEN Simply(t) ELSE t = b \/ (types[t].method \notin blocked /\ types[t].base = b)}
           Body(f, t) == IF ~IsComplex(t) THEN Simply(t)
                         ELSE \/ t = b
                              \/ /\ types[t].method \notin blocked
                                 /\ \/ types[t].base = b
                                    \/ types[t].base \notin {NoType, AnyType} /\ f[types[t].base]
           Is(f) == f = [t \in Types |-> Body(f, t)]
<1> HIDE DEF Simply
<1>1. P \in [Types -> SUBSET Types]
  <2>1. \A t \in Types : types[t].base # NoType => types[t].base \in Types
    BY TypeFacts DEF Sound, BaseBefore
  <2> QED  BY <2>1
<1>2. PICK f : IsSearcher(f, Types, P, B)
  <2> HIDE DEF P, B
  <2> QED  BY ONLY <1>1, PartsSearched
<1>3. ASSUME NEW t \in Types PROVE (t \in B \/ \E q \in P[t] : f[q]) = Body(f, t)
  <2>1. P[t] = IF IsComplex(t) /\ types[t].method \notin blocked /\ types[t].base \notin {NoType, AnyType}
                                 THEN {types[t].base} ELSE {}
    OBVIOUS
  <2>2. t \in B <=> IF ~IsComplex(t) THEN Simply(t) ELSE t = b \/ (types[t].method \notin blocked /\ types[t].base = b)
    OBVIOUS
  <2>3. (\E q \in P[t] : f[q]) <=> IsComplex(t) /\ types[t].method \notin blocked /\ types[t].base \notin {NoType, AnyType} /\ f[types[t].base]
    <3> HIDE DEF P
    <3> QED  BY <2>1
  <2>4. (t \in B \/ \E q \in P[t] : f[q]) <=> Body(f, t)
    <3> HIDE DEF P, B
    <3> QED  BY <2>2, <2>3
  <2>5. Body(f, t) \in BOOLEAN /\ (t \in B \/ \E q \in P[t] : f[q]) \in BOOLEAN
    <3>1. SimpleDerived(t, b, blocked) \in BOOLEAN
      BY SimpleDerivedUnfolds, Zenon
    <3> HIDE DEF P, B
    <3> QED  BY <3>1, Zenon DEF Simply
  <2> HIDE DEF P, B, Body
  <2> QED  BY <2>4, <2>5, Zenon
<1>4. Is(f)
  <2> HIDE DEF P, B, Body
  <2>1. f = [v \in Types |-> v \in B \/ \E p \in P[v] : f[p]]
    BY <1>2, Zenon DEF IsSearcher
  <2>2. [v \in Types |-> v \in B \/ \E p \in P[v] : f[p]] = [v \in Types |-> Body(f, v)]
    BY <1>3, Zenon
  <2> QED  BY <2>1, <2>2, Zenon
<1> DEFINE g == CHOOSE h : Is(h)
<1>5. Is(g)
  <2> HIDE DEF Is
  <2> QED  BY <1>4, Zenon
<1>6. \A v : Derived(v, b, blocked) = g[v]
  BY DEF Derived, Simply
<1> HIDE DEF g
<1>8. g[d] = Body(g, d)
  BY <1>5
<1>9. Body(g, d) \in BOOLEAN
  <2>1. Simply(d) \in BOOLEAN
    BY SimpleDerivedUnfolds, Zenon DEF Simply
  <2> QED  BY <2>1, Zenon
<1>10. g[d] \in BOOLEAN
  <2> HIDE DEF Body
  <2> QED  BY <1>8, <1>9, Zenon
<1> QED  BY <1>6, <1>8, <1>10, Zenon DEF Simply

(* A union without unions among its members has these alone.               *)
LEMMA FlatUnions ==
    ASSUME TypesOK, NEW b \in Types, ~NestedUnion(b)
    PROVE  /\ Membership(b) = IF types[b].facets THEN {} ELSE types[b].members
           /\ \A m \in types[b].members :
                m \in Types /\ m < b /\ ~IsComplex(m) /\ ~IsUnion(m) /\ Membership(m) = {} /\ m > AnySimpleType
           /\ ~IsUnion(b) => Membership(b) = {}
<1>1. \A m \in types[b].members : ~IsUnion(m)
  BY DEF NestedUnion
<1>2. {x \in types[b].members : IsUnion(x)} = {}
  BY <1>1
<1>3. UNION {Membership(m) : m \in {x \in types[b].members : IsUnion(x)}} = {}
  BY <1>2
<1>4. Membership(b) = IF types[b].facets THEN {} ELSE types[b].members
  BY <1>3, MembershipUnfolds
<1>5. \A m \in types[b].members : m \in Types /\ m < b /\ ~IsComplex(m) /\ m > AnySimpleType
  BY TypeFacts DEF Sound, MembersBefore
<1>6. \A m \in Types : ~IsUnion(m) => Membership(m) = {}
  BY MembershipEarlier
<1> QED  BY <1>1, <1>4, <1>5, <1>6

(* Where restriction is allowed, a simple type is validly derived from its *)
(* ancestors, and from what its ancestors are members of.                  *)
LEMMA SimpleDerivedFrom ==
    ASSUME TypesOK, NEW blocked, "restriction" \notin blocked, NEW d \in Types, ~IsComplex(d)
    PROVE  /\ \A b \in Types : Membership(b) = {} => (SimpleDerived(d, b, blocked) <=> b \in Ancestors(d))
           /\ \A b \in Types : ~NestedUnion(b) =>
                (SimpleDerived(d, b, blocked) <=> b \in Ancestors(d) \/ \E m \in Membership(b) : m \in Ancestors(d))
<1> DEFINE From(x, y) == SimpleDerived(x, y, blocked)
           Plain(x) == \A y \in Types : Membership(y) = {} => (From(x, y) <=> y \in Ancestors(x))
           Flat(x) == \A y \in Types : ~NestedUnion(y) =>
                         (From(x, y) <=> y \in Ancestors(x) \/ \E m \in Membership(y) : m \in Ancestors(x))
           S == {x \in Types : ~IsComplex(x) => Plain(x) /\ Flat(x)}
<1>0. \A x \in Types, y \in Types :
         From(x, y) <=> \/ x = y
                        \/ types[x].base = y
                        \/ types[x].base \notin {NoType, AnyType} /\ From(types[x].base, y)
                        \/ types[x].variety \in {"list", "union"} /\ y = AnySimpleType
                        \/ \E m \in Membership(y) : From(x, m)
  BY SimpleDerivedUnfolds, Zenon
<1> HIDE DEF From
<1>1. ASSUME NEW x \in Types, ~IsComplex(x), \A k \in Types : k < x => k \in S PROVE Plain(x) /\ Flat(x)
  <2> DEFINE w == types[x].base
  <2>0. x # AnyType
    BY <1>1 DEF TypesOK, IsComplex, UrType, Atomic, AnyType
  <2>1. w \in Types /\ w < x /\ Ancestors(x) = {x} \cup Ancestors(w) /\ w \in Ancestors(w) /\ w # NoType
    BY <2>0, <1>1, AncestorsOfBase DEF Types, NoType
  <2>2. w # AnyType => ~IsComplex(w) /\ Plain(w) /\ Flat(w)
    <3>1. w \in Ancestors(x) /\ w \in S
      BY <2>1, <1>1
    <3> QED  BY <3>1, <1>1, SimpleChain
  <2>3. w = AnyType => Ancestors(w) = {w}
    BY <2>1, AncestorsOfBase
  <2>4. AnySimpleType \in Ancestors(x)
    BY <1>1, SimpleChain
  <2>5. \A y \in Types :
         From(x, y) <=> \/ x = y
                        \/ w = y
                        \/ w # AnyType /\ From(w, y)
                        \/ types[x].variety \in {"list", "union"} /\ y = AnySimpleType
                        \/ \E m \in Membership(y) : From(x, m)
    BY <1>0, <2>1
  <2> HIDE DEF w, S
  <2>6. Plain(x)
    <3> SUFFICES ASSUME NEW y \in Types, Membership(y) = {} PROVE From(x, y) <=> y \in Ancestors(x)
      OBVIOUS
    <3>1. w # AnyType => (From(w, y) <=> y \in Ancestors(w))
      BY <2>2
    <3> HIDE DEF Plain, Flat
    <3> QED  BY <3>1, <2>1, <2>3, <2>4, <2>5
  <2>7. Flat(x)
    <3> SUFFICES ASSUME NEW y \in Types, ~NestedUnion(y)
                 PROVE  From(x, y) <=> y \in Ancestors(x) \/ \E m \in Membership(y) : m \in Ancestors(x)
      OBVIOUS
    <3>1. w # AnyType => (From(w, y) <=> y \in Ancestors(w) \/ \E m \in Membership(y) : m \in Ancestors(w))
      BY <2>2
    <3>2. \A m \in Membership(y) : m \in Types /\ Membership(m) = {}
      BY FlatUnions
    <3>3. \A m \in Membership(y) : From(x, m) <=> m \in Ancestors(x)
      BY <3>2, <2>6
    <3> HIDE DEF Plain, Flat
    <3> QED  BY <3>1, <3>3, <2>1, <2>3, <2>4, <2>5
  <2> QED  BY <2>6, <2>7
<1>2. \A x \in Types : (\A k \in Types : k < x => k \in S) => x \in S
  <2> HIDE DEF Plain, Flat
  <2> QED  BY <1>1
<1> HIDE DEF S
<1>3. Types \subseteq S
  BY <1>2, TypeInduction
<1> QED  BY <1>3 DEF S, From

(* The search of DerivationOK through such a union.                        *)
LEMMA MemberOfFlatUnion ==
    ASSUME TypesOK, NEW d \in Types, NEW b \in Types, ~NestedUnion(b), NEW blocked
    PROVE  derivedFromUnionMember(d, b, blocked) <=> \E m \in Membership(b) : Climbs(d, m, blocked)
<1>1. derivedFromUnionMember(d, b, blocked) <=>
        ~types[b].facets /\ \E m \in types[b].members : d = m \/ Climbs(d, m, blocked)
  BY UnionMemberUnfolds DEF NestedUnion
<1>2. \A m \in types[b].members : d = m => Climbs(d, m, blocked)
  BY ClimbsItself
<1> QED  BY <1>1, <1>2, FlatUnions

(* DerivationOK is exact on simple types.                                  *)
LEMMA ExactOnSimple ==
    ASSUME TypesOK, NEW d \in Types, NEW b \in Types, ~IsComplex(d), NEW blocked \in SUBSET Methods,
           ~NestedUnion(b), ~("restriction" \in blocked /\ PastListOrUnion(d, b))
    PROVE  DerivationOK(d, b, blocked) <=> SimpleDerived(d, b, blocked)
<1>1. CASE "restriction" \notin blocked
  <2>1. blocked \subseteq {"extension"}
    BY <1>1 DEF Methods
  <2>2. Climbs(d, b, blocked) <=> b \in Ancestors(d)
    BY <2>1, SimpleClimbs
  <2>3. \A m \in Membership(b) : m \in Types /\ (Climbs(d, m, blocked) <=> m \in Ancestors(d))
    BY <2>1, SimpleClimbs, MembershipEarlier
  <2>4. SimpleDerived(d, b, blocked) <=> b \in Ancestors(d) \/ \E m \in Membership(b) : m \in Ancestors(d)
    BY <1>1, SimpleDerivedFrom
  <2>5. IsUnion(b) /\ derivedFromUnionMember(d, b, blocked) <=> \E m \in Membership(b) : Climbs(d, m, blocked)
    BY MemberOfFlatUnion, MembershipEarlier
  <2>6. d \in Ancestors(d)
    BY AncestorsOfBase
  <2> QED  BY <2>2, <2>3, <2>4, <2>5, <2>6 DEF DerivationOK
<1>2. CASE "restriction" \in blocked
  <2>1. ~IsUnion(b) /\ derivationMethods(d, b) \cap {"list", "union"} = {}
    BY <1>2 DEF PastListOrUnion
  <2>2. SimpleDerived(d, b, blocked) <=> d = b
    BY <1>2, SimpleDerivedUnfolds, Zenon
  <2>3. ASSUME Climbs(d, b, blocked), d # b PROVE FALSE
    <3>1. b \in Ancestors(d) /\ d \in Ancestors(d) /\ b <= d
      BY <2>3, AncestorsOfBase, AncestorsEarlier DEF Climbs
    <3>2. d \in StepsTo(d, b)
      BY <3>1, <2>3 DEF StepsTo, Types
    <3>3. derivationMethod(d) \in derivationMethods(d, b)
      BY <3>2 DEF derivationMethods
    <3>4. derivationMethod(d) \in {"restriction", "list", "union"}
      BY TypeFacts DEF derivationMethod, IsComplex, Records
    <3> QED  BY <3>3, <3>4, <2>1, <2>3, <1>2 DEF Climbs
  <2> QED  BY <2>1, <2>2, <2>3 DEF DerivationOK
<1> QED  BY <1>1, <1>2

(* And on complex types, whose chain may end in simple content: induction  *)
(* along the chain, on which a list or a union that is not passed below is *)
(* not passed above either.                                                *)
LEMMA ExactOnTypes ==
    ASSUME TypesOK, NEW b \in Types, NEW blocked \in SUBSET Methods, ~NestedUnion(b), NEW d \in Types
    PROVE  \/ "restriction" \in blocked /\ PastListOrUnion(d, b)
           \/ DerivationOK(d, b, blocked) <=> Derived(d, b, blocked)
<1> DEFINE Agree(x) == DerivationOK(x, b, blocked) <=> Derived(x, b, blocked)
           Excused(x) == "restriction" \in blocked /\ PastListOrUnion(x, b)
           S == {x \in Types : Excused(x) \/ Agree(x)}
<1>1. ASSUME NEW x \in Types, \A k \in Types : k < x => k \in S, ~Excused(x) PROVE Agree(x)
  <2>1. CASE ~IsComplex(x)
    <3>1. DerivationOK(x, b, blocked) <=> SimpleDerived(x, b, blocked)
      BY <2>1, <1>1, ExactOnSimple
    <3> QED  BY <3>1, <2>1, DerivedUnfolds
  <2>2. CASE IsComplex(x) /\ x = b
    BY <2>2, DerivedUnfolds DEF DerivationOK
  <2>3. CASE IsComplex(x) /\ x # b /\ x = AnyType
    <3>1. types[x].base = NoType /\ b # NoType
      BY <2>3, TypeFacts DEF Sound, BaseBefore
    <3>2. ~Derived(x, b, blocked)
      BY <3>1, <2>3, DerivedUnfolds
    <3>3. ~Climbs(x, b, blocked) /\ \A m \in Membership(b) : ~Climbs(x, m, blocked)
      <4>1. Ancestors(x) = {AnyType}
        BY <2>3, AncestorsOfBase
      <4>2. \A m \in Membership(b) : m # AnyType
        BY FlatUnions DEF AnySimpleType, AnyType
      <4> QED  BY <4>1, <4>2, <2>3 DEF Climbs
    <3> QED  BY <3>2, <3>3, <2>3, MemberOfFlatUnion DEF DerivationOK
  <2>4. CASE IsComplex(x) /\ x # b /\ x # AnyType
    <3> DEFINE w == types[x].base
    <3>1. w \in Types /\ w < x /\ w # NoType
      BY <2>4, AncestorsOfBase DEF Types, NoType
    <3>2. ~Excused(w)
      <4>1. derivationMethods(w, b) \subseteq derivationMethods(x, b)
        BY <2>4, AncestorsOfBase DEF derivationMethods, StepsTo
      <4> QED  BY <4>1, <1>1 DEF PastListOrUnion
    <3>3. Agree(w)
      BY <1>1, <3>1, <3>2
    <3>4. derivationMethod(x) = types[x].method
      BY <2>4 DEF derivationMethod
    <3>5. Climbs(x, b, blocked) <=> types[x].method \notin blocked /\ Climbs(w, b, blocked)
      BY <2>4, <3>4, ClimbsByBase
    <3>6. \A m \in Membership(b) : Climbs(x, m, blocked) <=> types[x].method \notin blocked /\ Climbs(w, m, blocked)
      <4>1. \A m \in Membership(b) : m \in Types /\ m # x
        BY <2>4, FlatUnions, MembershipEarlier
      <4> QED  BY <4>1, <2>4, <3>4, ClimbsByBase
    <3>7. w = b => Climbs(w, b, blocked)
      BY <3>1, ClimbsItself
    <3>8. /\ IsUnion(b) /\ derivedFromUnionMember(x, b, blocked) <=> \E m \in Membership(b) : Climbs(x, m, blocked)
          /\ IsUnion(b) /\ derivedFromUnionMember(w, b, blocked) <=> \E m \in Membership(b) : Climbs(w, m, blocked)
      BY <3>1, MemberOfFlatUnion, MembershipEarlier
    <3>9. DerivationOK(x, b, blocked) <=> types[x].method \notin blocked /\ DerivationOK(w, b, blocked)
      BY <2>4, <3>5, <3>6, <3>7, <3>8 DEF DerivationOK
    <3>10. Derived(x, b, blocked) <=> types[x].method \notin blocked /\ (w = b \/ (w # AnyType /\ Derived(w, b, blocked)))
      BY <2>4, <3>1, DerivedUnfolds
    <3>11. w = b => Derived(w, b, blocked)
      BY <3>1, DerivedUnfolds, SimpleDerivedUnfolds
    <3>12. w = AnyType /\ Derived(w, b, blocked) => w = b
      <4>1. IsComplex(AnyType) /\ types[AnyType].base = NoType /\ b # NoType
        BY DEF TypesOK, IsComplex, UrType, Atomic, Types, NoType
      <4> QED  BY <4>1, <3>1, DerivedUnfolds
    <3> HIDE DEF w
    <3> QED  BY <3>3, <3>9, <3>10, <3>11, <3>12
  <2> QED  BY <2>1, <2>2, <2>3, <2>4
<1>2. \A x \in Types : (\A k \in Types : k < x => k \in S) => x \in S
  <2> HIDE DEF Agree, Excused
  <2> QED  BY <1>1
<1> HIDE DEF S
<1>3. Types \subseteq S
  BY <1>2, TypeInduction
<1> QED  BY <1>3 DEF S

(* In the form of the property.                                            *)
LEMMA XsiTypeExactForTypes == TypesOK => XsiTypeExact
<1> SUFFICES ASSUME TypesOK, NEW d \in Types, NEW b \in Types, NEW blocked \in SUBSET Methods
             PROVE  \/ NestedUnion(b)
                    \/ "restriction" \in blocked /\ PastListOrUnion(d, b)
                    \/ DerivationOK(d, b, blocked) = Derived(d, b, blocked)
  BY Zenon DEF XsiTypeExact
<1>1. SimpleDerived(d, b, blocked) \in BOOLEAN
  BY SimpleDerivedUnfolds, Zenon
<1>2. Derived(d, b, blocked) \in BOOLEAN
  BY <1>1, DerivedUnfolds, Zenon
<1>3. DerivationOK(d, b, blocked) \in BOOLEAN
  BY Zenon DEF DerivationOK
<1> QED  BY <1>2, <1>3, ExactOnTypes, Zenon

-----------------------------------------------------------------------------
(* What counts as derived from a member of a union, at any depth, counts   *)
(* as derived from the union.                                              *)
LEMMA MemberCounts ==
    ASSUME TypesOK, NEW x \in Types, NEW y \in Types, NEW m \in Membership(y),
           m \in Ancestors(x) \/ (IsUnion(m) /\ stDerivedFromUnion(x, m))
    PROVE  stDerivedFromUnion(x, y)
<1> DEFINE Counts(n) == n \in Ancestors(x) \/ (IsUnion(n) /\ stDerivedFromUnion(x, n))
           S == {v \in Types : \A n \in Membership(v) : Counts(n) => stDerivedFromUnion(x, v)}
<1>1. ASSUME NEW v \in Types, \A k \in Types : k < v => k \in S PROVE v \in S
  <2> SUFFICES ASSUME NEW n \in Membership(v), Counts(n) PROVE stDerivedFromUnion(x, v)
    OBVIOUS
  <2>1. ~types[v].facets /\ (n \in types[v].members \/ \E u \in types[v].members : IsUnion(u) /\ n \in Membership(u))
    BY MembershipUnfolds
  <2>2. stDerivedFromUnion(x, v) <=> \E p \in types[v].members : p \in Ancestors(x) \/ (IsUnion(p) /\ stDerivedFromUnion(x, p))
    BY <2>1, UnionRestrictionUnfolds
  <2>3. ASSUME NEW u \in types[v].members, IsUnion(u), n \in Membership(u) PROVE stDerivedFromUnion(x, u)
    <3>1. u \in Types /\ u < v
      BY TypeFacts DEF Sound, MembersBefore
    <3> QED  BY <3>1, <2>3, <1>1
  <2> QED  BY <2>1, <2>2, <2>3
<1> HIDE DEF S
<1>2. Types \subseteq S
  BY <1>1, TypeInduction
<1> QED  BY <1>2 DEF S

(* A type with more ancestors is not derived from fewer unions.            *)
LEMMA LargerClimb ==
    ASSUME TypesOK, NEW w \in Types, NEW x \in Types, Ancestors(w) \subseteq Ancestors(x),
           NEW y \in Types, stDerivedFromUnion(w, y)
    PROVE  stDerivedFromUnion(x, y)
<1> DEFINE S == {v \in Types : stDerivedFromUnion(w, v) => stDerivedFromUnion(x, v)}
<1>1. ASSUME NEW v \in Types, \A k \in Types : k < v => k \in S PROVE v \in S
  <2>1. \A u \in types[v].members : u \in Types /\ u < v
    BY TypeFacts DEF Sound, MembersBefore
  <2> QED  BY <2>1, <1>1, UnionRestrictionUnfolds
<1> HIDE DEF S
<1>2. Types \subseteq S
  BY <1>1, TypeInduction
<1> QED  BY <1>2 DEF S

(* What validlyDerivedByRestriction makes sure of.                         *)
Counted(x, y) == y \in Ancestors(x) \/ (IsUnion(y) /\ stDerivedFromUnion(x, y))

(* What is validly derived from a base by restriction counts as derived.   *)
LEMMA SimpleCounted ==
    ASSUME TypesOK, NEW d \in Types, NEW b \in Types, ~IsComplex(d), SimpleDerived(d, b, {})
    PROVE  Counted(d, b)
<1> DEFINE Holds(x, y) == ~IsComplex(x) /\ SimpleDerived(x, y, {}) => Counted(x, y)
           S == {n \in Nat : \A x, y \in Types : x + y = n => Holds(x, y)}
<1>1. ASSUME NEW n \in Nat, \A k \in Nat : k < n => k \in S, NEW x \in Types, NEW y \in Types, x + y = n,
             ~IsComplex(x), SimpleDerived(x, y, {})
      PROVE  Counted(x, y)
  <2> DEFINE w == types[x].base
  <2>0. x # AnyType
    BY <1>1 DEF TypesOK, IsComplex, UrType, Atomic, AnyType
  <2>1. w \in Types /\ w < x /\ Ancestors(x) = {x} \cup Ancestors(w) /\ w \in Ancestors(w)
    BY <2>0, AncestorsOfBase
  <2>2. \/ x = y
        \/ w = y
        \/ w # AnyType /\ SimpleDerived(w, y, {})
        \/ y = AnySimpleType
        \/ \E m \in Membership(y) : SimpleDerived(x, m, {})
    <3> HIDE DEF w
    <3> QED  BY <1>1, SimpleDerivedUnfolds, Zenon DEF w
  <2>3. \A u, v \in Types : u + v < n => Holds(u, v)
    <3> SUFFICES ASSUME NEW u \in Types, NEW v \in Types, u + v < n PROVE Holds(u, v)
      BY Zenon
    <3>1. u + v \in Nat
      BY DEF Types
    <3>2. u + v \in S
      BY <3>1, <1>1
    <3> QED  BY <3>2
  <2>4. ASSUME w # AnyType, SimpleDerived(w, y, {}) PROVE Counted(x, y)
    <3>1. ~IsComplex(w)
      BY <2>1, <2>4, <1>1, SimpleChain
    <3>2. w + y < n
      BY <1>1, <2>1 DEF Types
    <3>3. Counted(w, y)
      BY <2>1, <2>3, <2>4, <3>1, <3>2
    <3>4. stDerivedFromUnion(w, y) => stDerivedFromUnion(x, y)
      BY <2>1, LargerClimb
    <3> QED  BY <2>1, <3>3, <3>4 DEF Counted
  <2>5. ASSUME NEW m \in Membership(y), SimpleDerived(x, m, {}) PROVE Counted(x, y)
    <3>1. m \in Types /\ m < y /\ IsUnion(y)
      BY MembershipEarlier
    <3>2. x + m < n
      BY <1>1, <3>1 DEF Types
    <3>3. Counted(x, m)
      BY <1>1, <2>3, <2>5, <3>1, <3>2
    <3> QED  BY <3>1, <3>3, MemberCounts DEF Counted
  <2>6. x \in Ancestors(x) /\ AnySimpleType \in Ancestors(x)
    BY <1>1, AncestorsOfBase, SimpleChain
  <2> HIDE DEF w
  <2> QED  BY <2>1, <2>2, <2>4, <2>5, <2>6 DEF Counted
<1>2. \A n \in Nat : (\A k \in Nat : k < n => k \in S) => n \in S
  BY <1>1
<1> HIDE DEF S
<1>3. Nat \subseteq S
  BY <1>2, StrongInduction
<1>4. d + b \in Nat
  BY DEF Types
<1> QED  BY <1>3, <1>4 DEF S

(* The same of all types, by induction along the base chain.               *)
LEMMA DerivedCounted ==
    ASSUME TypesOK, NEW b \in Types, NEW d \in Types, Derived(d, b, {})
    PROVE  Counted(d, b)
<1> DEFINE S == {x \in Types : Derived(x, b, {}) => Counted(x, b)}
<1>1. ASSUME NEW x \in Types, \A k \in Types : k < x => k \in S PROVE x \in S
  <2> SUFFICES ASSUME Derived(x, b, {}) PROVE Counted(x, b)
    OBVIOUS
  <2>1. CASE ~IsComplex(x)
    BY <2>1, DerivedUnfolds, SimpleCounted
  <2>2. CASE IsComplex(x)
    <3>1. \/ x = b
          \/ types[x].base = b
          \/ types[x].base \notin {NoType, AnyType} /\ Derived(types[x].base, b, {})
      BY <2>2, DerivedUnfolds
    <3>2. CASE x = b
      BY <3>2, AncestorsOfBase DEF Counted
    <3>3. CASE x # b
      <4>1. x # AnyType
        <5>1. types[AnyType].base = NoType /\ b # NoType
          BY DEF TypesOK, UrType, Atomic, Types, NoType
        <5> QED  BY <5>1, <3>1, <3>3
      <4> DEFINE w == types[x].base
      <4>2. w \in Types /\ w < x /\ Ancestors(x) = {x} \cup Ancestors(w) /\ w \in Ancestors(w)
        BY <4>1, AncestorsOfBase
      <4>3. w = b \/ Derived(w, b, {})
        BY <3>1, <3>3
      <4> HIDE DEF w
      <4>4. Counted(w, b)
        BY <4>2, <4>3, <1>1 DEF Counted
      <4> QED  BY <4>2, <4>4, LargerClimb DEF Counted
    <3> QED  BY <3>2, <3>3
  <2> QED  BY <2>1, <2>2
<1> HIDE DEF S
<1>2. Types \subseteq S
  BY <1>1, TypeInduction
<1> QED  BY <1>2 DEF S

(* The two deciders of the builder against the one of the assessor.        *)
LEMMA DecidersAgreeOnTypes == TypesOK => DecidersAgree
<1> SUFFICES ASSUME TypesOK PROVE DecidersAgree
  OBVIOUS
<1>1. RestrictionNecessary
  BY DerivedCounted DEF RestrictionNecessary, Counted, validlyDerivedByRestriction
<1>2. AlternativesAssessable
  <2> SUFFICES ASSUME NEW s \in Types, NEW t \in Types, NEW block, t # AnyType, ~IsUnion(t)
               PROVE  validlySubstitutable(s, t, block) = DerivationOK(s, t, block \cup types[t].block)
    BY Zenon DEF AlternativesAssessable
  <2>1. validlySubstitutable(s, t, block) <=> SubstitutableByChain(s, t, block)
    BY DEF validlySubstitutable
  <2>2. SubstitutableByChain(s, t, block) <=> Climbs(s, t, block \cup types[t].block)
    BY DEF SubstitutableByChain, Climbs
  <2>3. s = t => Climbs(s, t, block \cup types[t].block)
    BY ClimbsItself
  <2>4. DerivationOK(s, t, block \cup types[t].block) <=> Climbs(s, t, block \cup types[t].block)
    BY <2>3 DEF DerivationOK
  <2>5. validlySubstitutable(s, t, block) \in BOOLEAN /\ DerivationOK(s, t, block \cup types[t].block) \in BOOLEAN
    BY Zenon DEF validlySubstitutable, DerivationOK
  <2>6. validlySubstitutable(s, t, block) <=> DerivationOK(s, t, block \cup types[t].block)
    BY <2>1, <2>2, <2>4
  <2> DEFINE L == validlySubstitutable(s, t, block)
             R == DerivationOK(s, t, block \cup types[t].block)
  <2>7. L \in BOOLEAN /\ R \in BOOLEAN /\ (L <=> R)
    BY <2>5, <2>6, Zenon
  <2> HIDE DEF L, R
  <2>8. L = R
    <3>1. CASE L
      BY <2>7, <3>1
    <3>2. CASE ~L
      BY <2>7, <3>2
    <3> QED  BY <3>1, <3>2
  <2> QED  BY <2>8 DEF L, R
<1> QED  BY <1>1, <1>2 DEF DecidersAgree

-----------------------------------------------------------------------------
(* What is known of one element.                                           *)
LEMMA ElementFacts ==
    ASSUME ElementsOK, NEW e \in DOMAIN elements
    PROVE  /\ e \in Nat /\ elements[e].type \in Types
           /\ elements[e].heads \subseteq DOMAIN elements
           /\ \A h \in elements[e].heads : h < e
           /\ DOMAIN elements \subseteq Nat
<1>1. elements[e] \in Declarations /\ DOMAIN elements = 1..Len(elements) /\ Len(elements) \in Nat
  BY DEF ElementsOK
<1>2. elements[e].type \in Types /\ elements[e].heads \in SUBSET DOMAIN elements
  BY <1>1 DEF Declarations
<1>3. DOMAIN elements \subseteq Nat
  BY <1>1
<1> QED  BY <1>2, <1>3 DEF ElementsOK

(* Induction over the elements, heads before members.                      *)
LEMMA ElementInduction ==
    ASSUME ElementsOK, NEW S, \A e \in DOMAIN elements : (\A x \in elements[e].heads : x \in S) => e \in S
    PROVE  DOMAIN elements \subseteq S
<1> DEFINE N == {n \in Nat : n \in DOMAIN elements => n \in S}
<1>1. ASSUME NEW n \in Nat, \A k \in Nat : k < n => k \in N PROVE n \in N
  <2> SUFFICES ASSUME n \in DOMAIN elements PROVE n \in S
    OBVIOUS
  <2>1. \A x \in elements[n].heads : x \in Nat /\ x < n /\ x \in DOMAIN elements
    BY ElementFacts
  <2> QED  BY <2>1, <1>1
<1> HIDE DEF N
<1>2. Nat \subseteq N
  BY <1>1, StrongInduction
<1>3. \A e \in DOMAIN elements : e \in Nat
  BY ElementFacts
<1> QED  BY <1>2, <1>3 DEF N

(* The names the static checks count, one head at a time.                  *)
LEMMA AcceptedUnfolds ==
    ASSUME ElementsOK, NEW h, NEW m \in DOMAIN elements
    PROVE  m \in Accepted(h) <=> m = h \/ \E x \in elements[m].heads : x \in Accepted(h)
<1> DEFINE V == DOMAIN elements
           P == [e \in V |-> elements[e].heads]
           B == {e \in V : e = h}
           Body(f, e) == e = h \/ \E x \in elements[e].heads : f[x]
           Is(f) == f = [e \in V |-> Body(f, e)]
<1>1. P \in [V -> SUBSET V]
  BY ElementFacts
<1>2. PICK f : IsSearcher(f, V, P, B)
  <2> HIDE DEF P, B, V
  <2> QED  BY ONLY <1>1, PartsSearched
<1>3. ASSUME NEW e \in V PROVE (e \in B \/ \E q \in P[e] : f[q]) = Body(f, e)
  <2>1. P[e] = elements[e].heads /\ (e \in B <=> e = h)
    OBVIOUS
  <2> HIDE DEF P, B
  <2> QED  BY <2>1, Zenon
<1>4. Is(f)
  <2> HIDE DEF P, B, Body
  <2>1. f = [v \in V |-> v \in B \/ \E p \in P[v] : f[p]]
    BY <1>2, Zenon DEF IsSearcher
  <2>2. [v \in V |-> v \in B \/ \E p \in P[v] : f[p]] = [v \in V |-> Body(f, v)]
    BY <1>3, Zenon
  <2> QED  BY <2>1, <2>2, Zenon
<1> DEFINE g == CHOOSE r : Is(r)
<1>5. Is(g)
  <2> HIDE DEF Is
  <2> QED  BY <1>4, Zenon
<1>6. Accepted(h) = {e \in V : g[e]}
  BY DEF Accepted
<1> HIDE DEF g
<1>7. g[m] <=> Body(g, m)
  BY <1>5
<1>8. elements[m].heads \subseteq V
  BY ElementFacts
<1> QED  BY <1>6, <1>7, <1>8

(* The chains of substitutions that lead to h.                             *)
ChainsTo(c, h) ==
    /\ \A e \in DOMAIN elements : c[e] <=> \E x \in elements[e].heads : Linked(e, x) /\ (x = h \/ c[x])
    /\ \A m \in DOMAIN elements : SubstitutableFor(m, h) = (m = h \/ ("substitution" \notin elements[h].block /\ c[m]))

LEMMA ChainUnfolds ==
    ASSUME ElementsOK, NEW h
    PROVE  \E c : ChainsTo(c, h)
<1> DEFINE V == DOMAIN elements
           P == [e \in V |-> {x \in elements[e].heads : Linked(e, x)}]
           B == {e \in V : \E x \in elements[e].heads : Linked(e, x) /\ x = h}
           Body(f, e) == \E x \in elements[e].heads : Linked(e, x) /\ (x = h \/ f[x])
           Is(f) == f = [e \in V |-> Body(f, e)]
<1>1. P \in [V -> SUBSET V]
  BY ElementFacts
<1>2. PICK f : IsSearcher(f, V, P, B)
  <2> HIDE DEF P, B, V
  <2> QED  BY ONLY <1>1, PartsSearched
<1>3. ASSUME NEW e \in V PROVE (e \in B \/ \E q \in P[e] : f[q]) = Body(f, e)
  <2>1. P[e] = {x \in elements[e].heads : Linked(e, x)}
    OBVIOUS
  <2>2. e \in B <=> \E x \in elements[e].heads : Linked(e, x) /\ x = h
    OBVIOUS
  <2> HIDE DEF P, B
  <2> QED  BY <2>1, <2>2, Zenon
<1>4. Is(f)
  <2> HIDE DEF P, B, Body
  <2>1. f = [v \in V |-> v \in B \/ \E p \in P[v] : f[p]]
    BY <1>2, Zenon DEF IsSearcher
  <2>2. [v \in V |-> v \in B \/ \E p \in P[v] : f[p]] = [v \in V |-> Body(f, v)]
    BY <1>3, Zenon
  <2> QED  BY <2>1, <2>2, Zenon
<1> DEFINE g == CHOOSE r : Is(r)
<1>5. Is(g)
  <2> HIDE DEF Is
  <2> QED  BY <1>4, Zenon
<1>6. \A m : SubstitutableFor(m, h) = (m = h \/ ("substitution" \notin elements[h].block /\ g[m]))
  BY DEF SubstitutableFor
<1> HIDE DEF g
<1>7. \A e \in V : g[e] <=> Body(g, e)
  BY <1>5
<1> QED  BY <1>6, <1>7, Zenon DEF ChainsTo

(* By induction along the chain of heads.                                  *)
LEMMA ChecksCover == ElementsOK => StaticChecksCover
<1> SUFFICES ASSUME ElementsOK, NEW m \in DOMAIN elements, NEW h \in DOMAIN elements, SubstitutableFor(m, h)
             PROVE  m \in Accepted(h)
  BY DEF StaticChecksCover
<1>1. PICK c : ChainsTo(c, h)
  BY ChainUnfolds
<1> DEFINE S == {e \in DOMAIN elements : c[e] => e \in Accepted(h)}
<1>2. h \in Accepted(h)
  BY AcceptedUnfolds
<1>3. ASSUME NEW e \in DOMAIN elements, \A x \in elements[e].heads : x \in S PROVE e \in S
  <2> SUFFICES ASSUME c[e] PROVE e \in Accepted(h)
    OBVIOUS
  <2>1. \E x \in elements[e].heads : x = h \/ c[x]
    BY <1>1 DEF ChainsTo
  <2>2. \E x \in elements[e].heads : x \in Accepted(h)
    BY <2>1, <1>2, <1>3
  <2> QED  BY <2>2, AcceptedUnfolds
<1> HIDE DEF S
<1>4. DOMAIN elements \subseteq S
  BY <1>3, ElementInduction
<1>5. m = h \/ c[m]
  BY <1>1 DEF ChainsTo
<1> QED  BY <1>2, <1>4, <1>5 DEF S

(* What has a union above it is no member of that union, and comes from    *)
(* none.                                                                   *)
LEMMA BelowUnionNoMember ==
    ASSUME TypesOK, NEW d \in Types, NEW b \in Ancestors(d), IsUnion(b), NEW blocked
    PROVE  ~derivedFromUnionMember(d, b, blocked)
<1> DEFINE S == {v \in Types : v <= b => ~derivedFromUnionMember(d, v, blocked)}
<1>0. b \in Types /\ b <= d
  BY AncestorsEarlier
<1>1. ASSUME NEW v \in Types, \A k \in Types : k < v => k \in S PROVE v \in S
  <2> SUFFICES ASSUME v <= b, derivedFromUnionMember(d, v, blocked) PROVE FALSE
    OBVIOUS
  <2>1. PICK m \in types[v].members : IF IsUnion(m) THEN derivedFromUnionMember(d, m, blocked)
                                      ELSE d = m \/ Climbs(d, m, blocked)
    BY UnionMemberUnfolds
  <2>2. m \in Types /\ m < v /\ m > AnySimpleType
    BY TypeFacts DEF Sound, MembersBefore
  <2>3. m < b /\ m <= b
    BY <1>0, <2>2 DEF Types
  <2>4. CASE IsUnion(m)
    BY <2>1, <2>2, <2>3, <2>4, <1>1
  <2>5. CASE ~IsUnion(m)
    <3>1. d = m \/ Climbs(d, m, blocked)
      BY <2>1, <2>5
    <3>2. m \in Ancestors(d)
      BY <3>1, <2>2, <1>0, AncestorsOfBase DEF Climbs
    <3>3. m \in Ancestors(b)
      BY <3>2, <2>3, AncestorsNest
    <3>4. ~IsComplex(b)
      BY DEF IsUnion, IsComplex
    <3> QED  BY <3>3, <3>4, <1>0, <2>2, <2>5, SimpleChain
  <2> QED  BY <2>4, <2>5
<1> HIDE DEF S
<1>2. Types \subseteq S
  BY <1>1, TypeInduction
<1> QED  BY <1>0, <1>2 DEF S, Types

(* One link: the exclusions of the head that were not reported are the     *)
(* only ones the matcher adds to the blocks of the Recommendation.         *)
LEMMA OneLink == SchemaOK => OneLinkExact
<1> SUFFICES ASSUME SchemaOK, NEW m \in DOMAIN elements, NEW h \in elements[m].heads,
                    elements[m].heads = {h}, m \notin reported,
                    \A t \in Intermediate(elements[m].type, elements[h].type) : types[t].block = {}
             PROVE  SubstitutableFor(m, h) = SubstitutionOK(m, h)
  BY Zenon DEF OneLinkExact
<1> DEFINE d == elements[m].type
           b == elements[h].type
           E == elements[h].block \cup types[b].block
<1>0. TypesOK /\ ElementsOK
  BY DEF SchemaOK
<1>1. /\ h \in DOMAIN elements /\ h < m /\ h # m
      /\ d \in Types /\ b \in Types
  <2>1. h \in DOMAIN elements /\ h < m /\ m \in Nat
    BY <1>0, ElementFacts
  <2> QED  BY <2>1, <1>0, ElementFacts
<1>2. b \in Ancestors(d) /\ derivationMethods(d, b) \cap elements[h].final = {}
  BY <1>1 DEF SchemaOK, ReportedOK, Excluded
<1>3. m \in Accepted(h)
  <2>1. h \in Accepted(h)
    BY <1>0, <1>1, AcceptedUnfolds
  <2> QED  BY <2>1, <1>0, AcceptedUnfolds
<1>4. PICK c : ChainsTo(c, h)
  BY <1>0, ChainUnfolds
<1>5. c[m] <=> Linked(m, h)
  BY <1>4 DEF ChainsTo
<1>6. IsUnion(b) => ~derivedFromUnionMember(d, b, Exclusions(h))
  BY <1>0, <1>1, <1>2, BelowUnionNoMember
<1>7. d = b => derivationMethods(d, b) = {}
  BY <1>0, <1>1, ClimbsItself DEF derivationMethods
<1>8. DerivationOK(d, b, Exclusions(h)) <=> derivationMethods(d, b) \cap E = {}
  <2>1. Exclusions(h) = elements[h].final \cup E
    BY DEF Exclusions
  <2>2. derivationMethods(d, b) \cap Exclusions(h) = {} <=> derivationMethods(d, b) \cap E = {}
    BY <1>2, <2>1
  <2> QED  BY <1>2, <1>6, <1>7, <2>2 DEF DerivationOK, Climbs
<1>9. UNION ({elements[h].block, types[b].block} \cup {types[t].block : t \in Intermediate(d, b)}) = E
  OBVIOUS
<1>10. SubstitutionOK(m, h) <=> "substitution" \notin elements[h].block /\ derivationMethods(d, b) \cap E = {}
  BY <1>1, <1>2, <1>3, <1>9 DEF SubstitutionOK
<1>11. SubstitutableFor(m, h) = (m = h \/ ("substitution" \notin elements[h].block /\ c[m]))
  BY <1>4 DEF ChainsTo
<1>12. SubstitutableFor(m, h) <=> SubstitutionOK(m, h)
  BY <1>1, <1>5, <1>8, <1>10, <1>11 DEF Linked
<1>13. Linked(m, h) \in BOOLEAN /\ SubstitutionOK(m, h) \in BOOLEAN
  BY Zenon DEF Linked, SubstitutionOK
<1>14. SubstitutableFor(m, h) \in BOOLEAN
  BY <1>11, Zenon
<1> QED  BY <1>12, <1>13, <1>14, Zenon

LEMMA SubstitutionRuled == SchemaOK => SubstitutionRules
  BY ChecksCover, OneLink DEF SchemaOK, SubstitutionRules

(* A type that may be declared next.                                       *)
Fits(r) ==
    /\ r \in Records /\ r.base \in Types
    /\ \A m \in r.members : m \in Types /\ m > AnySimpleType /\ ~IsComplex(m)
    /\ r.variety # "union" => r.members = {} /\ ~r.facets
    /\ r.variety # "complex" =>
         /\ r.base # AnyType /\ ~IsComplex(r.base)
         /\ r.base # AnySimpleType => r.variety = types[r.base].variety /\ r.members = types[r.base].members
    /\ r.variety = "complex" => r.method \in Methods

(* A type that fits leaves the earlier ones as they are.                   *)
LEMMA TypesStaySound ==
    ASSUME TypesOK, NEW r, Fits(r), types' = Append(types, r)
    PROVE  TypesOK'
<1>0. PICK n : n = Len(types) + 1
  OBVIOUS
<1>1. Len(types) \in Nat /\ Len(types) >= AString /\ types \in Seq(Records) /\ r \in Records
  BY DEF TypesOK, Fits
<1>2. types' \in Seq(Records) /\ Len(types') = n /\ Types' = Types \cup {n} /\ n \notin Types /\ n \in Nat
  BY <1>0, <1>1 DEF Types
<1>3. \A t \in Types : types'[t] = types[t]
  BY <1>1 DEF Types
<1>4. types'[n] = r
  BY <1>0, <1>1
<1>5. \A t \in Types : (IsComplex(t)' <=> IsComplex(t)) /\ (IsUnion(t)' <=> IsUnion(t))
  BY <1>3 DEF IsComplex, IsUnion
<1>6. ASSUME NEW t \in Types PROVE Sound(t)'
  <2>1. Sound(t) /\ types'[t] = types[t] /\ types[t].members \subseteq Types
    BY <1>3, TypeFacts
  <2>2. t # AnyType => types[t].base \in Types
    BY TypeFacts
  <2>3. IsComplex(AnyType)
    BY DEF TypesOK, IsComplex, UrType, Atomic
  <2>4. BaseBefore(t)'
    BY <2>1 DEF Sound, BaseBefore
  <2>5. MembersBefore(t)'
    BY <2>1, <1>5 DEF Sound, MembersBefore
  <2>6. MembersOfUnion(t)'
    BY <2>1, <1>5 DEF Sound, MembersOfUnion
  <2>7. VarietyOfBase(t)'
    <3> SUFFICES ASSUME ~IsComplex(t)', t # AnySimpleType PROVE VarietyOfBase(t)'
      BY DEF VarietyOfBase
    <3>1. ~IsComplex(t) /\ t # AnyType
      BY <1>5, <2>3
    <3>2. types[t].base \in Types /\ types'[types[t].base] = types[types[t].base]
      BY <3>1, <2>2, <1>3
    <3> QED  BY <3>1, <3>2, <2>1, <1>5 DEF Sound, VarietyOfBase
  <2>8. MethodOfComplex(t)'
    BY <2>1, <1>5 DEF Sound, MethodOfComplex
  <2> QED  BY <2>4, <2>5, <2>6, <2>7, <2>8 DEF Sound
<1>7. Sound(n)'
  <2>0. Fits(r) /\ r.base \in Types /\ types'[r.base] = types[r.base] /\ (IsComplex(r.base)' <=> IsComplex(r.base))
    BY <1>3, <1>5 DEF Fits
  <2>1. IsComplex(n)' <=> r.variety = "complex"
    BY <1>4 DEF IsComplex
  <2>2. IsUnion(n)' <=> r.variety = "union"
    BY <1>4 DEF IsUnion
  <2>3. n > AnySimpleType /\ n # AnyType /\ n # NoType /\ r.base # NoType /\ r.base < n
    BY <1>0, <1>1, <2>0 DEF AString, AnySimpleType, AnyType, NoType, Types
  <2>4. BaseBefore(n)'
    BY <1>4, <2>3 DEF BaseBefore
  <2>5. MembersBefore(n)'
    <3>1. \A m \in r.members : m \in Types /\ m > AnySimpleType /\ ~IsComplex(m)'
      BY <1>5 DEF Fits
    <3>2. \A m \in Types : m < n
      BY <1>0, <1>1 DEF Types
    <3> QED  BY <3>1, <3>2, <1>4 DEF MembersBefore
  <2>6. MembersOfUnion(n)'
    BY <1>4, <2>2 DEF MembersOfUnion, Fits
  <2>7. VarietyOfBase(n)'
    BY <1>4, <2>0, <2>1 DEF VarietyOfBase, Fits
  <2>8. MethodOfComplex(n)'
    BY <1>4, <2>1 DEF MethodOfComplex, Fits
  <2> QED  BY <2>4, <2>5, <2>6, <2>7, <2>8 DEF Sound
<1>8. types'[AnyType] = UrType /\ types'[AnySimpleType] = Atomic(AnyType) /\ Len(types') >= AString
  <2>1. AnyType \in Types /\ AnySimpleType \in Types
    BY <1>1 DEF AString, AnySimpleType, AnyType, Types
  <2>2. types'[AnyType] = types[AnyType] /\ types'[AnySimpleType] = types[AnySimpleType]
    BY <2>1, <1>3
  <2>3. Len(types') >= AString
    BY <1>0, <1>1, <1>2 DEF AString
  <2> QED  BY <2>2, <2>3 DEF TypesOK
<1> QED  BY <1>2, <1>6, <1>7, <1>8 DEF TypesOK

LEMMA DeclaredTypesKeep ==
    ASSUME SchemaOK, NEW r, Fits(r), Declare(r), MoreTypes
    PROVE  SchemaOK'
<1>1. TypesOK'
  BY TypesStaySound DEF SchemaOK, Declare
<1>2. elements' = << >>
  BY DEF Declare, MoreTypes
<1>3. ElementsOK'
  BY <1>2 DEF ElementsOK
<1>4. ReportedOK'
  BY <1>2 DEF ReportedOK
<1> QED  BY <1>1, <1>3, <1>4 DEF SchemaOK

(* The types a simple type can be built from.                              *)
LEMMA SimpleIsSimple ==
    ASSUME TypesOK, NEW t \in Simple
    PROVE  t \in Types /\ ~IsComplex(t) /\ t > AnySimpleType /\ t # AnyType
<1>1. t \in Types /\ ~IsComplex(t) /\ t # AnySimpleType
  BY DEF Simple
<1>2. t # AnyType
  BY <1>1 DEF TypesOK, IsComplex, UrType, Atomic
<1> QED  BY <1>1, <1>2 DEF Types, AnyType, AnySimpleType

LEMMA AtomicRecord == \A b \in Nat : Atomic(b) \in Records /\ UrType \in Records
  BY DEF Atomic, UrType, Records, Methods, NoType

(* The built-in types, and the five declarations.                          *)
LEMMA SchemaInit == DerivationInit => SchemaOK
<1> SUFFICES ASSUME DerivationInit PROVE SchemaOK
  OBVIOUS
<1>1. types = <<UrType, Atomic(1), Atomic(2)>> /\ elements = << >>
  BY DEF DerivationInit, AnyType, AnySimpleType
<1>2. Len(types) = 3 /\ types[1] = UrType /\ types[2] = Atomic(1) /\ types[3] = Atomic(2)
  BY <1>1
<1>3. types \in Seq(Records)
  BY <1>1, AtomicRecord
<1>4. Types = {1, 2, 3}
  BY <1>2 DEF Types
<1>5. Sound(1)
  BY <1>2 DEF Sound, BaseBefore, MembersBefore, MembersOfUnion, VarietyOfBase, MethodOfComplex,
              IsComplex, IsUnion, UrType, Atomic, NoType, AnyType, AnySimpleType
<1>6. Sound(2)
  BY <1>2 DEF Sound, BaseBefore, MembersBefore, MembersOfUnion, VarietyOfBase, MethodOfComplex,
              IsComplex, IsUnion, UrType, Atomic, NoType, AnyType, AnySimpleType
<1>7. Sound(3)
  BY <1>2 DEF Sound, BaseBefore, MembersBefore, MembersOfUnion, VarietyOfBase, MethodOfComplex,
              IsComplex, IsUnion, UrType, Atomic, NoType, AnyType, AnySimpleType
<1>8. TypesOK
  BY <1>2, <1>3, <1>4, <1>5, <1>6, <1>7 DEF TypesOK, AString, AnyType, AnySimpleType
<1>9. ElementsOK /\ ReportedOK
  BY <1>1 DEF ElementsOK, ReportedOK
<1> QED  BY <1>8, <1>9 DEF SchemaOK

LEMMA SchemaRestrict ==
    ASSUME SchemaOK, NEW b \in Simple, NEW facets \in BOOLEAN, RestrictSimple(b, facets)
    PROVE  SchemaOK'
<1> DEFINE r == [types[b] EXCEPT !.base = b, !.facets = @ \/ facets]
<1>0. TypesOK
  BY DEF SchemaOK
<1>1. b \in Types /\ ~IsComplex(b) /\ b > AnySimpleType /\ b # AnyType /\ types[b] \in Records /\ Sound(b) /\ b \in Nat
  BY <1>0, SimpleIsSimple, TypeFacts
<1>2. /\ r.variety = types[b].variety /\ r.base = b /\ r.members = types[b].members
      /\ r.facets = (types[b].facets \/ facets)
      /\ r \in Records
  BY <1>1 DEF Records
<1>3. MoreTypes /\ Declare(r) /\ (facets => IsUnion(b))
  BY DEF RestrictSimple
<1> HIDE DEF r
<1>4. r.variety # "complex"
  BY <1>1, <1>2 DEF IsComplex
<1>5. \A m \in types[b].members : m \in Types /\ m > AnySimpleType /\ ~IsComplex(m)
  BY <1>0, <1>1, TypeFacts DEF Sound, MembersBefore
<1>6. r.variety # "union" => r.members = {} /\ ~r.facets
  BY <1>1, <1>2, <1>3 DEF Sound, MembersOfUnion, IsUnion
<1>7. Fits(r)
  BY <1>1, <1>2, <1>4, <1>5, <1>6 DEF Fits
<1> QED  BY <1>3, <1>7, DeclaredTypesKeep

LEMMA SchemaList ==
    ASSUME SchemaOK, NEW item, ListOf(item)
    PROVE  SchemaOK'
<1> DEFINE r == [Atomic(AnySimpleType) EXCEPT !.variety = "list"]
<1>0. TypesOK /\ AnySimpleType \in Types
  BY DEF SchemaOK, TypesOK, Types, AnySimpleType, AString
<1>1. /\ r.variety = "list" /\ r.base = AnySimpleType /\ r.members = {} /\ r.facets = FALSE
      /\ r \in Records
  BY AtomicRecord DEF Records, Atomic, AnySimpleType, Methods
<1>2. MoreTypes /\ Declare(r)
  BY DEF ListOf
<1> HIDE DEF r
<1>3. ~IsComplex(AnySimpleType) /\ AnySimpleType # AnyType
  BY <1>0 DEF TypesOK, IsComplex, Atomic, AnySimpleType, AnyType
<1>4. Fits(r)
  BY <1>0, <1>1, <1>3 DEF Fits
<1> QED  BY <1>2, <1>4, DeclaredTypesKeep

LEMMA SchemaUnion ==
    ASSUME SchemaOK, NEW members \in SUBSET Simple, UnionOf(members)
    PROVE  SchemaOK'
<1> DEFINE r == [Atomic(AnySimpleType) EXCEPT !.variety = "union", !.members = members]
<1>0. TypesOK /\ AnySimpleType \in Types
  BY DEF SchemaOK, TypesOK, Types, AnySimpleType, AString
<1>1. \A m \in members : m \in Types /\ m > AnySimpleType /\ ~IsComplex(m) /\ m \in Nat
  BY <1>0, SimpleIsSimple DEF Types
<1>2. /\ r.variety = "union" /\ r.base = AnySimpleType /\ r.members = members
      /\ r \in Records
  BY <1>1, AtomicRecord DEF Records, Atomic, AnySimpleType, Methods
<1>3. MoreTypes /\ Declare(r)
  BY DEF UnionOf
<1> HIDE DEF r
<1>4. ~IsComplex(AnySimpleType) /\ AnySimpleType # AnyType
  BY <1>0 DEF TypesOK, IsComplex, Atomic, AnySimpleType, AnyType
<1>5. Fits(r)
  BY <1>0, <1>1, <1>2, <1>4 DEF Fits
<1> QED  BY <1>3, <1>5, DeclaredTypesKeep

LEMMA SchemaComplex ==
    ASSUME SchemaOK, NEW b \in Types, NEW method \in Methods, NEW block \in TypeBlocks,
           DeriveComplex(b, method, block)
    PROVE  SchemaOK'
<1> DEFINE r == [UrType EXCEPT !.base = b, !.method = method, !.block = block]
<1>1. b \in Nat
  BY DEF SchemaOK, TypesOK, Types
<1>2. /\ r.variety = "complex" /\ r.base = b /\ r.members = {} /\ r.facets = FALSE /\ r.method = method
      /\ r \in Records
  BY <1>1 DEF Records, UrType, Atomic
<1>3. MoreTypes /\ Declare(r)
  BY DEF DeriveComplex
<1> HIDE DEF r
<1>4. Fits(r)
  BY <1>2 DEF Fits
<1> QED  BY <1>3, <1>4, DeclaredTypesKeep

(* Later elements exclude nothing that earlier ones did not.               *)
LEMMA ExclusionKept ==
    ASSUME types' = types, NEW t, NEW h, elements'[h] = elements[h]
    PROVE  Excluded(t, h)' <=> Excluded(t, h)
<1>1. \A x : Ancestors(x)' = Ancestors(x)
  BY DEF Ancestors
<1>2. \A c : derivationMethod(c)' = derivationMethod(c)
  BY DEF derivationMethod, IsComplex
<1>3. \A x, b : StepsTo(x, b)' = StepsTo(x, b)
  BY <1>1 DEF StepsTo
<1>4. \A x, b : derivationMethods(x, b)' = derivationMethods(x, b)
  BY <1>2, <1>3 DEF derivationMethods
<1>5. PICK b : b = elements[h].type
  OBVIOUS
<1>6. b = elements'[h].type /\ elements'[h].final = elements[h].final
  BY <1>5
<1> QED  BY <1>1, <1>4, <1>5, <1>6 DEF Excluded

LEMMA TypesKept ==
    ASSUME TypesOK, types' = types
    PROVE  TypesOK'
  BY DEF TypesOK, Sound, Types, BaseBefore, MembersBefore, MembersOfUnion, VarietyOfBase,
         MethodOfComplex, IsComplex, IsUnion

LEMMA SchemaElement ==
    ASSUME SchemaOK, NEW e \in Declarations, DeclareElement(e)
    PROVE  SchemaOK'
<1>0. PICK n : n = Len(elements) + 1
  OBVIOUS
<1>1. types' = types /\ elements' = Append(elements, e)
  BY DEF DeclareElement
<1>2. TypesOK'
  BY <1>1, TypesKept DEF SchemaOK
<1>3. elements \in Seq(Declarations) /\ Len(elements) \in Nat /\ DOMAIN elements = 1..Len(elements)
  BY DEF SchemaOK, ElementsOK
<1>4. DOMAIN elements' = DOMAIN elements \cup {n} /\ n \notin DOMAIN elements /\ n \in Nat
  BY <1>0, <1>1, <1>3
<1>5. elements'[n] = e /\ \A x \in DOMAIN elements : elements'[x] = elements[x]
  BY <1>0, <1>1, <1>3
<1>6. Declarations \subseteq Declarations'
  BY <1>1, <1>4 DEF Declarations, Types
<1>7. e.heads \subseteq DOMAIN elements /\ \A x \in DOMAIN elements : elements[x].heads \subseteq DOMAIN elements
  BY ElementFacts DEF SchemaOK, Declarations
<1>8. ElementsOK'
  <2>1. elements' \in Seq(Declarations')
    <3>1. elements' \in Seq(Declarations)
      BY <1>1, <1>3
    <3>2. \A S, T : S \subseteq T => Seq(S) \subseteq Seq(T)
      OBVIOUS
    <3> QED  BY <3>1, <3>2, <1>6
  <2>2. \A x \in DOMAIN elements' : \A h \in elements'[x].heads : h < x
    <3>1. \A h \in e.heads : h < n
      BY <1>0, <1>3, <1>7
    <3> QED  BY <3>1, <1>4, <1>5 DEF SchemaOK, ElementsOK
  <2> QED  BY <2>1, <2>2 DEF ElementsOK
<1>9. \A t : \A h \in DOMAIN elements : Excluded(t, h)' <=> Excluded(t, h)
  BY <1>1, <1>5, ExclusionKept
<1>10. ReportedOK'
  <2> SUFFICES ASSUME NEW x \in DOMAIN elements', x \notin reported', NEW h \in elements'[x].heads,
                      NEW t, t = elements'[x].type
               PROVE  ~Excluded(t, h)'
    BY DEF ReportedOK
  <2>1. reported' = IF \E g \in e.heads : Excluded(e.type, g) THEN reported \cup {n} ELSE reported
    BY <1>0 DEF DeclareElement
  <2>2. CASE x = n
    <3>1. ~ \E g \in e.heads : Excluded(e.type, g)
      BY <2>1, <2>2 DEF SchemaOK
    <3> QED  BY <3>1, <2>2, <1>5, <1>7, <1>9
  <2>3. CASE x # n
    <3>1. x \in DOMAIN elements /\ x \notin reported /\ elements'[x] = elements[x]
      BY <2>1, <2>3, <1>4, <1>5
    <3>2. h \in DOMAIN elements /\ ~Excluded(t, h)
      BY <3>1, <1>7 DEF SchemaOK, ReportedOK
    <3> QED  BY <3>1, <3>2, <1>9
  <2> QED  BY <2>2, <2>3
<1> QED  BY <1>2, <1>8, <1>10 DEF SchemaOK

(* Whatever is declared, in whatever number: bases, members and heads come *)
(* first, a simple type has the variety and the members of its base, and   *)
(* what was not reported is not excluded.                                  *)
THEOREM SchemaInvariant == DerivationSpec => []SchemaOK
<1>1. SchemaOK /\ [DerivationNext]_derivationVars => SchemaOK'
  <2> SUFFICES ASSUME SchemaOK, [DerivationNext]_derivationVars PROVE SchemaOK'
    OBVIOUS
  <2>1. CASE UNCHANGED derivationVars
    <3>1. types' = types /\ elements' = elements /\ reported' = reported
      BY <2>1 DEF derivationVars
    <3>2. TypesOK'
      BY <3>1, TypesKept DEF SchemaOK
    <3>3. ElementsOK'
      BY <3>1 DEF SchemaOK, ElementsOK, Declarations, Types
    <3>4. \A t, h : Excluded(t, h)' <=> Excluded(t, h)
      BY <3>1, ExclusionKept
    <3>5. ReportedOK'
      BY <3>1, <3>4 DEF SchemaOK, ReportedOK
    <3> QED  BY <3>2, <3>3, <3>5 DEF SchemaOK
  <2>2. CASE \E b \in Simple, facets \in BOOLEAN : RestrictSimple(b, facets)
    BY <2>2, SchemaRestrict
  <2>3. CASE \E item \in Simple : ListOf(item)
    BY <2>3, SchemaList
  <2>4. CASE \E members \in SUBSET Simple : members # {} /\ Cardinality(members) <= 2 /\ UnionOf(members)
    BY <2>4, SchemaUnion
  <2>5. CASE \E b \in Types, method \in Methods, block \in TypeBlocks : DeriveComplex(b, method, block)
    BY <2>5, SchemaComplex
  <2>6. CASE \E e \in Declarations : DeclareElement(e)
    BY <2>6, SchemaElement
  <2> QED  BY <2>1, <2>2, <2>3, <2>4, <2>5, <2>6 DEF DerivationNext
<1> QED  BY <1>1, SchemaInit, PTL DEF DerivationSpec

(* DerivationOK (xsdwalk/query.go) accepts for xsi:type exactly the types  *)
(* the Recommendation calls validly derived, for schemas of any size and   *)
(* every blocked set, unions of unions and a blocked restriction past a    *)
(* list or a union aside.                                                  *)
THEOREM XsiTypeAlwaysExact == DerivationSpec => []XsiTypeExact
<1>1. SchemaOK => XsiTypeExact
  BY XsiTypeExactForTypes DEF SchemaOK
<1> QED  BY <1>1, SchemaInvariant, PTL

(* The builder (parser/restrict.go) never rejects as a restriction what is *)
(* validly derived, and a type alternative it accepts is one xsi:type may  *)
(* name, for schemas of any size.                                          *)
THEOREM DecidersAlwaysAgree == DerivationSpec => []DecidersAgree
<1>1. SchemaOK => DecidersAgree
  BY DecidersAgreeOnTypes DEF SchemaOK
<1> QED  BY <1>1, SchemaInvariant, PTL

(* Whatever the matcher accepts for the head of a substitution group       *)
(* (SubstitutableFor, xsdwalk/query.go), through chains of any length, the *)
(* static checks have counted; and over one link without blocks between it *)
(* accepts exactly what the Recommendation does.                           *)
THEOREM SubstitutionAlwaysRuled == DerivationSpec => []SubstitutionRules
  BY SubstitutionRuled, SchemaInvariant, PTL
=============================================================================
