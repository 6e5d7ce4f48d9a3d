-------------------------------- MODULE Cycles --------------------------------
(***************************************************************************)
(* What the schema builder does about circular definitions.  Simple types  *)
(* are built whole when first referred to, so one that is met again while  *)
(* it is being built is circular.  The other components get shells first;  *)
(* then come, schema by schema, checkTypeCycles and checkGroupCycles, and  *)
(* after the types are finished checkSubstitutionCycles.  What is reported *)
(* is broken, because later passes follow bases, members and references    *)
(* without looking back.                                                   *)
(*                                                                         *)
(* Components are visited in any order: simple types are reached from the  *)
(* documents' other components, the rest in the order a Go map yields.     *)
(* Left out of the simple types: facets, {final}, notations, names that do *)
(* not resolve.                                                            *)
(***************************************************************************)
EXTENDS Naturals, Sequences, FiniteSets

CONSTANTS Type,          \* global complex types
          AnyType,       \* xs:anyType, the base of all
          Simple,        \* simple types of the documents
          AnySimpleType, \* xs:anySimpleType, also what stands in for a circular one
          Atomic,        \* a built-in atomic type
          Group,         \* named model groups
          Element,       \* global element declarations
          Schemas,       \* the schemas, in order: each a set of types and groups
          Definitions    \* what is read: the base of each type, the references of
                         \* each group in order, the heads of each element, how
                         \* each simple type is derived and from what, in order

Severed == "severed"     \* a GroupRef whose Ref is nil

ASSUME AnyTypeAssumption == AnyType \notin Type /\ {AnySimpleType, Atomic} \cap Simple = {}

(* Components of one kind are finitely many, those of two kinds distinct.  *)
ASSUME ComponentsAssumption ==
    /\ IsFiniteSet(Type) /\ IsFiniteSet(Group) /\ IsFiniteSet(Element) /\ IsFiniteSet(Simple)
    /\ Type \cap Group = {} /\ Type \cap Element = {} /\ Type \cap Simple = {}
    /\ Group \cap Element = {} /\ Group \cap Simple = {} /\ Element \cap Simple = {}
    /\ Severed \notin Group

(* Every type and group belongs to a schema.                               *)
ASSUME SchemasAssumption ==
    /\ Schemas \in Seq(SUBSET (Type \cup Group)) /\ Len(Schemas) > 0
    /\ Type \cup Group \subseteq UNION {Schemas[i] : i \in 1..Len(Schemas)}

Derived == [by : {"restriction", "list", "union"}, of : Seq(Simple \cup {AnySimpleType, Atomic})]

(* References resolve; a restriction or list has one source, a union any.  *)
ASSUME DefinitionsAssumption ==
    \A d \in Definitions :
        /\ d.base \in [Type -> Type \cup {AnyType}] /\ d.refs \in [Group -> Seq(Group)]
        /\ d.heads \in [Element -> SUBSET Element] /\ d.simple \in [Simple -> Derived]
        /\ \A s \in Simple : d.simple[s].by \in {"restriction", "list"} => Len(d.simple[s].of) = 1

VARIABLES
  declared,  \* the definitions as read: [base, refs, heads, simple]
  building,  \* the simple types being built, each with the parts resolved so far
  built,     \* the simple types built: [variety, base, item, members]
  refused,   \* those whose parts cos-st-restricts does not allow
  base,      \* {base type definition}
  refs,      \* the references of each group, severed ones included
  schema,    \* which schema is being checked
  phase,     \* "simple", "types", "groups", "substitution" or "done"
  todo,      \* what the current range has not yielded yet
  state,     \* groups "onStack" or "done" (absent: not visited)
  stack,     \* the groups being visited, each with its next reference
  reports    \* the components reported, in order

simpleVars == <<building, built, refused>>
vars == <<declared, simpleVars, base, refs, schema, phase, todo, state, stack, reports>>

Init ==
    /\ declared \in Definitions
    /\ base = declared.base /\ refs = declared.refs
    /\ building = << >> /\ built = << >> /\ refused = {}
    /\ schema = 1 /\ phase = "simple" /\ todo = Simple
    /\ state = [g \in Group |-> "new"] /\ stack = << >>
    /\ reports = << >>

-----------------------------------------------------------------------------
(* buildTypeDecl and buildSimpleType                                       *)
Frame == building[Len(building)]
Sources == declared.simple[Frame.type].of      \* in the order they are resolved

IsBuilding(s) == \E i \in DOMAIN building : building[i].type = s
Ready(s) == s \notin Simple \/ s \in DOMAIN built

Enter(s) == building' = Append(building, [type |-> s, parts |-> << >>])

WithPart(stk, s) == [stk EXCEPT ![Len(stk)].parts = Append(@, s)]

BuildSimple(s) ==
    /\ phase = "simple" /\ building = << >> /\ s \in todo /\ todo' = todo \ {s}
    /\ IF Ready(s) THEN UNCHANGED building ELSE Enter(s)
    /\ UNCHANGED <<declared, built, refused, base, refs, schema, phase, state, stack, reports>>

(* What a type that is still being built is replaced by.                   *)
StandIn(s) == AnySimpleType

ResolvePart ==
    /\ phase = "simple" /\ building # << >> /\ Len(Frame.parts) < Len(Sources)
    /\ LET s == Sources[Len(Frame.parts) + 1]
       IN  CASE Ready(s) -> building' = WithPart(building, s) /\ UNCHANGED reports
             [] IsBuilding(s) -> /\ building' = WithPart(building, StandIn(s))
                                 /\ reports' = Append(reports, s)
             [] OTHER -> Enter(s) /\ UNCHANGED reports
    /\ UNCHANGED <<declared, built, refused, base, refs, schema, phase, todo, state, stack>>

(* The component as the other ones see it; built-in types are atomic.      *)
Component(s) ==
    IF s \in DOMAIN built THEN built[s]
    ELSE [variety |-> "atomic", base |-> AnySimpleType, item |-> AnySimpleType, members |-> {}]

Variety(s) == Component(s).variety

(* BasicMembers: members that are unions are replaced by theirs.           *)
BasicMembers(s) ==
    LET basic[u \in Simple] ==
          UNION {IF Variety(m) = "union" THEN basic[m] ELSE {m} : m \in Component(u).members}
    IN  IF Variety(s) = "union" THEN basic[s] ELSE {}

(* Mutant: the members of a union are not looked through.                  *)
NotAtomicDirectly(item) ==
    \/ Variety(item) = "list"
    \/ Variety(item) = "union" /\ \E m \in Component(item).members : Variety(m) = "list"

NotAtomic(item) ==
    \/ Variety(item) = "list"
    \/ Variety(item) = "union" /\ \E m \in BasicMembers(item) : Variety(m) # "atomic"

Components(by, parts) ==
    CASE by = "restriction" -> [Component(parts[1]) EXCEPT !.base = parts[1]]
      [] by = "list"        -> [variety |-> "list", base |-> AnySimpleType, item |-> parts[1], members |-> {}]
      [] by = "union"       -> [variety |-> "union", base |-> AnySimpleType, item |-> AnySimpleType,
                                members |-> {parts[i] : i \in DOMAIN parts}]

(* cos-st-restricts: the special types are no parts of others; what stands *)
(* in for a circular base is not looked at.                                *)
Refused(by, from, parts) ==
    CASE by = "restriction" -> from[1] = AnySimpleType
      [] by = "list"        -> parts[1] = AnySimpleType \/ NotAtomic(parts[1])
      [] by = "union"       -> \E i \in DOMAIN parts : parts[i] = AnySimpleType

CompleteSimple ==
    /\ phase = "simple" /\ building # << >> /\ Len(Frame.parts) = Len(Sources)
    /\ LET s    == Frame.type
           by   == declared.simple[s].by
           rest == SubSeq(building, 1, Len(building) - 1)
       IN  /\ built' = [u \in DOMAIN built \cup {s} |-> IF u = s THEN Components(by, Frame.parts) ELSE built[u]]
           /\ refused' = IF Refused(by, Sources, Frame.parts) THEN refused \cup {s} ELSE refused
           /\ building' = IF rest = << >> THEN rest ELSE WithPart(rest, s)
    /\ UNCHANGED <<declared, base, refs, schema, phase, todo, state, stack, reports>>

ShellsBuilt ==
    /\ phase = "simple" /\ building = << >> /\ todo = {}
    /\ phase' = "types" /\ todo' = Schemas[1] \cap Type
    /\ UNCHANGED <<simpleVars, declared, base, refs, schema, state, stack, reports>>

-----------------------------------------------------------------------------
(* checkTypeCycles                                                         *)
Chain(b, t) ==
    LET cur[n \in 0..Cardinality(Type)] ==
          IF n = 0 THEN t ELSE IF cur[n - 1] = AnyType THEN AnyType ELSE b[cur[n - 1]]
    IN  cur

(* The first type met again when climbing from t, if there is one.         *)
MetAgain(b, t) ==
    {u \in Type : \E n \in 1..Cardinality(Type) :
        /\ Chain(b, t)[n] = u /\ \E m \in 0..(n - 1) : Chain(b, t)[m] = u
        /\ \A i, j \in 0..(n - 1) : i # j => Chain(b, t)[i] # Chain(b, t)[j]}

(* Mutant: the cycle is reported and left as it is.                        *)
ResetNothing(u) == base

ResetBase(u) == [base EXCEPT ![u] = AnyType]

(* Mutant: the type the climb began at is reported, and reset.             *)
BreakAtStart(t, u) ==
    /\ base' = ResetBase(t)
    /\ reports' = Append(reports, t)

Break(t, u) ==
    /\ base' = ResetBase(u)
    /\ reports' = Append(reports, u)

CheckType(t) ==
    /\ phase = "types" /\ t \in todo /\ todo' = todo \ {t}
    /\ IF MetAgain(base, t) = {} THEN UNCHANGED <<base, reports>>
       ELSE \E u \in MetAgain(base, t) : Break(t, u)
    /\ UNCHANGED <<simpleVars, declared, refs, schema, phase, state, stack>>

TypesChecked ==
    /\ phase = "types" /\ todo = {}
    /\ phase' = "groups" /\ todo' = Schemas[schema] \cap Group
    /\ state' = [g \in Group |-> "new"]
    /\ UNCHANGED <<simpleVars, declared, base, refs, schema, stack, reports>>

-----------------------------------------------------------------------------
(* checkGroupCycles: visit and walk.                                       *)
Push(g) ==
    /\ state' = [state EXCEPT ![g] = "onStack"]
    /\ stack' = Append(stack, [group |-> g, next |-> 1])

VisitGroup(g) ==
    /\ phase = "groups" /\ stack = << >> /\ g \in todo /\ todo' = todo \ {g}
    /\ IF state[g] = "new" THEN Push(g) ELSE UNCHANGED <<state, stack>>
    /\ UNCHANGED <<simpleVars, declared, base, refs, schema, phase, reports>>

Top == stack[Len(stack)]

Advanced == [stack EXCEPT ![Len(stack)].next = @ + 1]

(* Mutant: only a reference of a group to itself is a back-edge.           *)
BackEdgeToTop(h) == h = Top.group
BackEdge(h) == state[h] = "onStack"

FollowReference ==
    /\ phase = "groups" /\ stack # << >> /\ Top.next <= Len(refs[Top.group])
    /\ LET h == refs[Top.group][Top.next]
       IN  IF h = Severed THEN stack' = Advanced /\ UNCHANGED <<refs, state, reports>>
           ELSE IF BackEdge(h)
           THEN /\ reports' = Append(reports, h)
                /\ refs' = [refs EXCEPT ![Top.group][Top.next] = Severed]
                /\ stack' = Advanced /\ UNCHANGED state
           ELSE /\ IF state[h] = "new"
                   THEN /\ state' = [state EXCEPT ![h] = "onStack"]
                        /\ stack' = Append(Advanced, [group |-> h, next |-> 1])
                   ELSE stack' = Advanced /\ UNCHANGED state
                /\ UNCHANGED <<refs, reports>>
    /\ UNCHANGED <<simpleVars, declared, base, schema, phase, todo>>

LeaveGroup ==
    /\ phase = "groups" /\ stack # << >> /\ Top.next > Len(refs[Top.group])
    /\ state' = [state EXCEPT ![Top.group] = "done"]
    /\ stack' = SubSeq(stack, 1, Len(stack) - 1)
    /\ UNCHANGED <<simpleVars, declared, base, refs, schema, phase, todo, reports>>

GroupsChecked ==
    /\ phase = "groups" /\ stack = << >> /\ todo = {}
    /\ IF schema < Len(Schemas)
       THEN phase' = "types" /\ schema' = schema + 1 /\ todo' = Schemas[schema + 1] \cap Type
       ELSE phase' = "substitution" /\ todo' = Element /\ UNCHANGED schema
    /\ UNCHANGED <<simpleVars, declared, base, refs, state, stack, reports>>

-----------------------------------------------------------------------------
(* checkSubstitutionCycles: heads reached from the heads of e.             *)
Reached(e) ==
    LET after[n \in 0..Cardinality(Element)] ==
          IF n = 0 THEN declared.heads[e]
          ELSE after[n - 1] \cup UNION {declared.heads[h] : h \in after[n - 1]}
    IN  after[Cardinality(Element)]

Circular(e) == e \in Reached(e)

CheckElement(e) ==
    /\ phase = "substitution" /\ e \in todo /\ todo' = todo \ {e}
    /\ reports' = IF Circular(e) THEN Append(reports, e) ELSE reports
    /\ UNCHANGED <<simpleVars, declared, base, refs, schema, phase, state, stack>>

Finish ==
    /\ phase = "substitution" /\ todo = {} /\ phase' = "done"
    /\ UNCHANGED <<simpleVars, declared, base, refs, schema, todo, state, stack, reports>>

Next ==
    \/ \E s \in Simple : BuildSimple(s)
    \/ ResolvePart \/ CompleteSimple \/ ShellsBuilt
    \/ \E t \in Type : CheckType(t)
    \/ TypesChecked
    \/ \E g \in Group : VisitGroup(g)
    \/ FollowReference \/ LeaveGroup \/ GroupsChecked
    \/ \E e \in Element : CheckElement(e)
    \/ Finish

Spec == Init /\ [][Next]_vars

-----------------------------------------------------------------------------
Reported == {reports[i] : i \in DOMAIN reports}
Times(x) == Cardinality({i \in DOMAIN reports : reports[i] = x})

CycleOf(t) == {u \in Type : \E n, m \in 1..Cardinality(Type) :
                 Chain(declared.base, t)[n] = u /\ Chain(declared.base, u)[m] = t}

PartsReach(parts, s) ==
    LET after[n \in 0..Cardinality(Simple)] ==
          IF n = 0 THEN parts[s]
          ELSE after[n - 1] \cup UNION {parts[u] : u \in after[n - 1] \cap Simple}
    IN  after[Cardinality(Simple)]

BuiltParts == [s \in DOMAIN built |-> {built[s].base, built[s].item} \cup built[s].members]

(* "cycles are ... broken so the model stays walkable": finishing a type   *)
(* climbs its bases, and every climb reaches xs:anyType.  Facets, items    *)
(* and members of simple types are looked up from type to type, which      *)
(* always ends at built-in ones (buildTypeDecl, checkTypeCycles).          *)
BasesEnd ==
    phase = "done" =>
        /\ \A t \in Type : Chain(base, t)[Cardinality(Type)] = AnyType
        /\ DOMAIN built = Simple
        /\ \A s \in Simple : s \notin PartsReach(BuiltParts, s)

(* "Cycles are reported once": of each derivation cycle exactly one member *)
(* is reported, one time, and no other type loses its base.                *)
OneReportPerCycle ==
    phase = "done" =>
        \A t \in Type :
            /\ CycleOf(t) # {} => Cardinality(CycleOf(t) \cap Reported) = 1 /\ Times(t) <= 1
            /\ base[t] # declared.base[t] => t \in CycleOf(t)

GroupReaches(r, g) ==
    LET Refs(h) == {r[h][i] : i \in DOMAIN r[h]} \ {Severed}
        after[n \in 0..Cardinality(Group)] ==
          IF n = 0 THEN Refs(g) ELSE after[n - 1] \cup UNION {Refs(h) : h \in after[n - 1]}
    IN  after[Cardinality(Group)]

(* "sever the back-edge so later walks terminate": no group contains       *)
(* itself any more, every reference severed was part of a cycle, and an    *)
(* error is reported exactly when there was a cycle.                       *)
GroupsEnd ==
    phase = "done" =>
        /\ \A g \in Group : g \notin GroupReaches(refs, g)
        /\ \A g \in Group : \A i \in DOMAIN refs[g] :
             refs[g][i] = Severed => g \in {declared.refs[g][i]} \cup GroupReaches(declared.refs, declared.refs[g][i])
        /\ (\E g \in Group : g \in GroupReaches(declared.refs, g)) = (Reported \cap Group # {})

(* e-props-correct.6: the elements reported are those that lead back to    *)
(* themselves, each once.                                                  *)
OnPath(e) ==
    \E n \in 1..Cardinality(Element) : \E p \in [0..n -> Element] :
        p[0] = e /\ p[n] = e /\ \A i \in 1..n : p[i] \in declared.heads[p[i - 1]]

SubstitutionExact ==
    phase = "done" => \A e \in Element : Times(e) = (IF OnPath(e) THEN 1 ELSE 0)

DeclaredParts == [s \in Simple |-> {declared.simple[s].of[i] : i \in DOMAIN declared.simple[s].of}]
DeclaredReach(s) == PartsReach(DeclaredParts, s)

(* Whatever types a simple type is reached from: of every set of types     *)
(* that are parts of each other one at least is reported, and none that is *)
(* not part of itself ("a simple type must not be its own ancestor",       *)
(* buildTypeDecl in parser/builder.go).                                    *)
SimpleCyclesReported ==
    LET circular == {s \in Simple : s \in DeclaredReach(s)}
    IN  phase = "done" =>
          /\ Reported \cap Simple \subseteq circular
          /\ \A s \in circular : \E u \in Reported \cap Simple : u \in DeclaredReach(s) /\ s \in DeclaredReach(u)

(* Whether a list may have these items is decided by the documents alone:  *)
(* no restriction and no union between the list and another list hides it, *)
(* and no type is refused for the order it was built in (buildSTList,      *)
(* BasicMembers).                                                          *)
NoListOfLists ==
    LET By(s) == IF s \in Simple THEN declared.simple[s].by ELSE "atomic"
        flat  == [s \in Simple |-> IF By(s) = "list" THEN {} ELSE DeclaredParts[s]]
        Listed(s) == \E u \in {s} \cup (IF s \in Simple THEN PartsReach(flat, s) ELSE {}) : By(u) = "list"
        Tangled(s) == \E u \in {s} \cup DeclaredReach(s) : u \in Simple /\ u \in DeclaredReach(u)
        Wrong(s) == \/ AnySimpleType \in DeclaredParts[s]
                    \/ By(s) = "list" /\ \E u \in DeclaredParts[s] : Listed(u)
    IN  phase = "done" => \A s \in {u \in Simple : ~Tangled(u)} : s \in refused <=> Wrong(s)

(* The simple types are what the documents say, in whatever order they are *)
(* built.                                                                  *)
SimpleTypesExact == SimpleCyclesReported /\ NoListOfLists

(* Whatever the order, what is reported is what is circular.               *)
ReportsExact == OneReportPerCycle /\ SubstitutionExact
=============================================================================
