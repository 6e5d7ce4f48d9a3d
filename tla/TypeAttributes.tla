---------------------------- MODULE TypeAttributes ----------------------------
(***************************************************************************)
(* How the builder gives every complex type its attribute uses and its     *)
(* attribute wildcard: finishComplexTypes drains a worklist that grows as  *)
(* contents are filled, each type finishing its base first; an attribute   *)
(* group is built where it is first referred to and memoised; what a type  *)
(* declares is then merged with what its base has, checked, and completed  *)
(* with the schema's default attributes.                                   *)
(*                                                                         *)
(* A schema s is a record:                                                 *)
(*   order       the types built before finishComplexTypes starts          *)
(*   nested[t]   the anonymous types met while t's content is filled       *)
(*   base[t]     t's base: a type or AnyType (cycles are already broken)   *)
(*   extension   the types derived by extension, the others restrict       *)
(*   simple      the types with <simpleContent>                            *)
(*   children[o] the attribute children of a type or group o, in order:    *)
(*               an attribute use, a prohibited name, a group reference or *)
(*               an anyAttribute                                           *)
(*   defaults    the defaultAttributes group, or NoGroup                   *)
(*   optOut      the types with defaultAttributesApply="false"             *)
(* An attribute use is a component: [name, at], at being the node that     *)
(* declares it, so equal records are one pointer.                          *)
(***************************************************************************)
EXTENDS Wildcards, FiniteSets, SequencesExt

CONSTANTS Schemas, Type, Group, AnyType, NoGroup

Owner == Type \cup Group

AttributeUse == [name : Name, at : Owner]

AttributeChild == [kind : {"attribute"}, use : AttributeUse]
                  \cup [kind : {"prohibited"}, name : Name]
                  \cup [kind : {"group"}, ref : Group]
                  \cup [kind : {"any"}, wildcard : Wildcard]

(* References are resolved, and no type is among its own ancestors: of any *)
(* types, one has its base outside them.                                   *)
IsSchema(s) ==
    /\ s.order \in Seq(Type)
    /\ s.nested \in [Type -> Seq(Type)]
    /\ s.base \in [Type -> Type \cup {AnyType}]
    /\ \A S \in SUBSET Type : S # {} => \E t \in S : s.base[t] \notin S
    /\ s.extension \subseteq Type
    /\ s.children \in [Owner -> Seq(AttributeChild)]
    /\ s.defaults \in Group \cup {NoGroup}

ASSUME SchemasAssumption ==
    /\ AnyType \notin Type /\ NoGroup \notin Group /\ Type \cap Group = {}
    /\ \A s \in Schemas : IsSchema(s)

VARIABLES
    schema,     \* the schema being built
    ctOrder,    \* builder.ctOrder
    drained,    \* how much of ctOrder the loop has reached
    ctDone,     \* builder.ctDone
    stack,      \* the activations of finishComplexType and buildAttributeGroup
    attrGroups, \* builder.attrGroups: group -> [uses, wc]
    result,     \* type -> [uses, wc]: AttributeUses and AttributeWildcard
    errs        \* errors reported: [kind, at]

vars == <<schema, ctOrder, drained, ctDone, stack, attrGroups, result, errs>>

AnyWildcard == [mode |-> "any", namespaces |-> {}, notQName |-> {}, keywords |-> {},
                processContents |-> Lax]

Error(kind, o) == [kind |-> kind, at |-> o]

(* An activation: whose it is, how far it is, and what buildAttrUses has   *)
(* collected so far.                                                       *)
Frame(o, stage) == [owner |-> o, stage |-> stage, pos |-> 1, uses |-> << >>,
                    wc |-> NoWildcard, prohibited |-> {}]

Init ==
    /\ schema \in Schemas
    /\ ctOrder = schema.order /\ drained = 0
    /\ ctDone = {} /\ stack = << >>
    /\ attrGroups = << >>
    /\ result = [t \in {AnyType} |-> [uses |-> << >>, wc |-> AnyWildcard]]
    /\ errs = {}

-----------------------------------------------------------------------------
Top         == stack[Len(stack)]
Push(f)     == stack' = Append(stack, f)
Pop         == stack' = Front(stack)
Continue(f) == stack' = Front(stack) \o <<f>>
At(stage)   == stack # << >> /\ Top.stage = stage

Mark(t) == ctDone \cup {t}

(* finishComplexTypes: the next type of the worklist.                      *)
NextType ==
    /\ stack = << >> /\ drained < Len(ctOrder)
    /\ drained' = drained + 1
    /\ LET t == ctOrder[drained + 1]
       IN  IF t \in ctDone THEN UNCHANGED <<stack, ctDone>>
           ELSE Push(Frame(t, "base")) /\ ctDone' = Mark(t)
    /\ UNCHANGED <<schema, ctOrder, attrGroups, result, errs>>

(* finishComplexType: the base first.                                      *)
FinishBase ==
    /\ At("base")
    /\ schema.base[Top.owner] \notin ctDone \cup {AnyType}
    /\ Push(Frame(schema.base[Top.owner], "base"))
    /\ ctDone' = Mark(schema.base[Top.owner])
    /\ UNCHANGED <<schema, ctOrder, drained, attrGroups, result, errs>>

(* Filling the content enqueues the anonymous types it contains.           *)
FillContent ==
    /\ At("base")
    /\ schema.base[Top.owner] \in ctDone \cup {AnyType}
    /\ ctOrder' = ctOrder \o schema.nested[Top.owner]
    /\ Continue([Top EXCEPT !.stage = "children"])
    /\ UNCHANGED <<schema, drained, ctDone, attrGroups, result, errs>>

-----------------------------------------------------------------------------
(* buildAttrUses, one child at a time.                                     *)
Child      == schema.children[Top.owner][Top.pos]
MoreChildren == At("children") /\ Top.pos <= Len(schema.children[Top.owner])
Advance(f) == [f EXCEPT !.pos = @ + 1]

(* An attribute, a prohibited attribute or an anyAttribute.                *)
OwnChild ==
    /\ MoreChildren /\ Child.kind # "group"
    /\ Continue(Advance(
         CASE Child.kind = "attribute"  -> [Top EXCEPT !.uses = Append(@, Child.use)]
           [] Child.kind = "prohibited" -> [Top EXCEPT !.prohibited = @ \cup {Child.name}]
           [] Child.kind = "any"        -> [Top EXCEPT !.wc = WildcardIntersect(@, Child.wildcard)]))
    /\ UNCHANGED <<schema, ctOrder, drained, ctDone, attrGroups, result, errs>>

Building == {stack[i].owner : i \in DOMAIN stack} \cap Group

(* A reference to a group already built: its uses are appended and its     *)
(* wildcard intersected.                                                   *)
WithGroup(f, g) ==
    [f EXCEPT !.uses = @ \o g.uses, !.wc = WildcardIntersect(@, g.wc)]

KnownGroup ==
    /\ MoreChildren /\ Child.kind = "group" /\ Child.ref \in DOMAIN attrGroups
    /\ Continue(Advance(WithGroup(Top, attrGroups[Child.ref])))
    /\ UNCHANGED <<schema, ctOrder, drained, ctDone, attrGroups, result, errs>>

(* A reference to a group that is being built contributes nothing.         *)
(* Mutant: the reference is read again.                                    *)
WithNothingStuck(f) == f
WithNothing(f) == Advance(f)

CircularGroup ==
    /\ MoreChildren /\ Child.kind = "group"
    /\ Child.ref \notin DOMAIN attrGroups /\ Child.ref \in Building
    /\ errs' = errs \cup {Error("src-attribute_group", Child.ref)}
    /\ Continue(WithNothing(Top))
    /\ UNCHANGED <<schema, ctOrder, drained, ctDone, attrGroups, result>>

(* buildAttributeGroup of a group not met before; the reference is read    *)
(* again when it has been built.                                           *)
EnterGroup ==
    /\ MoreChildren /\ Child.kind = "group"
    /\ Child.ref \notin DOMAIN attrGroups \cup Building
    /\ Push(Frame(Child.ref, "children"))
    /\ UNCHANGED <<schema, ctOrder, drained, ctDone, attrGroups, result, errs>>

(* checkAttrGroupDefDups: two attribute children of one name.              *)
DeclaredTwice(o) ==
    \E i, j \in DOMAIN schema.children[o] :
        LET p == schema.children[o][i]
            q == schema.children[o][j]
        IN  i # j /\ p.kind = "attribute" /\ q.kind = "attribute" /\ p.use.name = q.use.name

CompleteGroup ==
    /\ At("children") /\ Top.owner \in Group /\ ~MoreChildren
    /\ attrGroups' = [g \in DOMAIN attrGroups \cup {Top.owner} |->
                        IF g = Top.owner THEN [uses |-> Top.uses, wc |-> Top.wc] ELSE attrGroups[g]]
    /\ errs' = errs \cup (IF DeclaredTwice(Top.owner) THEN {Error("ag-props-correct", Top.owner)} ELSE {})
    /\ Pop
    /\ UNCHANGED <<schema, ctOrder, drained, ctDone, result>>

-----------------------------------------------------------------------------
(* mergeComplexType.                                                       *)

Extends(s, t) == t \in s.extension

NamesOf(uses) == {uses[i].name : i \in DOMAIN uses}

RepeatsName(uses) == Cardinality(NamesOf(uses)) # Len(uses)

(* The uses of the base at the given positions come after the type's own.  *)
Followed(own, base, inherited) ==
    own \o [k \in 1..Cardinality(inherited) |->
              base[CHOOSE i \in inherited : Cardinality({j \in inherited : j <= i}) = k]]

(* mergeBaseAttrUses: a base's use is inherited unless its name is there   *)
(* already or, in a restriction, prohibited.                               *)
(* Mutant: an extension heeds prohibited names as well.                    *)
MergeBaseAttrUsesProhibiting(own, base, prohibited, override) ==
    Followed(own, base, {i \in DOMAIN base : base[i].name \notin prohibited \cup NamesOf(own)})

MergeBaseAttrUses(own, base, prohibited, override) ==
    Followed(own, base, {i \in DOMAIN base : /\ base[i].name \notin NamesOf(own)
                                             /\ \A j \in 1..(i - 1) : base[j].name # base[i].name
                                             /\ override => base[i].name \notin prohibited})

(* The wildcard: a restriction's own, an extension's united with its       *)
(* base's; where the code falls back, the base's stands in for none.       *)
MergeWildcard(s, t, own, base) ==
    IF own = NoWildcard /\ (Extends(s, t) \/ t \in s.simple) THEN base
    ELSE IF own # NoWildcard /\ base # NoWildcard /\ Extends(s, t) THEN WildcardUnion(base, own)
    ELSE own

(* checkAttrWildcardRestriction.                                           *)
WildcardRestricts(own, base) ==
    own = NoWildcard \/ (base # NoWildcard /\ NamespaceConstraintSubset(own, base))

MergeErrs(t, own, wc, base) ==
    (IF Extends(schema, t) /\ (NamesOf(own) \cap NamesOf(base.uses) # {} \/ RepeatsName(base.uses))
     THEN {Error("ct-props-correct", t)} ELSE {})
    \cup
    (IF ~Extends(schema, t) /\ ~WildcardRestricts(wc, base.wc)
     THEN {Error("derivation-ok-restriction", t)} ELSE {})

Merge ==
    /\ At("children") /\ Top.owner \in Type /\ ~MoreChildren
    /\ LET t    == Top.owner
           base == result[schema.base[t]]
           uses == MergeBaseAttrUses(Top.uses, base.uses, Top.prohibited, ~Extends(schema, t))
       IN  /\ result' = [x \in DOMAIN result \cup {t} |->
                           IF x = t THEN [uses |-> uses, wc |-> MergeWildcard(schema, t, Top.wc, base.wc)]
                           ELSE result[x]]
           /\ errs' = errs \cup MergeErrs(t, Top.uses, Top.wc, base)
    /\ Continue([Top EXCEPT !.stage = "defaults"])
    /\ UNCHANGED <<schema, ctOrder, drained, ctDone, attrGroups>>

(* applyDefaultAttributes, then checkAttrUses and the return.              *)
TakesDefaults(s, t) == s.defaults # NoGroup /\ t \notin s.optOut

BuildDefaults ==
    /\ At("defaults") /\ TakesDefaults(schema, Top.owner)
    /\ schema.defaults \notin DOMAIN attrGroups
    /\ Push(Frame(schema.defaults, "children"))
    /\ UNCHANGED <<schema, ctOrder, drained, ctDone, attrGroups, result, errs>>

WithDefaults(r, g) == [uses |-> r.uses \o g.uses, wc |-> IF r.wc = NoWildcard THEN g.wc ELSE r.wc]

FinishType ==
    /\ At("defaults")
    /\ TakesDefaults(schema, Top.owner) => schema.defaults \in DOMAIN attrGroups
    /\ LET t == Top.owner
           final == IF TakesDefaults(schema, t)
                    THEN WithDefaults(result[t], attrGroups[schema.defaults]) ELSE result[t]
       IN  /\ result' = [result EXCEPT ![t] = final]
           /\ errs' = errs \cup (IF RepeatsName(final.uses) THEN {Error("ct-props-correct", t)} ELSE {})
    /\ Pop
    /\ UNCHANGED <<schema, ctOrder, drained, ctDone, attrGroups>>

-----------------------------------------------------------------------------
Next == \/ NextType \/ FinishBase \/ FillContent \/ OwnChild \/ KnownGroup \/ CircularGroup
        \/ EnterGroup \/ CompleteGroup \/ Merge \/ BuildDefaults \/ FinishType

Spec == Init /\ [][Next]_vars /\ WF_vars(Next)

Finished == stack = << >> /\ drained = Len(ctOrder)

-----------------------------------------------------------------------------
(* What the mapping rules of the recommendation (docs/clean/xmlschema11-1, *)
(* 3.4.2.4, 3.4.2.5 and 3.6.2.2) make of a schema, without an order.       *)

Members(s, o, kind) == {c \in ToSet(s.children[o]) : c.kind = kind}
Refers(s, o) == {c.ref : c \in Members(s, o, "group")}

(* The groups o refers to, directly or through others: those in every set  *)
(* of groups that holds the former and is closed under references.         *)
GroupsOf(s, o) ==
    {g \in Group : \A K \in SUBSET Group :
        Refers(s, o) \subseteq K /\ (\A h \in K : Refers(s, h) \subseteq K) => g \in K}

(* A type, the groups it refers to and the default group, which counts as  *)
(* one more reference.                                                     *)
Declarers(s, t) ==
    {t} \cup GroupsOf(s, t)
    \cup (IF TakesDefaults(s, t) THEN {s.defaults} \cup GroupsOf(s, s.defaults) ELSE {})

Local(s, t) == {c.use : c \in UNION {Members(s, o, "attribute") : o \in Declarers(s, t)}}
Wildcards(s, t) == {c.wildcard : c \in UNION {Members(s, o, "any") : o \in Declarers(s, t)}}
Prohibited(s, t) == {c.name : c \in Members(s, t, "prohibited")}

MappedUses(s) ==
    LET uses[t \in Type] ==
            LET inherited == IF s.base[t] = AnyType THEN {} ELSE uses[s.base[t]]
                hidden    == Prohibited(s, t) \cup {u.name : u \in Local(s, t)}
            IN  Local(s, t) \cup (IF Extends(s, t) THEN inherited
                                  ELSE {u \in inherited : u.name \notin hidden})
    IN  uses

(* The names the attribute wildcard admits.                                *)
MappedNames(s) ==
    LET names[t \in Type] ==
            LET complete == IF Wildcards(s, t) = {} THEN {}
                            ELSE {q \in Name : \A w \in Wildcards(s, t) : AllowsName(w, q)}
            IN  complete \cup (IF ~Extends(s, t) THEN {}
                               ELSE IF s.base[t] = AnyType THEN Name ELSE names[s.base[t]])
    IN  names

Ancestors(s, t) ==
    {x \in Type : \A K \in SUBSET Type :
        t \in K /\ (\A y \in K : s.base[y] \in K \cup {AnyType}) => x \in K}

Reported(kind, o)  == Error(kind, o) \in errs
SoundLine(t)       == \A x \in Ancestors(schema, t) : ~Reported("ct-props-correct", x)
NoCircularGroup    == \A g \in Group : ~Reported("src-attribute_group", g)
Admits(wc, q, ctx) == wc # NoWildcard /\ Allows(wc, q, ctx)
AdmitsName(wc, q)  == wc # NoWildcard /\ AllowsName(wc, q)

-----------------------------------------------------------------------------
(* Whatever the order the worklist, the bases and the groups are visited   *)
(* in, every type ends with the attribute uses the mapping rules give it.  *)
UsesAsMapped ==
    Finished /\ NoCircularGroup =>
        \A t \in ctDone : SoundLine(t) => ToSet(result[t].uses) = MappedUses(schema)[t]

(* ... and with a wildcard that admits the names the mapping rules say     *)
(* (mergeComplexType, buildAttrUses, wildcardIntersect, wildcardUnion).    *)
(* Two exceptions, where the code does not: a default group's wildcard is  *)
(* united with the base's first, and simple content falls back on it.      *)
WildcardAsMapped ==
    Finished /\ NoCircularGroup =>
        \A t \in ctDone :
          (\A x \in Ancestors(schema, t) : ~TakesDefaults(schema, x) /\ x \notin schema.simple)
          => {q \in Name : AdmitsName(result[t].wc, q)} = MappedNames(schema)[t]

(* A type ends with the attributes the mapping rules give it.               *)
AsMapped == UsesAsMapped /\ WildcardAsMapped

(* A restriction that checkAttrWildcardRestriction lets pass admits no     *)
(* attribute, in any context, that its base's wildcard does not. Types that *)
(* take the default group are left out: its wildcard is added afterwards.   *)
RestrictionNarrows ==
    Finished => \A t \in ctDone :
        ~Extends(schema, t) /\ ~TakesDefaults(schema, t)
        /\ ~Reported("derivation-ok-restriction", t) =>
            \A q \in Name, ctx \in Context :
                Admits(result[t].wc, q, ctx) => Admits(result[schema.base[t]].wc, q, ctx)

(* An extension keeps everything its base has: the uses and the names its  *)
(* wildcard admits, in any context.                                        *)
ExtensionKeeps ==
    Finished => \A t \in ctDone : Extends(schema, t) =>
        LET base == result[schema.base[t]]
        IN  /\ SoundLine(t) => ToSet(base.uses) \subseteq ToSet(result[t].uses)
            /\ \A q \in Name, ctx \in Context :
                  Admits(base.wc, q, ctx) => Admits(result[t].wc, q, ctx)

(* A derived type's attributes stand to its base's as its derivation method *)
(* promises, whichever of the two was finished first.                       *)
DerivationKept == RestrictionNarrows /\ ExtensionKeeps

(* finishComplexTypes ends, whatever the types and groups refer to, and    *)
(* every type of the schema, the nested ones included, is finished.        *)
AllFinished == <>(Finished /\ ToSet(schema.order) \subseteq DOMAIN result)

=============================================================================
