------------------------------ MODULE SimpleTypes ------------------------------
(***************************************************************************)
(* Simple types derived from one another by restriction: by the parser,    *)
(* and by a program that uses the editing API of package xsdedit on types  *)
(* that others already derive from.  Effective facets are never stored:    *)
(* they are merged from the declared ones of the whole chain when asked.   *)
(***************************************************************************)
EXTENDS Facets

CONSTANTS Declared,  \* the sets of facets that are declared
          Added,     \* the sets of enumeration values that are added
          Pattern,   \* the patterns that are added
          Spare,     \* the cells that a new array may have beyond those in use: a bound
          MaxTypes,
          MaxEdits

ASSUME EditAssumption ==
    /\ Declared \subseteq Facets /\ \A f \in Declared : IsFiniteSet(f.patterns)
    /\ Added \subseteq SUBSET Value /\ Pattern \subseteq SUBSET Value
    /\ Spare \subseteq Nat /\ MaxTypes \in Nat /\ MaxEdits \in Nat

VARIABLES
  made,    \* [base, declared, groups, reserved], a base before what derives from it;
           \* groups is the slice [array, len] that holds the patterns of declared
  arrays,  \* the arrays of pattern groups that slices are of
  edits    \* how many edits were made: a bound

typesVars == <<made, arrays, edits>>

Types == 1..Len(made)

NoGroup == {}   \* what a cell holds that was never written

Slice(array, len) == [array |-> array, len |-> len]
Room(slice)       == Len(arrays[slice.array])
GroupsOf(slice)   == [k \in 1..slice.len |-> arrays[slice.array][k]]

(* The types as their readers see them: each with the patterns that are in *)
(* the cells of its slice now.                                             *)
PatternsIn(arr, slice) == {arr[slice.array][k] : k \in 1..slice.len}
Viewed(ms, arr) ==
    [t \in 1..Len(ms) |-> [base |-> ms[t].base, reserved |-> ms[t].reserved,
                           declared |-> [ms[t].declared EXCEPT !.patterns = PatternsIn(arr, ms[t].groups)]]]

types == Viewed(made, arrays)

BuiltIn == [base |-> 0, declared |-> NoFacets, groups |-> Slice(1, 0), reserved |-> TRUE]

TypesInit == made = <<BuiltIn>> /\ arrays = << <<>> >> /\ edits = 0

EffectiveFacets(ts, t) ==
    LET eff[u \in 1..Len(ts)] ==
          IF ts[u].base = 0 THEN ts[u].declared
          ELSE MergeFacets(eff[ts[u].base], ts[u].declared)
    IN  eff[t]

Accepts(ts, t) ==
    LET f == EffectiveFacets(ts, t)
    IN  {v \in Value : ParseValue(f, v)}

Bounds(f) == {f.minInclusive, f.maxInclusive, f.minExclusive, f.maxExclusive} \ {None}

(* buildFacets: bounds and enumeration values are parsed with the base.    *)
ValuesFromBase(declared, base) ==
    /\ \A b \in Bounds(declared) : ParseFacetValue(base, b)
    /\ \A v \in declared.enumeration : ParseValue(base, v)

Narrows(declared, base) ==
    /\ CheckFacetRestriction(declared, base)
    /\ ValidateFacetSet(MergeFacets(base, declared))

-----------------------------------------------------------------------------
Derive(t, declared, slice) ==
    /\ made' = Append(made, [base |-> t, declared |-> [declared EXCEPT !.patterns = {}],
                             groups |-> slice, reserved |-> FALSE])
    /\ UNCHANGED edits

(* A new array that holds the groups, with room for more.                  *)
Allocate(groups, spare) ==
    arrays' = Append(arrays, groups \o [k \in 1..spare |-> NoGroup])

Orders(S) == {s \in [1..Cardinality(S) -> S] : \A x \in S : \E k \in DOMAIN s : s[k] = x}

DeriveWithNew(t, declared, spare) ==
    /\ Derive(t, declared, Slice(Len(arrays) + 1, Cardinality(declared.patterns)))
    /\ \E groups \in Orders(declared.patterns) : Allocate(groups, spare)

(* applyRestriction, for a schema document without errors.                 *)
ParseRestriction(t, declared) ==
    /\ ValuesFromBase(declared, EffectiveFacets(types, t))
    /\ Narrows(declared, EffectiveFacets(types, t))
    /\ DeriveWithNew(t, declared, 0)

(* The caller's facets are copied, not the array of their pattern groups:  *)
(* it is an array of the caller's own, or one that a type has, of which    *)
(* the caller took what it likes from the facets of that type.             *)
RestrictWith(t, declared) ==
    /\ Narrows(declared, EffectiveFacets(types, t))
    /\ \E spare \in IF declared.patterns = {} THEN {0} ELSE Spare : DeriveWithNew(t, declared, spare)

RestrictWithTaken(t, declared, u, n) ==
    /\ declared.patterns = {}
    /\ n \in 1..made[u].groups.len
    /\ Narrows(declared, EffectiveFacets(types, t))
    /\ Derive(t, declared, Slice(made[u].groups.array, n))
    /\ UNCHANGED arrays

Edit(t) == ~made[t].reserved /\ edits < MaxEdits /\ edits' = edits + 1

WithValues(t, vs) == [types[t].declared EXCEPT !.enumeration = @ \cup vs]

AddEnumeration(t, vs) ==
    /\ Edit(t)
    /\ LET base == EffectiveFacets(types, types[t].base)
       IN  /\ \A v \in vs : ParseValue(base, v)
           /\ ValidateFacetSet(MergeFacets(base, WithValues(t, vs)))
    /\ made' = [made EXCEPT ![t].declared.enumeration = @ \cup vs]
    /\ UNCHANGED arrays

(* append: in place where the array has room beyond the slice, whatever is *)
(* there; otherwise in a new array, with the room that the runtime likes.  *)
AppendInPlace(slice, group) ==
    /\ slice.len < Room(slice)
    /\ arrays' = [arrays EXCEPT ![slice.array] = [@ EXCEPT ![slice.len + 1] = group]]

AppendMoving(slice, group) ==
    /\ slice.len = Room(slice)
    /\ \E spare \in Spare : Allocate(Append(GroupsOf(slice), group), spare)

AddPattern(t, p) ==
    LET slice == made[t].groups
    IN  /\ Edit(t)
        /\ \/ /\ AppendInPlace(slice, {p})
              /\ made' = [made EXCEPT ![t].groups = Slice(slice.array, slice.len + 1)]
           \/ /\ AppendMoving(slice, {p})
              /\ made' = [made EXCEPT ![t].groups = Slice(Len(arrays) + 1, slice.len + 1)]

Restriction(t) ==
    \E declared \in Declared :
        \/ ParseRestriction(t, declared)
        \/ RestrictWith(t, declared)
        \/ \E u \in Types : \E n \in 1..made[u].groups.len : RestrictWithTaken(t, declared, u, n)

TypesNext ==
    \/ Len(made) < MaxTypes /\ \E t \in Types : Restriction(t)
    \/ \E t \in Types, vs \in Added : AddEnumeration(t, vs)
    \/ \E t \in Types, p \in Pattern : AddPattern(t, p)

TypesSpec == TypesInit /\ [][TypesNext]_typesVars

-----------------------------------------------------------------------------
(* A restriction accepts nothing its base does not accept, whatever bounds, *)
(* lengths and patterns were declared on either and whatever was added      *)
(* since, provided its own enumeration lies within the base: neither        *)
(* RestrictWith nor an edit of the base looks (xsd/facets.go,               *)
(* xsd/facets_check.go and xsdedit/edit.go).                                *)
Narrowing ==
    \A t \in Types : types[t].base # 0 =>
        LET accepted == Accepts(types, types[t].base)
        IN  types[t].declared.enumeration \subseteq accepted => Accepts(types, t) \subseteq accepted

(* A base of t, one of its base, and so on; or t.                          *)
DrawsOn(t, u) ==
    \A T \in SUBSET Types :
        t \in T /\ (\A s \in T : made[s].base = 0 \/ made[s].base \in T) => u \in T

(* The type u has lost a pattern: another type, whose slice of the same    *)
(* array is shorter, appended in place over it.                            *)
Overwritten(u) ==
    \E s \in Types :
        LET shorter == made[s].groups
        IN  /\ shorter.array = made[u].groups.array /\ shorter.len < made[u].groups.len
            /\ made'[s].groups = Slice(shorter.array, shorter.len + 1)

(* An edit of one type never makes another accept what it refused, unless  *)
(* an enumeration it draws from was extended, and then no more than the    *)
(* values added.  Excepted are types of which a pattern was overwritten,   *)
(* and what derives from them: AddPattern appends to a slice that          *)
(* RestrictWith lets types share (xsdedit/edit.go:147, :40), and what it   *)
(* writes may take the place of a pattern of another type, which then      *)
(* accepts what it refused.  An edit reaches no other type in that way     *)
(* (AddEnumeration, AddPattern in xsdedit/edit.go).                        *)
EditsContained ==
    [][LET added == UNION {types'[u].declared.enumeration \ types[u].declared.enumeration : u \in Types}
       IN  \A t \in Types :
             \/ Accepts(types', t) \subseteq Accepts(types, t) \cup added
             \/ \E u \in Types : DrawsOn(t, u) /\ Overwritten(u)]_typesVars

=============================================================================
