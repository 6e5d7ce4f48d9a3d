-------------------------------- MODULE Facets --------------------------------
(***************************************************************************)
(* Constraining facets: how the facets declared on one restriction step    *)
(* combine with those of the base, which declarations are checked, and     *)
(* which values a set of facets accepts (package xsd).                     *)
(*                                                                         *)
(* A value is opaque.  What facets see of it: where it stands in the order *)
(* of its value space, its length, and which patterns its literal matches. *)
(* A pattern is the set of values it matches.  Left out: whiteSpace, the   *)
(* digit and scale facets, explicitTimezone, {fixed}, values that are not  *)
(* comparable with themselves (NaN of precisionDecimal), assertions.       *)
(***************************************************************************)
EXTENDS Naturals, Sequences, FiniteSets

CONSTANTS Value,
          Less,      \* pairs <<a, b>> of values with a before b
          LengthOf,  \* the length of each value
          None       \* an absent facet

(* The order of a value space is partial: dates with and without a         *)
(* timezone, NaN.                                                          *)
ASSUME OrderAssumption ==
    /\ Less \subseteq Value \X Value
    /\ \A a \in Value : <<a, a>> \notin Less
    /\ \A a, b, c \in Value : <<a, b>> \in Less /\ <<b, c>> \in Less => <<a, c>> \in Less

ASSUME LengthAssumption == LengthOf \in [Value -> Nat]

ASSUME NoneAssumption == None \notin Value /\ None \notin Nat

Facets ==
    [minInclusive : Value \cup {None}, maxInclusive : Value \cup {None},
     minExclusive : Value \cup {None}, maxExclusive : Value \cup {None},
     length : Nat \cup {None}, minLength : Nat \cup {None}, maxLength : Nat \cup {None},
     enumeration : SUBSET Value,
     patterns : SUBSET SUBSET SUBSET Value]

NoFacets ==
    [minInclusive |-> None, maxInclusive |-> None, minExclusive |-> None, maxExclusive |-> None,
     length |-> None, minLength |-> None, maxLength |-> None,
     enumeration |-> {}, patterns |-> {}]

Before(a, b)     == <<a, b>> \in Less
UpTo(a, b)       == a = b \/ Before(a, b)

-----------------------------------------------------------------------------
(* parseValue: the stages that look at the facets.                         *)
MatchesPatterns(f, v) == \A group \in f.patterns : \E p \in group : v \in p

LengthValid(f, v) ==
    /\ f.length    # None => LengthOf[v] = f.length
    /\ f.minLength # None => LengthOf[v] >= f.minLength
    /\ f.maxLength # None => LengthOf[v] <= f.maxLength

RangeValid(f, v) ==
    /\ f.minInclusive # None => UpTo(f.minInclusive, v)
    /\ f.maxInclusive # None => UpTo(v, f.maxInclusive)
    /\ f.minExclusive # None => Before(f.minExclusive, v)
    /\ f.maxExclusive # None => Before(v, f.maxExclusive)

Enumerated(f, v) == f.enumeration # {} => v \in f.enumeration

ParseFacetValue(f, v) == MatchesPatterns(f, v) /\ LengthValid(f, v) /\ Enumerated(f, v)

ParseValue(f, v) == ParseFacetValue(f, v) /\ RangeValid(f, v)

-----------------------------------------------------------------------------
Overlay(declared, base) == IF declared = None THEN base ELSE declared

(* Mutant: the declared patterns replace the inherited ones.               *)
ReplacedPatterns(base, declared) ==
    IF declared.patterns = {} THEN base.patterns ELSE declared.patterns

AllPatterns(base, declared) == base.patterns \cup declared.patterns

(* A bound declared on one side clears both inherited bounds of that side. *)
MergeFacets(base, declared) ==
    LET min == declared.minInclusive # None \/ declared.minExclusive # None
        max == declared.maxInclusive # None \/ declared.maxExclusive # None
    IN  [minInclusive |-> IF min THEN declared.minInclusive ELSE base.minInclusive,
         minExclusive |-> IF min THEN declared.minExclusive ELSE base.minExclusive,
         maxInclusive |-> IF max THEN declared.maxInclusive ELSE base.maxInclusive,
         maxExclusive |-> IF max THEN declared.maxExclusive ELSE base.maxExclusive,
         length    |-> Overlay(declared.length, base.length),
         minLength |-> Overlay(declared.minLength, base.minLength),
         maxLength |-> Overlay(declared.maxLength, base.maxLength),
         enumeration |-> IF declared.enumeration = {} THEN base.enumeration ELSE declared.enumeration,
         patterns    |-> AllPatterns(base, declared)]

-----------------------------------------------------------------------------
(* Mutant: an inclusive bound may equal an exclusive one.                  *)
BoundWithinLoosely(b, base, minSide, incl) ==
    b # None =>
        /\ base.minInclusive # None => UpTo(base.minInclusive, b)
        /\ base.maxInclusive # None => UpTo(b, base.maxInclusive)
        /\ base.minExclusive # None => Before(base.minExclusive, b) \/ (b = base.minExclusive /\ minSide)
        /\ base.maxExclusive # None => Before(b, base.maxExclusive) \/ (b = base.maxExclusive /\ ~minSide)

(* A declared bound against the bounds of the base; equality with an       *)
(* exclusive bound is allowed to the exclusive bound of the same side.     *)
BoundWithin(b, base, minSide, incl) ==
    b # None =>
        /\ base.minInclusive # None => UpTo(base.minInclusive, b)
        /\ base.maxInclusive # None => UpTo(b, base.maxInclusive)
        /\ base.minExclusive # None =>
              Before(base.minExclusive, b) \/ (b = base.minExclusive /\ minSide /\ ~incl)
        /\ base.maxExclusive # None =>
              Before(b, base.maxExclusive) \/ (b = base.maxExclusive /\ ~minSide /\ ~incl)

BoundsWithin(declared, base) ==
    /\ BoundWithin(declared.minInclusive, base, TRUE, TRUE)
    /\ BoundWithin(declared.maxInclusive, base, FALSE, TRUE)
    /\ BoundWithin(declared.minExclusive, base, TRUE, FALSE)
    /\ BoundWithin(declared.maxExclusive, base, FALSE, FALSE)

(* Absent facets pass every comparison.                                    *)
AtMost(a, b) == a # None /\ b # None => a <= b
Same(a, b)   == a # None /\ b # None => a = b

LengthsWithin(declared, base) ==
    /\ Same(declared.length, base.length)
    /\ AtMost(base.minLength, declared.length) /\ AtMost(declared.length, base.maxLength)
    /\ AtMost(base.minLength, declared.minLength) /\ AtMost(declared.minLength, base.maxLength)
    /\ AtMost(declared.minLength, base.length)
    /\ AtMost(declared.maxLength, base.maxLength) /\ AtMost(base.minLength, declared.maxLength)
    /\ AtMost(base.length, declared.maxLength)

CheckFacetRestriction(declared, base) ==
    LengthsWithin(declared, base) /\ BoundsWithin(declared, base)

(* Consistency of one set of facets; incomparable bounds pass.             *)
ValidateFacetSet(f) ==
    /\ AtMost(f.minLength, f.length) /\ AtMost(f.length, f.maxLength)
    /\ AtMost(f.minLength, f.maxLength)
    /\ f.minInclusive = None \/ f.minExclusive = None
    /\ f.maxInclusive = None \/ f.maxExclusive = None
    /\ ~Before(f.maxInclusive, f.minInclusive)
    /\ ~Before(f.maxExclusive, f.minExclusive)
    /\ f.minInclusive = None \/ ~UpTo(f.maxExclusive, f.minInclusive)
    /\ f.minExclusive = None \/ ~UpTo(f.maxInclusive, f.minExclusive)

=============================================================================
