----------------------------- MODULE MCSimpleTypes -----------------------------
(* Four values: a before b before c, and z with no place in that order.    *)
(* Their order is that of four instants, decided by Compare; their lengths *)
(* are those of strings, so that one set of values meets every facet.      *)
EXTENDS SimpleTypes, Temporal, CharClasses, TLC

CONSTANTS a, b, c, z

At(y, m, d, h, i, zoned, offset) ==
    [kind |-> "dateTime", year |-> y, month |-> m, day |-> d, hour |-> h, minute |-> i, second |-> 0,
     hasTZ |-> zoned, tz |-> offset]

Instant ==
    (a :> At(2000, 2, 29, 23, 0, TRUE, 0)) @@ (b :> At(2000, 3, 1, 13, 30, TRUE, 840))
      @@ (c :> At(2000, 3, 1, 0, 0, TRUE, 0)) @@ (z :> At(2000, 3, 1, 0, 0, FALSE, 0))

Order   == {x \in Value \X Value : DateLess(Instant[x[1]], Instant[x[2]])}
Lengths == (a :> 0) @@ (b :> 1) @@ (c :> 2) @@ (z :> 1)

(* One bound or none on each side; lengths up to 2.                        *)
Lower(f) == {f, [f EXCEPT !.minInclusive = a], [f EXCEPT !.minInclusive = b], [f EXCEPT !.minInclusive = z],
             [f EXCEPT !.minExclusive = a]}
Upper(f) == {f, [f EXCEPT !.maxInclusive = b], [f EXCEPT !.maxInclusive = c], [f EXCEPT !.maxExclusive = b],
             [f EXCEPT !.maxExclusive = z]}
Ranges   == UNION {Upper(f) : f \in Lower(NoFacets)}

Sizes    == {None, 1, 2}
LengthFacets == {f \in {[NoFacets EXCEPT !.length = x, !.minLength = y, !.maxLength = w] : x, y, w \in Sizes} :
                   None \in {f.length, f.minLength, f.maxLength}}

Enumerations == {[NoFacets EXCEPT !.enumeration = S] : S \in {{a}, {b}, {a, b}, {a, z}, {a, b, z}}}
Patterns     == {[NoFacets EXCEPT !.patterns = {{{a, b}}}], [NoFacets EXCEPT !.patterns = {{{a}, {z}}}]}
AllFacets    == {f \in Ranges \cup LengthFacets \cup Enumerations \cup Patterns : TRUE}

NewValues    == {{a}, {b, z}, {c}} \cup {}
NewPatterns  == {{a, b}, {b, z}} \cup {}

-----------------------------------------------------------------------------
(* civilFromDays takes the number of every date of the calendar back to it. *)
ASSUME DatesReturn ==
    \A y \in {-401, -400, -5, -1, 0, 1, 4, 99, 100, 399, 400, 1600, 1696, 1900, 2000} :
      \A m \in 1..12 : \A d \in 1..DaysInMonth(y, m) :
        CivilFromDays(DayNumber(y, m, d)) = [year |-> y, month |-> m, day |-> d]

Length(months, days) == [months |-> months, seconds |-> days * Day]

(* A month is longer than 27 days and shorter than 32, and as long as none  *)
(* between; five months and 150 days (Part 2, 3.3.6.2).                    *)
ASSUME DurationsAsCalendar ==
    /\ \A days \in 0..40 : /\ (DurationLess(Length(0, days), Length(1, 0)) <=> days < 28)
                            /\ (DurationLess(Length(1, 0), Length(0, days)) <=> days > 31)
    /\ DurationLess(Length(0, 149), Length(5, 0)) /\ DurationLess(Length(5, 0), Length(0, 154))
    /\ ~DurationLess(Length(0, 150), Length(5, 0)) /\ ~DurationLess(Length(5, 0), Length(0, 153))
    /\ \A days \in {0, 31, 365, 1461} : DurationLess(Length(-13, days - 1), Length(-13, days))

(* Where a reference's seconds do not fit, a month no longer comes before  *)
(* more days than it could have.                                           *)
ASSUME LongDurationsLost == ~DurationLess(Length(1, 0), Length(0, 50000))
-----------------------------------------------------------------------------
Runes     == 0..MaxRune
Points(s) == UNION {s[k][1]..s[k][2] : k \in DOMAIN s}

(* The ranges of a set of code points: sorted, disjoint and not touching.  *)
RangesOf(S) ==
    LET begins == SetToSortSeq({i \in S : i - 1 \notin S}, <)
        ends   == SetToSortSeq({i \in S : i + 1 \notin S}, <)
    IN  [k \in DOMAIN begins |-> <<begins[k], ends[k]>>]

(* The algebra of range sets computes union, intersection, difference and  *)
(* complement, and its results are in the form it takes (regex.go:611).    *)
ASSUME RangeSetsExact ==
    LET all == {RangesOf(S) : S \in SUBSET Runes}
    IN  /\ \A s \in all : Complement(s) = RangesOf(Runes \ Points(s))
        /\ \A s, t \in all : LET S == Points(s)
                                 T == Points(t)
                             IN  /\ Union(s, t) = RangesOf(S \cup T)
                                 /\ Intersect(s, t) = RangesOf(S \cap T)
                                 /\ Subtract(s, t) = RangesOf(S \ T)

(* Classes as they are meant, and written with every special character     *)
(* escaped.                                                                *)
Item(lo, hi) == [lo |-> lo, hi |-> hi]
NoItem       == [neg |-> FALSE, items |-> <<>>]
Class(neg, items, sub) == [neg |-> neg, items |-> items, sub |-> sub]

Written(ch) == IF ch \in {Dash, Open, Close, Caret} THEN Esc(ch) ELSE Chr(ch)
WrittenItem(i) ==
    IF i = Item(0, MaxRune) THEN <<SetEscape(<< <<0, MaxRune>> >>)>>
    ELSE IF i.lo = i.hi THEN <<Written(i.lo)>> ELSE <<Written(i.lo), Chr(Dash), Written(i.hi)>>

RECURSIVE WrittenClass(_)
WrittenClass(cl) ==
    <<Chr(Open)>> \o (IF cl.neg THEN <<Chr(Caret)>> ELSE <<>>)
    \o FlattenSeq([k \in DOMAIN cl.items |-> WrittenItem(cl.items[k])])
    \o (IF cl.sub = NoItem THEN <<>> ELSE <<Chr(Dash)>> \o WrittenClass(cl.sub))
    \o <<Chr(Close)>>

RECURSIVE Meant(_)
Meant(cl) ==
    LET named == UNION {cl.items[k].lo..cl.items[k].hi : k \in DOMAIN cl.items}
    IN  (IF cl.neg THEN Runes \ named ELSE named) \ (IF cl.sub = NoItem THEN {} ELSE Meant(cl.sub))

ItemsOf  == {Item(lo, hi) : lo, hi \in {0, Dash, Open, MaxRune}} \ {i \in [lo : Runes, hi : Runes] : i.hi < i.lo}
Plain    == {Class(neg, <<i>>, NoItem) : neg \in BOOLEAN, i \in ItemsOf}
Nested   == Plain \cup {Class(neg, <<Item(0, Open)>>, cl) : neg \in BOOLEAN, cl \in Plain}
Classes  == Nested \cup {Class(neg, <<i, j>>, cl) : neg \in BOOLEAN, i, j \in ItemsOf, cl \in Nested \cup {NoItem}}

(* A class is read as it is meant: ranges, negation before subtraction,    *)
(* nested subtractions, and a '-' of its own at either end (regex.go:462). *)
ASSUME ClassesExact ==
    \A cl \in Classes :
        LET src     == WrittenClass(cl)
            read    == ClassAt(src, 1)
            before  == ClassAt(InsertAt(src, IF cl.neg THEN 3 ELSE 2, Chr(Dash)), 1)
            after   == ClassAt(InsertAt(src, Len(src), Chr(Dash)), 1)
            dashed  == Meant([cl EXCEPT !.items = Append(@, Item(Dash, Dash))])
        IN  /\ read.ok /\ read.pos = Len(src) + 1 /\ read.set = RangesOf(Meant(cl))
            /\ before.ok /\ before.set = RangesOf(dashed)
            /\ cl.sub = NoItem => after.ok /\ after.set = RangesOf(dashed)

(* Whatever else is accepted is a range set in that form as well, and all  *)
(* of the expression was read or a character follows its bracket.          *)
ASSUME AcceptedInForm ==
    LET tokens == {Chr(ch) : ch \in {0, 2, Dash, Open, Close, Caret}} \cup {SetEscape(<< <<0, 0>>, <<2, 2>> >>)}
    IN  \A n \in 1..5 : \A rest \in [1..n -> tokens] :
            LET read == ClassAt(<<Chr(Open)>> \o rest, 1)
            IN  read.ok => /\ read.set = RangesOf(Points(read.set)) /\ Points(read.set) \subseteq Runes
                           /\ Is(<<Chr(Open)>> \o rest, read.pos - 1, Close)

(* A class must have an item before its subtraction (regex.go:502); but one *)
(* that subtracts an empty class is taken.                                 *)
ASSUME SubtractionFollows ==
    \A cl \in Nested :
        ClassAt(<<Chr(Open), Chr(Dash)>> \o WrittenClass(cl) \o <<Chr(Close)>>, 1).ok <=> Meant(cl) = {}

Copies(pieces, of(_)) == FoldLeft(LAMBDA sum, p : sum + p.times * of(p), 0, pieces)

(* A count is taken apart exactly but for the upper end of a wide range,   *)
(* which is rounded up to a multiple of the limit (regex.go:244); and what *)
(* Go takes of it has no such range, and no two pieces of the full count.  *)
ASSUME CountsTakenApart ==
    \A min \in 0..13 : \A max \in (min..13) \cup {Many} :
        LET pieces == ApplyQuant(min, max)
            wide   == max # Many /\ max - min > RepeatMax
            most   == Copies(pieces, LAMBDA p : p.hi)
        IN  /\ Copies(pieces, LAMBDA p : p.lo) = min
            /\ max # Many => IF wide THEN most \in max..(max + RepeatMax - 1) ELSE most = max
            /\ GoAccepts(pieces) <=> ~wide /\ min < 2 * RepeatMax
=============================================================================
