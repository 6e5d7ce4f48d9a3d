------------------------------ MODULE CharClasses ------------------------------
(***************************************************************************)
(* The character classes and the counted repetitions of a pattern (package *)
(* xsdregex): sets of code points as sorted lists of disjoint ranges, the  *)
(* parser of a class expression, and how a count beyond the limit of Go's  *)
(* regexp is taken apart.                                                  *)
(***************************************************************************)
EXTENDS Integers, Sequences, SequencesExt

CONSTANTS MaxRune,     \* the greatest code point
          RepeatMax    \* goRepeatMax

ASSUME CharacterAssumption == MaxRune \in Nat /\ MaxRune >= 6 /\ RepeatMax \in Nat \ {0}

Greater(a, b) == IF a < b THEN b ELSE a
Lesser(a, b)  == IF a < b THEN a ELSE b

(* Ranges that overlap or touch become one range.                           *)
Union(a, b) ==
    LET sorted == SortSeq(a \o b, LAMBDA r, s : r[1] < s[1])
        add(out, r) ==
            IF out # <<>> /\ r[1] <= Last(out)[2] + 1
            THEN [out EXCEPT ![Len(out)][2] = Greater(@, r[2])]
            ELSE Append(out, r)
    IN  FoldLeft(add, <<>>, sorted)

AddRange(s, lo, hi) == Union(s, << <<lo, hi>> >>)

Complement(s) ==
    LET add(acc, r) ==
            [out  |-> IF r[1] > acc.next THEN Append(acc.out, <<acc.next, r[1] - 1>>) ELSE acc.out,
             next |-> Greater(acc.next, r[2] + 1)]
        acc == FoldLeft(add, [out |-> <<>>, next |-> 0], s)
    IN  IF acc.next <= MaxRune THEN Append(acc.out, <<acc.next, MaxRune>>) ELSE acc.out

RECURSIVE Intersect(_, _)
Intersect(a, b) ==
    IF a = <<>> \/ b = <<>> THEN <<>>
    ELSE LET lo == Greater(Head(a)[1], Head(b)[1])
             hi == Lesser(Head(a)[2], Head(b)[2])
         IN  (IF lo <= hi THEN << <<lo, hi>> >> ELSE <<>>)
             \o (IF Head(a)[2] < Head(b)[2] THEN Intersect(Tail(a), b) ELSE Intersect(a, Tail(b)))

Subtract(a, b) == Intersect(a, Complement(b))

-----------------------------------------------------------------------------
(* A class expression is a sequence of characters, escaped characters and  *)
(* escapes that stand for a set.                                           *)
Chr(c)       == [kind |-> "char", at |-> c]
Esc(c)       == [kind |-> "escape", at |-> c]
SetEscape(s) == [kind |-> "set", of |-> s]

Dash  == 1
Open  == 3
Close == 4
Caret == 5

Is(src, p, c) == p <= Len(src) /\ src[p] = Chr(c)

Bad == [ok |-> FALSE]

(* One item of a group after the other, up to the bracket that closes it.  *)
(* A subtraction of the empty set counts as an item, not as a subtraction. *)
RECURSIVE Group(_, _, _, _, _), ClassAt(_, _)
Group(src, p, set, sub, first) ==
    CASE p > Len(src)         -> Bad
      [] Is(src, p, Close)    -> IF first THEN Bad ELSE [ok |-> TRUE, set |-> set, sub |-> sub, pos |-> p + 1]
      [] Is(src, p, Open)     -> Bad
      [] Is(src, p, Dash) /\ Is(src, p + 1, Open) ->
           LET s == ClassAt(src, p + 1)
           IN  IF ~s.ok THEN Bad
               ELSE IF ~Is(src, s.pos, Close) THEN Bad
               ELSE IF s.set = <<>> THEN Group(src, s.pos, set, sub, FALSE)
               ELSE Group(src, s.pos, set, s.set, first)
      [] Is(src, p, Dash) /\ Is(src, p + 1, Dash) /\ ~Is(src, p + 2, Close) /\ ~Is(src, p + 2, Open) -> Bad
      [] Is(src, p, Dash) /\ ~Is(src, p + 1, Open)
           /\ (Is(src, p + 1, Dash) => Is(src, p + 2, Close) \/ Is(src, p + 2, Open)) ->
           Group(src, p + 1, AddRange(set, Dash, Dash), sub, FALSE)
      [] src[p].kind = "set"  -> Group(src, p + 1, Union(set, src[p].of), sub, FALSE)
      [] OTHER                ->
           LET lo == src[p].at
           IN  IF ~Is(src, p + 1, Dash) \/ Is(src, p + 2, Open) \/ Is(src, p + 2, Close)
               THEN Group(src, p + 1, AddRange(set, lo, lo), sub, FALSE)
               ELSE IF p + 2 > Len(src) \/ Is(src, p + 2, Dash) THEN Bad
               ELSE IF src[p + 2].kind = "set" THEN Bad
               ELSE IF src[p + 2].at < lo THEN Bad
               ELSE Group(src, p + 3, AddRange(set, lo, src[p + 2].at), sub, FALSE)

(* charClassExpr: negation comes before subtraction.                       *)
ClassAt(src, p) ==
    IF ~Is(src, p, Open) THEN Bad
    ELSE LET neg   == Is(src, p + 1, Caret)
             group == Group(src, IF neg THEN p + 2 ELSE p + 1, <<>>, <<>>, TRUE)
         IN  IF ~group.ok THEN Bad
             ELSE LET set == IF neg THEN Complement(group.set) ELSE group.set
                  IN  [ok |-> TRUE, pos |-> group.pos,
                       set |-> IF group.sub = <<>> THEN set ELSE Subtract(set, group.sub)]

-----------------------------------------------------------------------------
(* A repetition as the pieces it is taken apart into: times over, from lo  *)
(* to hi copies of the atom.                                               *)
Many == -1

Piece(lo, hi, times) == [lo |-> lo, hi |-> hi, times |-> times]

Exact(n) ==
    IF n = 0 THEN <<>>
    ELSE IF n <= RepeatMax THEN <<Piece(n, n, 1)>>
    ELSE <<Piece(RepeatMax, RepeatMax, n \div RepeatMax)>>
         \o (IF n % RepeatMax > 0 THEN <<Piece(n % RepeatMax, n % RepeatMax, 1)>> ELSE <<>>)

ApplyQuant(min, max) ==
    CASE max = Many              -> IF min = 1 THEN <<Piece(1, Many, 1)>> ELSE Exact(min) \o <<Piece(0, Many, 1)>>
      [] min = max               -> Exact(min)
      [] max # Many /\ max # min ->
           LET wide == max - min
           IN  Exact(min) \o
               IF wide <= RepeatMax THEN <<Piece(0, wide, 1)>>
               ELSE <<Piece(0, RepeatMax, (wide + RepeatMax - 1) \div RepeatMax)>>

(* Go's regexp refuses a repetition that, with those inside it, makes more *)
(* than RepeatMax copies.                                                  *)
GoAccepts(pieces) == \A k \in DOMAIN pieces : pieces[k].times * pieces[k].hi <= RepeatMax
=============================================================================
