---------------------------- MODULE SharedMatcher ----------------------------
(***************************************************************************)
(* The one xsdwalk.Matcher of a Validator, used by every call of Assess.   *)
(* Match keeps the word it works on and the attributions it builds in      *)
(* fields of the matcher; its caller keeps the returned slice while it     *)
(* descends into the children, each of which calls Match again.            *)
(*                                                                         *)
(* Each access to a field is a step, so that the calls of two callers      *)
(* interleave as two goroutines' would (a read and a write of one field    *)
(* never overlap: torn slice headers are left out).                        *)
(*                                                                         *)
(* A content model is a sequence of [decl, min] with min 0 or 1, its       *)
(* declarations of distinct names: the search of ContentMatch on such a    *)
(* model never goes back.                                                  *)
(***************************************************************************)
EXTENDS Naturals, Sequences, FiniteSets

CONSTANTS Caller,      \* the calls of Assess
          Documents,   \* instances: [root, kids: node -> Seq(node), name: node -> name]
          Top,         \* the declaration of the root element
          NameOf,      \* declaration -> name
          ContentOf,   \* declaration -> content model
          Overlap      \* whether calls of Assess overlap

NoTerm == "no term"    \* the zero MatchedTerm

(* Within a content model a name belongs to one declaration, and what its  *)
(* children are declared as has a content model of its own.                *)
ASSUME ModelsAssumption ==
    LET Decl == DOMAIN ContentOf IN
    /\ Top \in Decl /\ NoTerm \notin Decl
    /\ \A d \in Decl :
          /\ ContentOf[d] \in Seq([decl : Decl, min : {0, 1}])
          /\ \A p, q \in DOMAIN ContentOf[d] :
                NameOf[ContentOf[d][p].decl] = NameOf[ContentOf[d][q].decl] => p = q

ASSUME InstancesAssumption ==
    \A x \in Documents :
        LET Node == DOMAIN x.kids IN x.root \in Node /\ x.kids \in [Node -> Seq(Node)]

VARIABLES
  children,   \* m.children: the word being matched
  terms,      \* m.terms: which slice of the heap it is
  slices,     \* the slices allocated by Match
  document,   \* what each caller assesses
  stack,      \* the elements each caller is in: [node, decl, terms, next]
  at,         \* the position of each caller's search: [pos, particle]
  pc,         \* what each caller does next
  outcomes    \* what each caller found: [node, decl, matched]

vars == <<children, terms, slices, document, stack, at, pc, outcomes>>

Frame(node, decl) == [node |-> node, decl |-> decl, terms |-> 0, next |-> 1]
Element(c) == stack[c][Len(stack[c])]
Kids(c)    == document[c].kids[Element(c).node]
Content(c) == ContentOf[Element(c).decl]

Update(c, frame) == [stack EXCEPT ![c][Len(stack[c])] = frame]
Note(c, matched) ==
    outcomes' = [outcomes EXCEPT ![c] =
                   @ \cup {[node |-> Element(c).node, decl |-> Element(c).decl, matched |-> matched]}]
Goto(c, where) == pc' = [pc EXCEPT ![c] = where]

Init ==
    /\ document \in [Caller -> Documents]
    /\ children = << >> /\ terms = 0 /\ slices = << >>
    /\ stack = [c \in Caller |-> << >>]
    /\ at = [c \in Caller |-> [pos |-> 1, particle |-> 1]]
    /\ pc = [c \in Caller |-> "idle"]
    /\ outcomes = [c \in Caller |-> {}]

-----------------------------------------------------------------------------
(* Assess: one after the other, unless calls overlap.                      *)
Begin(c) ==
    /\ pc[c] = "idle"
    /\ Overlap \/ \A d \in Caller \ {c} : pc[d] \in {"idle", "returned"}
    /\ stack' = [stack EXCEPT ![c] = <<Frame(document[c].root, Top)>>]
    /\ Goto(c, "children")
    /\ UNCHANGED <<children, terms, slices, document, at, outcomes>>

(* Match: m.children = children.                                           *)
SetChildren(c) ==
    /\ pc[c] = "children"
    /\ children' = [i \in DOMAIN Kids(c) |-> document[c].name[Kids(c)[i]]]
    /\ Goto(c, "terms")
    /\ UNCHANGED <<terms, slices, document, stack, at, outcomes>>

(* Match: m.terms = make([]MatchedTerm, len(children)).                    *)
(* Mutant: the slice of the last call is used again when it is long enough.*)
AllocateReusing(n) ==
    IF terms # 0 /\ Len(slices[terms]) >= n
    THEN terms' = terms /\ slices' = slices
    ELSE terms' = Len(slices) + 1 /\ slices' = Append(slices, [i \in 1..n |-> NoTerm])

Allocate(n) ==
    /\ terms' = Len(slices) + 1
    /\ slices' = Append(slices, [i \in 1..n |-> NoTerm])

MakeTerms(c) ==
    /\ pc[c] = "terms"
    /\ Allocate(Len(Kids(c)))
    /\ at' = [at EXCEPT ![c] = [pos |-> 1, particle |-> 1]]
    /\ Goto(c, "search")
    /\ UNCHANGED <<children, document, stack, outcomes>>

(* The search reads m.children for each particle in turn ...               *)
Accepts(c) ==
    /\ at[c].pos <= Len(children)
    /\ NameOf[Content(c)[at[c].particle].decl] = children[at[c].pos]

Consume(c) ==
    /\ pc[c] = "search" /\ at[c].particle <= Len(Content(c)) /\ Accepts(c)
    /\ Goto(c, "record")
    /\ UNCHANGED <<children, terms, slices, document, stack, at, outcomes>>

(* ... writes m.terms when the child is the particle's (a panic when the   *)
(* index is out of range) ...                                              *)
Record(c) ==
    /\ pc[c] = "record"
    /\ IF at[c].pos <= Len(slices[terms])
       THEN /\ slices' = [slices EXCEPT ![terms][at[c].pos] = Content(c)[at[c].particle].decl]
            /\ at' = [at EXCEPT ![c] = [pos |-> @.pos + 1, particle |-> @.particle + 1]]
            /\ Goto(c, "search")
       ELSE Goto(c, "panicked") /\ UNCHANGED <<slices, at>>
    /\ UNCHANGED <<children, terms, document, stack, outcomes>>

Skip(c) ==
    /\ pc[c] = "search" /\ at[c].particle <= Len(Content(c)) /\ ~Accepts(c)
    /\ Content(c)[at[c].particle].min = 0
    /\ at' = [at EXCEPT ![c].particle = @ + 1]
    /\ UNCHANGED <<children, terms, slices, document, stack, pc, outcomes>>

(* ... and fails on a required particle the child is not of, or on         *)
(* children left over: the element is reported, its children not assessed. *)
Fail(c) ==
    /\ pc[c] = "search"
    /\ \/ /\ at[c].particle <= Len(Content(c)) /\ ~Accepts(c)
          /\ Content(c)[at[c].particle].min = 1
       \/ at[c].particle > Len(Content(c)) /\ at[c].pos # Len(children) + 1
    /\ Note(c, FALSE)
    /\ stack' = [stack EXCEPT ![c] = SubSeq(@, 1, Len(@) - 1)]
    /\ Goto(c, "visit")
    /\ UNCHANGED <<children, terms, slices, document, at>>

(* Match returns m.terms.                                                  *)
Return(c) ==
    /\ pc[c] = "search" /\ at[c].particle > Len(Content(c)) /\ at[c].pos = Len(children) + 1
    /\ Note(c, TRUE)
    /\ stack' = Update(c, [Element(c) EXCEPT !.terms = terms])
    /\ Goto(c, "visit")
    /\ UNCHANGED <<children, terms, slices, document, at>>

(* assessElementContent's loop: assessChild(k, terms[i]).                  *)
Visit(c) ==
    /\ pc[c] = "visit" /\ stack[c] # << >> /\ Element(c).next <= Len(Kids(c))
    /\ LET e == Element(c)
           after == [stack[c] EXCEPT ![Len(stack[c])].next = @ + 1]
       IN  IF e.next > Len(slices[e.terms])
           THEN Goto(c, "panicked") /\ UNCHANGED stack
           ELSE LET decl == slices[e.terms][e.next]
                IN  IF decl = NoTerm
                    THEN stack' = [stack EXCEPT ![c] = after] /\ UNCHANGED pc
                    ELSE /\ stack' = [stack EXCEPT ![c] = Append(after, Frame(Kids(c)[e.next], decl))]
                         /\ Goto(c, "children")
    /\ UNCHANGED <<children, terms, slices, document, at, outcomes>>

Leave(c) ==
    /\ pc[c] = "visit"
    /\ IF stack[c] = << >> THEN Goto(c, "returned") /\ UNCHANGED stack
       ELSE /\ Element(c).next > Len(Kids(c))
            /\ stack' = [stack EXCEPT ![c] = SubSeq(@, 1, Len(@) - 1)] /\ UNCHANGED pc
    /\ UNCHANGED <<children, terms, slices, document, at, outcomes>>

Match(c) == SetChildren(c) \/ MakeTerms(c) \/ Consume(c) \/ Record(c) \/ Skip(c) \/ Fail(c) \/ Return(c)
Step(c)  == Begin(c) \/ Match(c) \/ Visit(c) \/ Leave(c)

Next == \E c \in Caller : Step(c)
Spec == Init /\ [][Next]_vars

-----------------------------------------------------------------------------
(* What a call of Assess finds when it has the matcher to itself.          *)
Word(doc, node) == [i \in DOMAIN doc.kids[node] |-> doc.name[doc.kids[node][i]]]

Placements(doc, node, decl) ==
    {f \in [DOMAIN doc.kids[node] -> DOMAIN ContentOf[decl]] :
       /\ \A i \in DOMAIN f : NameOf[ContentOf[decl][f[i]].decl] = Word(doc, node)[i]
       /\ \A i, j \in DOMAIN f : i < j => f[i] < f[j]
       /\ \A p \in DOMAIN ContentOf[decl] : ContentOf[decl][p].min = 1 => \E i \in DOMAIN f : f[i] = p}

Alone(doc, node, decl) ==
    [node |-> node, decl |-> decl, matched |-> Placements(doc, node, decl) # {}]

Below(doc, o) ==
    UNION {{Alone(doc, doc.kids[o.node][i], ContentOf[o.decl][f[i]].decl) : i \in DOMAIN f} :
             f \in Placements(doc, o.node, o.decl)}

(* "Validator is an immutable, concurrency-safe assessor ... call Assess   *)
(* for each instance" (validator.go:17): each call of Assess places the    *)
(* children of every element, and hands each to its declaration, as if no  *)
(* other match had used the matcher since the element's own.               *)
AsIfAlone ==
    \A c \in Caller :
        LET due == {Alone(document[c], document[c].root, Top)}
                     \cup UNION {Below(document[c], o) : o \in outcomes[c]}
        IN  /\ pc[c] # "panicked"
            /\ outcomes[c] \subseteq due
            /\ pc[c] = "returned" => outcomes[c] = due
=============================================================================
