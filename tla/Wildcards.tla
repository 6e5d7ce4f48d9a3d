------------------------------ MODULE Wildcards ------------------------------
(***************************************************************************)
(* Wildcards: which names one admits (xsd/wildcard.go) and the relations   *)
(* the schema builder computes between two of them (parser/wildcard.go):   *)
(* subset, intersection, union.  A wildcard constrains the namespace of a  *)
(* name (every namespace, those of a list, or all but those of a list),    *)
(* disallows single names, and with the keywords ##defined and             *)
(* ##definedSibling the names that some context declares.  The relations   *)
(* work on that syntax; the names admitted are what they are about.        *)
(***************************************************************************)
EXTENDS Naturals

CONSTANTS Namespace,    \* namespace names, the absent one included
          Name,         \* expanded names
          NamespaceOf,  \* [Name -> Namespace]
          NoWildcard    \* Go's nil *xsd.Wildcard

ASSUME NamespaceAssumption == NamespaceOf \in [Name -> Namespace]

(* {process contents} in the order of its constants: lower is stronger.    *)
Strict == 0
Lax    == 1
Skip   == 2

Keyword == {"##defined", "##definedSibling"}

Wildcard == [mode            : {"any", "enumeration", "not"},
             namespaces      : SUBSET Namespace,
             notQName        : SUBSET Name,
             keywords        : SUBSET Keyword,
             processContents : {Strict, Lax, Skip}]

ASSUME NoWildcardAssumption == NoWildcard \notin Wildcard

(* The names a context declares, per keyword (WildcardContext).            *)
Context == [Keyword -> SUBSET Name]

-----------------------------------------------------------------------------
AllowsNamespace(w, ns) ==
    CASE w.mode = "any"         -> TRUE
      [] w.mode = "enumeration" -> ns \in w.namespaces
      [] w.mode = "not"         -> ns \notin w.namespaces

AllowsName(w, q) == AllowsNamespace(w, NamespaceOf[q]) /\ q \notin w.notQName

Allows(w, q, ctx) == AllowsName(w, q) /\ \A k \in w.keywords : q \notin ctx[k]

-----------------------------------------------------------------------------
(* Mutant: clause 3 asks for inclusion instead of disjointness.            *)
NamespaceVarietySubsetSwapped(sub, super) ==
    \/ super.mode = "any"
    \/ sub.mode = super.mode /\ sub.namespaces \subseteq super.namespaces
    \/ sub.mode = "enumeration" /\ super.mode = "not" /\ sub.namespaces \subseteq super.namespaces

NamespaceVarietySubset(sub, super) ==
    \/ super.mode = "any"
    \/ /\ sub.mode = "enumeration" /\ super.mode = "enumeration"
       /\ sub.namespaces \subseteq super.namespaces
    \/ /\ sub.mode = "enumeration" /\ super.mode = "not"
       /\ sub.namespaces \cap super.namespaces = {}
    \/ /\ sub.mode = "not" /\ super.mode = "not"
       /\ super.namespaces \subseteq sub.namespaces

NamespaceConstraintSubset(sub, super) ==
    /\ NamespaceVarietySubset(sub, super)
    /\ super.keywords \subseteq sub.keywords
    /\ \A q \in super.notQName : ~AllowsName(sub, q)

-----------------------------------------------------------------------------
(* The namespace constraint both admit, as [mode, namespaces].             *)
NamespaceIntersection(w1, w2) ==
    LET Constraint(m, ns) == [mode |-> m, namespaces |-> ns]
        s1 == w1.namespaces
        s2 == w2.namespaces
    IN  CASE w1.mode = "any" /\ w2.mode = "any" -> Constraint("any", {})
          [] w1.mode = "any" /\ w2.mode # "any" -> Constraint(w2.mode, s2)
          [] w1.mode # "any" /\ w2.mode = "any" -> Constraint(w1.mode, s1)
          [] w1.mode = "not" /\ w2.mode = "not" -> Constraint("not", s1 \cup s2)
          [] w1.mode = "not" /\ w2.mode = "enumeration" -> Constraint("enumeration", s2 \ s1)
          [] w1.mode = "enumeration" /\ w2.mode = "not" -> Constraint("enumeration", s1 \ s2)
          [] OTHER -> Constraint("enumeration", s1 \cap s2)

(* wildcardIntersect: no wildcard at all stands for "everything" here.     *)
WildcardIntersect(w1, w2) ==
    IF w1 = NoWildcard THEN w2
    ELSE IF w2 = NoWildcard THEN w1
    ELSE LET ns == NamespaceIntersection(w1, w2)
         IN  [mode            |-> ns.mode,
              namespaces      |-> ns.namespaces,
              notQName        |-> w1.notQName \cup w2.notQName,
              keywords        |-> w1.keywords \cup w2.keywords,
              processContents |-> IF w1.processContents < w2.processContents
                                  THEN w1.processContents ELSE w2.processContents]

(* The namespace constraint that admits what either does; "not" of nothing *)
(* is "any" (setUnionNot).                                                 *)
SetUnionNot(ns) == IF ns = {} THEN [mode |-> "any", namespaces |-> {}]
                   ELSE [mode |-> "not", namespaces |-> ns]

NamespaceUnion(w1, w2) ==
    LET s1 == w1.namespaces
        s2 == w2.namespaces
    IN  CASE w1.mode = "any" \/ w2.mode = "any" -> [mode |-> "any", namespaces |-> {}]
          [] w1.mode = "not" /\ w2.mode = "not" -> SetUnionNot(s1 \cap s2)
          [] w1.mode = "not" /\ w2.mode = "enumeration" -> SetUnionNot(s1 \ s2)
          [] w1.mode = "enumeration" /\ w2.mode = "not" -> SetUnionNot(s2 \ s1)
          [] OTHER -> [mode |-> "enumeration", namespaces |-> s1 \cup s2]

(* A name stays disallowed only when the other wildcard does not admit it; *)
(* a keyword only when both carry it.                                      *)
NotQNameUnionDisallowed(w1, w2) ==
    {q \in w1.notQName : ~AllowsName(w2, q)} \cup {q \in w2.notQName : ~AllowsName(w1, q)}

(* wildcardUnion: no wildcard stands for "nothing" here, and the second    *)
(* wildcard governs how matched attributes are processed.                  *)
WildcardUnion(w1, w2) ==
    IF w1 = NoWildcard THEN w2
    ELSE IF w2 = NoWildcard THEN w1
    ELSE LET ns == NamespaceUnion(w1, w2)
         IN  [mode            |-> ns.mode,
              namespaces      |-> ns.namespaces,
              notQName        |-> NotQNameUnionDisallowed(w1, w2),
              keywords        |-> w1.keywords \cap w2.keywords,
              processContents |-> w2.processContents]
=============================================================================
