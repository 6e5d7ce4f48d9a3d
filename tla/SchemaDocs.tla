----------------------------- MODULE SchemaDocs -----------------------------
(***************************************************************************)
(* The schema documents a SchemaResolver can serve, and what each include, *)
(* import, redefine or override of one of them asks the loader to do.  A   *)
(* document set is one record:                                             *)
(*   roots      the entry points, in the order they are given              *)
(*   status[u]  what resolving and parsing u yields                        *)
(*   tns[u]     its targetNamespace attribute, Absent when it has none     *)
(*   comps[u]   its composition children, in document order                *)
(*   decls[u]   the names of its global components                         *)
(* A name stands for a symbol space and a local name together.  A          *)
(* composition is [kind, ns, loc, names, selfBase]: its namespace attribute*)
(* (import), the URI its schemaLocation joins to (NoLocation when absent), *)
(* the components it replaces, and whether they derive from themselves.    *)
(***************************************************************************)
EXTENDS Naturals, Sequences, FiniteSets

CONSTANTS Uri, Namespace, Name, Absent, NoLocation, DocSets

Tns == Namespace \cup {Absent}

Status == {"schema",        \* retrieved, well-formed, rooted at xs:schema
           "alien",         \* retrieved, well-formed, rooted at another element
           "malformed",     \* retrieved, not well-formed
           "unresolvable"}  \* the resolver reports an error

CompositionRecord ==
    [kind : {"include", "import", "redefine", "override"}, ns : Tns,
     loc : Uri \cup {NoLocation}, names : SUBSET Name, selfBase : BOOLEAN]

(* What a set of documents is.                                             *)
IsDocSet(w) ==
    /\ w.roots \in Seq(Uri)
    /\ w.status \in [Uri -> Status]
    /\ w.tns \in [Uri -> Tns]
    /\ w.comps \in [Uri -> Seq(CompositionRecord)]
    /\ w.decls \in [Uri -> SUBSET Name]

ASSUME DocSetsAssumption ==
    /\ NoLocation \notin Uri
    /\ Absent \notin Namespace
    /\ \A w \in DocSets : IsDocSet(w)

(* A schema document instance: a document read as part of one namespace.   *)
Key == Uri \X Tns

ReadAs(u, t) == <<u, t>>
UriOf(k) == k[1]
NamespaceOf(k) == k[2]   \* schemaDoc.targetNamespace, absorbed or its own

-----------------------------------------------------------------------------
(* src-import.1: an import that is wrong whatever it points to.            *)
MisplacedImport(k, c) ==
    /\ c.kind = "import"
    /\ c.ns = NamespaceOf(k)

(* Whether the loader asks the resolver for the target of c.               *)
Followed(k, c) == c.loc # NoLocation /\ ~MisplacedImport(k, c)

(* Mutant: a document without a targetNamespace keeps it when composed in. *)
TargetOfUnabsorbed(w, k, c) == ReadAs(c.loc, w.tns[c.loc])

(* The namespace the target of c is read under: its own for an import, and *)
(* for the other kinds the namespace of the document that composes it in,  *)
(* which a document without a targetNamespace absorbs (chameleon).         *)
TargetOf(w, k, c) ==
    ReadAs(c.loc, IF c.kind = "import" THEN w.tns[c.loc] ELSE NamespaceOf(k))

(* Whether the target may be read in the role c gives it.                  *)
Compatible(w, k, c) ==
    IF c.kind = "import" THEN w.tns[c.loc] = c.ns
    ELSE w.tns[c.loc] \in {NamespaceOf(k), Absent}

(* Mutant: an import that cannot be resolved is reported. *)
OutcomeStrictImport(w, k, c) ==
    IF Followed(k, c) /\ w.status[c.loc] = "unresolvable" THEN "error"
    ELSE IF MisplacedImport(k, c) THEN "error"
    ELSE IF c.loc = NoLocation THEN "nothing"
    ELSE IF w.status[c.loc] # "malformed" /\ Compatible(w, k, c) THEN "load" ELSE "error"

(* What composing c into k comes to.  An unresolvable import is not an     *)
(* error: its location is a hint.                                          *)
Outcome(w, k, c) ==
    CASE MisplacedImport(k, c) -> "error"
      [] ~MisplacedImport(k, c) /\ c.loc = NoLocation -> "nothing"
      [] Followed(k, c) /\ w.status[c.loc] = "unresolvable" ->
            IF c.kind = "import" THEN "nothing" ELSE "error"
      [] Followed(k, c) /\ w.status[c.loc] = "malformed" -> "error"
      [] OTHER -> IF Compatible(w, k, c) THEN "load" ELSE "error"
=============================================================================
