# A verification project for goxsd5

goxsd5 reads XML Schema 1.1 documents into a component model (`parser`), lets a
program query and edit that model (`xsd`, `xsdwalk`, `xsdedit`) and assesses
instances against it (`xsdvalidate`). This directory holds TLA+ models of its
core algorithms, the TLC configurations that check them on small instances, and
TLAPS proofs of what holds for every instance. Paths below are relative to
`src/`; "the Recommendation" is the text kept under `docs/clean`.

Contents: [the system](#the-system) · [components](#components) ·
[hazards](#what-is-hard-here) · [modules](#modules-and-the-code-they-model) ·
[runs](#runs) · [fairness](#fairness) · [proofs](#proofs) ·
[where code and text disagree](#where-code-and-text-disagree) ·
[not modelled](#what-is-not-modelled) · [plan](#plan)

## The system

```
 documents --> resolver --> parser/loader --> parser/registry --> parser/builder --> xsd components
                            (discovery,        (suppression,       (shells, types,        |
                             chameleons)        redefine,           groups, cycles,       |
                                                override)           UPA, restriction)     |
                                                                                          v
 instance --> xmlsrc/jsonsrc --> xsdvalidate.Assess <--> xsdwalk.Matcher, query     xsdedit, xsdwalk
```

Everything is called synchronously: there are no goroutines, channels or timers
in the library. What makes the code hard is not a scheduler but order: recursion
through graphs that may be cyclic, caches that answer for work still in
progress, state that one phase leaves for a later one, and rules that are
decided in several places by different code. One exception is concurrency by
contract: `xsdvalidate.Validator` is documented to serve several calls of
`Assess` at once.

The two entry points are pipelines of phases, each a pass over what the one
before left behind.

* **`parser.Parse`** loads every document reachable from the entry points
  (`loader.go: load, instance, compose`), checks each one's structure when it is
  first read (`validate.go`), suppresses what redefine and override replace and
  registers the globals (`loader.go: register`), builds a shell per component
  and breaks circular definitions (`buildschema.go`), finishes complex types
  base first (`buildcomplex.go`), and runs the static checks of content models
  and derivations (`buildschema.go`, `upa.go`, `restrict.go`, `subsumption.go`).
* **`Validator.Assess`** walks the instance once, depth first
  (`assess.go`): each element is placed by its parent's content model
  (`xsdwalk.Matcher`) under a declaration, a bare type or nothing; its value,
  attributes, ID/IDREF items, assertions and identity constraints are handled on
  the way. Keyrefs and IDREFs wait in lists for two passes after the walk
  (`idc.go: flushKeyrefs`, `assess.go: checkIDRefs`).

## Components

For each: the state it keeps, its operations, who it interacts with, what is
hard, and what makes it correct.

**Instance assessment** (`xsdvalidate/assess.go`, `idc.go`). State: one
`assessor` per call: the clock `dfsClock`, `skipped`, `keyTables`,
`pendingKeyrefs`, `ids`, `idrefs` and the errors. Operations: place and assess
an element, harvest IDs, evaluate the element's constraints when its content is
done, flush. Called by the program, calls the matcher and the derivation
queries. Hard: scope of keys is decided from two readings of a clock; a value's
bearer is whichever was met first; one failing element must not disturb the
rest. Correct when the verdict is the one a reader of the Recommendation
reaches looking at the whole document at once.

**Loader** (`parser/loader.go`, discovery). State: the cache of trees by URI,
the document instances by URI and namespace, the order of instances, the
targets of each, the replacements, the Go call stack. Operations: `load` an
entry point, `instance`, `compose`. Hard: cyclic and diamond composition,
chameleon documents absorbed into several namespaces, failures that count in one
role (include) and not in another (import). Correct when each document is
fetched once, exactly the documents composed in are loaded, exactly the faulty
compositions are reported, and the recursion never enters a document it is in.

**Registration, redefine and override** (`parser/loader.go: register`,
`parser/registry.go`). State: the suppressed names per document, the registry.
Correct when no declared component vanishes, the outermost replacement is the
one references resolve to, and only real clashes are reported.

**Wildcards** (`xsd/wildcard.go`, `parser/wildcard.go`). Pure set algebra on
the syntax of namespace constraints. Correct when subset is sound and
intersection and union are exact for the names admitted.

**Attribute uses of complex types** (`parser/buildcomplex.go`,
`buildterms.go`). State: the worklist `ctOrder`, `ctDone`, the memo
`attrGroups`, the uses and wildcards assigned. Operations: finish a type (base
first), fill its content (which may extend the worklist), build an attribute
group where it is first referred to, merge, apply defaults. Correct when the
result is what the mapping rules say, whatever order the types come in.

**Content types** (`parser/buildcomplex.go`, `buildterms.go`, `buildschema.go`).
What a complex type declares, alone or over a base, becomes one particle, one
{mixed} and one open content. Operations: build, the static checks over the
result, matching. Hard: all groups are merged, particles appended, references
kept, open contents united or compared, and every check decides by itself what
an empty particle, a count or a wildcard means. Correct when what the checks
let through is what the instances then find: the checks are about languages of
words, and the matcher decides those.

* *Content matcher* (`xsdwalk/automaton.go`). State: fields of the `Matcher`
  set by each call of `Match`. A backtracking search with continuations.
  Correct when it accepts exactly the language of the content model and its
  attributions are a run of it.
* *Unique Particle Attribution* (`parser/upa.go`, `checkAllUPA`). Correct when
  what passes is deterministic and what is reported really competes.
* *Restriction* (`parser/restrict.go`, `subsumption.go`). Slots of the base
  against runs of the restriction, or counts by region of names; correct when
  an accepted restriction has no word the base lacks and a reported one has.
* *Consistent declarations and emptiability* (`parser/buildschema.go`). Correct
  when two types for one name are always found, also through groups,
  substitution groups and wildcards.

**Shared matcher** (`xsdvalidate/validator.go`). One `Matcher` per `Validator`,
used by every element of every call of `Assess`. Correct when a call finds what
it would find alone.

**Circular definitions** (`parser/buildschema.go`, `builder.go`,
`buildsimple.go`). State: the marks of simple types being built, marks per
group, the bases, parts and references it resets. Correct when every later climb
of a base chain or expansion of a group ends, with one report per cycle, and a
simple type that is not part of a cycle comes out as declared.

**Derivation queries** (`xsdwalk/query.go`, `parser/restrict.go`,
`parser/buildterms.go`). Pure functions, four versions of one question ("may
this type stand for that one"). Correct when they agree with the Recommendation
and with each other.

**Constraining facets** (`xsd/facets.go`, `xsd/facets_check.go`,
`parser/buildsimple.go`) and **editing** (`xsdedit/edit.go`). State: the
declared facets of each type, with slices of pattern groups that types may
share; effective facets are merged along the chain at each use. Correct when a
restriction never accepts what its base refuses, also after an edit, and an edit
changes no other type further than what it adds.

**XPath** (`xpath/parse.go`, `eval.go`) and **assertions**
(`xsdvalidate/assert.go`, the test check of `parser/attrcheck.go`). Tokens become
a tree; an evaluator walks it over the instance with a focus (item, position,
size); its result chooses an element's type or decides an assertion. State: the
environment of an evaluation (variables, `$value`, inherited attributes), the
search through the type table, the items of a list still to be checked. Hard:
thirteen levels of grammar told apart by the next token; a focus per predicate;
and "not understood" must neither accept by accident nor reject. Correct when
the tree is the one written, the verdict is the one the expression means, and
what is not understood fails open.

**Dates, times, durations** (`xsdtemporal`). Pure: a calendar, a timeline and
comparisons that are partial by design (a value with a timezone and one without,
a month and thirty days). Correct when they are the partial orders the facets
rely on.

**Regular expressions** (`xsdregex`). A translation into Go's syntax; its own
logic is an algebra of code point ranges, a parser for class expressions with
subtraction, and a way around Go's limit of repetitions.

**Structural check** (`parser/validate.go`, `content.go`, `elemtable.go`). A
table of grammars over the local names of children, a matcher that keeps a set
of positions, rules on children the table cannot express, and a walk that prunes
by version first. Correct when the matcher is the grammar's language, names the
first offender and what was expected, and the walk visits what is not pruned.

**JSON instances** (`xsdvalidate/jsonsrc`) and the **walker** (`xsdwalk/walk.go`).
The walker visits the element declarations of a type; the source classifies the
keys of an object by them. Correct when the JSON form of a document is read as
that document.

The rest (the XML reader, value spaces, bundled schemas, the component model,
errors, the command line, the documentation tool) is described under
[what is not modelled](#what-is-not-modelled).

## What is hard here

`PROJECT.json` lists the hazards at their lines; these are the groups.

| Hazard | Where | Covered by |
|---|---|---|
| scope decided by clock readings | `idc.go:127` | ScopeIsSubtree, IntervalNesting |
| values resolved before or after they are bound; a skipped subtree read by someone else's selector | `idc.go:85`, `assess.go:455`, `:833`, `:866` | IdentityExact, Implements |
| a cache answering for a document still being read | `loader.go:109`, `:131`, `:135` | ReadOnce, OrderIsDocs, OpenOnce, LoadedExactly, FaultsReported |
| replacements applied in the wrong order | `loader.go:239`, `:261` | ReplacementsInOrder, NoComponentLost |
| a type merged with an unfinished base; a memo entered through a cycle | `buildcomplex.go:113`, `buildterms.go:453` | AsMapped, AllFinished |
| set algebra by the syntax of wildcards | `parser/wildcard.go:178` | AsMapped, DerivationKept |
| greedy search over nullable and counted terms; attributions of a failed branch | `automaton.go:97`, `:151` | MatchExact |
| what may follow what | `upa.go:112` | AmbiguityExact |
| particles mapped to the wrong slot, ranges multiplied and added up | `subsumption.go:212` | ViolationsAreReal, AcceptedRestricts |
| open content compared clause by clause | `restrict.go:252` | OpenContentExact |
| an extension built of parts of different age | `buildschema.go:573` | ExtensionKeepsContent |
| two declarations of a name, far apart | `buildschema.go:434` | ConsistencyExact |
| emptiability decided apart from the matcher | `restrict.go:398` | EmptiableExact |
| state shared by nested and overlapping calls | `validator.go:27`, `assess.go:350` | AsIfAlone |
| a cycle that later passes climb | `buildschema.go:689`, `:730`, `builder.go:175` | BasesEnd, GroupsEnd, ReportsExact, SimpleTypesExact |
| one question answered by four functions | `query.go:56`, `:163`, `buildschema.go:195` | XsiTypeExact, DecidersAgree, SubstitutionRules |
| bounds that meet, incomparable values, edits of a base under its derived types | `facets_check.go:207`, `facets.go:290` | Narrowing, EditsContained |
| a wrong turn of the grammar | `xpath/parse.go:406` | ReadAsWritten |
| the focus of a predicate; positions and numbers at their edges | `xpath/eval.go:965`, `:1357` | VerdictExact, IdentitiesHold |
| an expression half understood | `xpath/eval.go:13` | FailsOpen |
| a test that fails against one that is false | `assert.go:88` | TableExact |
| the value of a list of unions, without its element | `assess.go:684` | ValueOnly |

## Modules and the code they model

Composition is by EXTENDS (`A <- B`: B extends A) and INSTANCE (`A :: B`: A
instantiates B).

```
Instance <- Assess, AssessSpec                     Assess :: AssessSpec (refinement)
Assess, Induction <- AssessProofs
Assess, JSONInstance <- MCAssess
SchemaDocs <- Loader <- Registration
Registration, Structure <- MCRegistration
Wildcards <- TypeAttributes <- MCTypeAttributes
          <- ContentModels <- ContentMatch
                           <- UPA, Restriction
TypeAttributes, Induction <- AttributeProofs
UPA, Restriction <- ContentTypes <- ContentTypeRules <- MCContentTypes
                                                   ContentTypes :: ContentMatch
ContentTypeRules, Induction <- ContentProofs <- RestrictionProofs
SharedMatcher <- MCSharedMatcher
              <- SharedMatcherProofs
Cycles <- MCCycles
Derivation <- DerivationRules
Registration, DerivationRules, Induction <- SchemaProofs
Facets <- SimpleTypes
SimpleTypes, Temporal, Cycles, Induction <- BuilderProofs
SimpleTypes, Temporal, CharClasses <- MCSimpleTypes
XPathParse <- XPathWriting
XPathValues, XPathParse <- XPathEval <- Assertions
Assertions, XPathWriting <- AssertionRules <- MCAssertions
```

`PROJECT.json` maps every definition to its lines. What follows is the idea of
each module.

### Instance, Assess, AssessSpec

`Instance` defines the documents: a record with the tree (`kids`, `parent`,
`anc`, `order`) and, per element, the answers that depend on that element alone:
what the content model attributed it to (`term`), whether its children match
(`match`), its kind of content, its nilled flag, its ID and IDREF items, its
identity constraints with the paths of their selectors and fields, and its
values by node name: its own text and its attributes, each with whether it has a
type and parses. `IsTree` states what the
`Element` interface of `infoset.go` promises, `IsInstance` that what is read off
the elements (paths among it) comes in lists and that each element has a place in the document's
order. `Placement` is `assessRoot` and
`assessChild`: under a declaration, a bare type, skipped, ignored or an error.

`Assess` has the assessor's fields as variables (`clock`, `enter`, `leave`,
`skipped`, `keyTables`, `pending`, `ids`, `idrefs`, `errs`), the top of the Go
stack (`cur`) and the loop index of each activation (`next`). Actions:

| Action | Code |
|---|---|
| `AssessRoot`, `AssessChild` | an element with a governing type is entered: its xsi:nil, its attributes and simple content, its IDs harvested; under a declaration the clock ticks; where `assess.go:295` reads a nil declaration the phase becomes "panic" |
| `RejectRoot` | an undeclared root: the only error |
| `PassChild` | a child that is skipped (and marked so), left unassessed, or an error |
| `Return` | the element's content is done: its key tables are built and its keyrefs deferred with `[enter, leave]` |
| `FlushKeyref`, `KeyrefsDone`, `CheckIDRef`, `Finish` | the two passes after the walk, entry by entry |

Targets of a selector are a set (`PathTargets` of each alternative, step by step
from `Bases`), each with the turn at which the code meets it: by alternative,
base and position. A field is evaluated from its target in the same way: its
nodes are elements or attributes, in regions the walk left unassessed too but
not in skipped ones, and each node compares by value only if the walk typed it
(`FieldValue`). `Kept` are the tuples of a key that equal
none kept before. Tuples and IDREFs are kept as sets, since only membership is
read afterwards.

`AssessSpec` says the same of a whole document at once, without a walk, a clock
or tables: which elements are assessed, which nodes a constraint qualifies, by
ancestry alone, and the verdict. `Implements` is the refinement: the verdict is
pending until the walk and both passes are over.

### SchemaDocs, Loader, Registration

`SchemaDocs` is the set of documents a resolver can serve: what retrieving each
yields, its target namespace, its compositions and globals. `Loader` has the
call stack of `instance` activations and the caches of `loader.go`. `LoadRoot`,
`Compose` (one composition: nothing, an error, a target already there, or a
descent), `Return` (which also records the target and, for redefine and
override, the replacement, as the code after the recursive call does) and
`Loaded`. The reference is a least fixed point: the documents reachable by the
composition rules, and the compositions that break a rule.

`Registration` continues with `register()`: `SuppressOriginals` per replacement
through the closure of targets, `RegisterDocument` in document order,
`RegisterReplacement` in the order recorded. A registered component remembers
which document and which replacement it came from and what its own name resolves
to inside it.

### Wildcards, TypeAttributes

`Wildcards` has the three namespace constraints, the disallowed names and the
keywords, admission of a name in a context and subset, intersection and union
as the code computes them on the syntax. `TypeAttributes` is the worklist: a
stack of activations of `finishComplexType` and `buildAttributeGroup` whose
steps are `FinishBase`, `FillContent`, `OwnChild`, `EnterGroup`, `KnownGroup`,
`CircularGroup`, `CompleteGroup`, `Merge`, `BuildDefaults`, `FinishType`. The
reference (`UsesAsMapped`, `WildcardAsMapped`) is the mapping rules read as
equations, in which no order occurs.

### ContentModels, ContentMatch, UPA, Restriction, ContentTypes, ContentTypeRules

`ContentModels` has the particles and terms that builder and matcher share, the
arithmetic of occurrence counts with `Unbounded`, and the small questions each
check asks (is this a wildcard, is it emptiable, which elements may stand here).

`ContentMatch` is the matcher. Its continuations become sequences: an operator
returns, in order, every end position its code would hand on, each with the
attributions made, and the match is the first that `finish` accepts. Its
reference is the language of particles defined by induction on them (`Runs`).
The code's recursion is over particles; here it is a recursive function of the
particles nested up to `Depth`, with any counts, min no more than max as
`checkOccurs` (`parser/validate.go:169`) leaves them.

`UPA` is the position automaton (`checkSeqChoiceUPA`: nullable, first, last,
follow, with repetition edges) and the pairwise test for all groups. Its
reference is the definition of competing particles by paths.

`Restriction` decides a restriction the way `restrict.go` and `subsumption.go`
do: flat groups only; with at most one wildcard in the base, particles are
mapped to slots and ranges added up per slot (`slotRun`); with more, counts are
compared by region of names, over representatives (`regionRun`); the clauses on
open content come after. What is reported is a set of kinds of violation.

`ContentTypes` is the life of one content type, and composes the others: it is
declared; `BuildAlone`, `BuildFromSimple`, `RestrictToSimple`, `BuildExtension`
or `BuildRedefined` derives its particle, {mixed} and open content from its
base; `Check` runs the static checks of `runStaticTypeChecks` over the result;
`MatchChildren` matches a word. `ContentTypeRules` states what each check
promises of the words the matcher then sees: a model that passes has no word
that two particles compete for, a restriction that is accepted has no word its
base refuses, one that is reported has a difference to show, an extension keeps
the words of its base, an emptiable type is one whose matcher takes no children.

### SharedMatcher

The other half of the same struct: the fields `children` and `terms`, written by
each `Match` and read by its caller while nested calls run. Each access is a
step. With `Overlap = FALSE` the calls of two callers follow one another but
nest freely; with `Overlap = TRUE` they interleave. `AsIfAlone` compares what a
call finds with the placement of each word that its content model defines.

### Cycles

Simple types are built depth first (`BuildSimple`, `ResolvePart`,
`CompleteSimple`), and one met again while in progress is circular: it is
reported and stands as xs:anySimpleType. When the shells of the rest are there
(`ShellsBuilt`), schema by schema come `checkTypeCycles` (climb, report, reset
the base) and `checkGroupCycles` (depth first with marks per schema, severing the
references that lead back), and at the end `checkSubstitutionCycles`. Components
of a range are taken in any order, as Go takes the keys of a map.

### Derivation, DerivationRules

A schema grows one component per step, what it refers to first. The query
functions are operators on it: `DerivationOK`, `SubstitutableFor`,
`substChain`, the builder's `validlySubstitutable`,
`validlyDerivedByRestriction`, `derivationMethods`,
`checkSubstitutionGroupExclusions`, and the name sets of the static checks.
`DerivationRules` states Type Derivation OK and Substitution Group OK as the
Recommendation does, and the properties compare the queries with them and with
one another.

### Facets, SimpleTypes

`Facets` is `MergeFacets`, `CheckFacetRestriction`, `ValidateFacetSet`,
`ParseValue` over any partially ordered value space. `SimpleTypes` has a forest
of types (`made`) with declared facets, whose pattern groups are slices of
`arrays` that several types may hold: Go's `append` writes in place where the
array has room and moves to a new one where it has not (`AppendInPlace`,
`AppendMoving`), and what a type has is what is in its cells now (`types`).
`ParseRestriction` is the parser's `applyRestriction`, `RestrictWith`,
`AddEnumeration` and `AddPattern` are `xsdedit`'s calls with exactly the checks
they make; `RestrictWithTaken` is the call by a program that passes on the
pattern groups it read off another type.

### Temporal, CharClasses

Two libraries of pure functions that the facets rest on. `Temporal`: day numbers
and their inverse by eras of 400 years, the end-of-day carry, the timeline, the
comparison of two dates or times of which one, both or none has a timezone,
addition of a duration (the day pinned to the month, seconds wrapped at 64
bits), and the comparison of durations by four reference dates. `CharClasses`:
sorted lists of disjoint ranges with union, complement and subtraction; the
parser of a class expression; and how a count above Go's limit is taken apart.
Both are evaluated against plain definitions (a calendar counted day by day,
sets of characters, the language of the count) by named formulas in
`MCSimpleTypes`.

### Structure, JSONInstance

Two passes that stand before the runs they feed. `Structure` is the check each
schema document passes when first read: the table of grammars and child
entries, the matcher `advance`/`accept` that keeps a set of positions, the rules
on children, conditional inclusion, and the walk. `MCRegistration` evaluates it
against the language of each grammar. `JSONInstance` turns a JSON value into
elements and attributes by the names the walker finds in a type's content;
`MCAssess` evaluates that a document written as JSON is read back as itself.

### XPathParse, XPathWriting, XPathValues, XPathEval, Assertions, AssertionRules

`XPathParse` is the recursive descent of `parse.go` from tokens to trees, level
by level, with its two-token looks ahead; `XPathWriting` writes a tree by the
levels of XPath's grammar, in a long and a short style, and is the reference for
`ReadAsWritten`. `XPathValues` has items, atomization, the effective Boolean
value and comparisons, and the tree of an instance with its axes,
`XPathEval` the evaluator: a value or one of two ways of failing, a dynamic
error or "unsupported", which is what "fails open" depends on.

`Assertions` is what uses it: `SchemaRead` checks the tests of a type table,
`TryAlternative` and `NoAlternative` choose the governing type, `CheckContent`
checks a value against the assertions of its simple type, item by item through
lists and unions, `CheckAssertion` those of the complex type. `AssertionRules`
gives tests a meaning of their own, by sets of nodes and document order, and
compares verdicts, tables and values with it.

## Runs

Passing runs take between 20 and 170 seconds on four cores. Bounds are in the MC
modules, next to a comment.

| Run | Properties | Bounds |
|---|---|---|
| `MCAssess` | TypeOK, IntervalNesting, ScopeIsSubtree, IdentityExact; Implements | all ordered trees of four elements; families of labellings |
| `MCAssess_crash` | NeverPanics (violated) | a bare type with simple content and element children |
| `MCRegistration` | ReadOnce, LoadedExactly, FaultsReported, OrderIsDocs, OpenOnce, NoComponentLost, ReplacementsInOrder | three documents, two namespaces and none, two names |
| `MCRegistration_mutual` | NoComponentLost (violated) | two documents that override each other |
| `MCTypeAttributes` | AsMapped, DerivationKept; AllFinished | three types, two groups, three names in three namespaces |
| `MCContentTypes` | MatchExact, AmbiguityExact, ConsistencyExact, ViolationsAreReal, AcceptedRestricts, OpenContentExact, ExtensionKeepsContent, EmptiableExact | thirteen families; words of up to four children, witnesses of up to five |
| `MCSharedMatcher` | AsIfAlone | two calls, documents of up to seven elements in three levels |
| `MCSharedMatcher_overlap` | AsIfAlone (violated) | the same, overlapping |
| `MCCycles` | BasesEnd, ReportsExact, GroupsEnd, SimpleTypesExact | four types and three groups in two schemas, four elements, four simple types |
| `MCDerivation` | XsiTypeExact, DecidersAgree, SubstitutionRules | three built-in types and three declared, or two and two elements, or three elements |
| `MCSimpleTypes` | Narrowing; EditsContained | three types, two edits, four values of which one is incomparable, arrays with room for one more |
| `MCAssertions` | ReadAsWritten, VerdictExact, TableExact, FailsOpen, ValueOnly, IdentitiesHold | all trees of four elements; expressions two levels deep |

Three runs also evaluate pure algorithms before they start, as named
assumptions over constants, which TLC checks for every input in the bounds:

| Run | Formulas | Over |
|---|---|---|
| `MCRegistration` | MatcherExact, MatcherExactOnTable, TableDeterministic, TableClosed, WalkExact, PrunedAreCounted, OneVersionKept | small grammars and every entry of the table, with short words; trees with version attributes |
| `MCSimpleTypes` | DatesReturn, DurationsAsCalendar, LongDurationsLost; RangeSetsExact, ClassesExact, AcceptedInForm, SubtractionFollows, CountsTakenApart | dates across leap years, centuries and eras; sets over seven characters; repetitions with a limit of three |
| `MCAssess` | JSONReadAsWritten, NothingLost, PrefixesScoped, RootsResolved | small schemas and the documents written for them |

Why these bounds are enough to be interesting:

* *Assessment.* Four elements give every shape of a scope with a descendant and
  a sibling; the families put keys at any subset of them and the keyref at the
  top or at the third, skipped or unassessed elements in the middle of a
  selector's path, selectors of two alternatives that reach the same elements,
  fields of two alternatives that give no, one or two nodes, fields that lead
  below their target into such regions, to elements and attributes with a type
  and without, IDs and IDREFs in either order with duplicates inside one
  element, and every placement of a child under a parent that matches, does not
  match, or is nilled. Values "5" and "5.0" are equal as values and different as
  text.
* *Loading.* Three documents are the least with both a diamond and a cycle of
  length three; a chameleon absorbed into two namespaces needs two absorbing
  documents. Document B may be in the same, another or no namespace; C may also
  be unreachable, malformed or not a schema. Two layers of replacements need all
  three.
* *Attributes.* Three types make a chain and a fork, with one of them optionally
  anonymous inside another, so that a base may come later in the worklist than
  the type, or be discovered inside it. Two attribute groups may refer to each
  other or be mutually circular.
* *Content types.* Each family aims at one check and its opposite: models with
  two levels of groups, occurrences 0..1, 1, 2..2 and unbounded, nullable groups
  under a minimum, all groups in all groups, open content of both modes,
  substitution and `##definedSibling` for the matcher; leaves that may compete
  on either side of a repetition; one name declared twice, directly, in a group
  referred to, by substitution or by a wildcard; extensions of simple, empty,
  all and open content; restrictions of sequences and all groups with one
  wildcard and with two, of choices, of open content, and redefined groups. A
  word of four children is longer than any mandatory part, and a difference
  between two models of these sizes shows within five.
* *Cycles.* Cycles of one to four types, also across two schemas, with tails
  leading into them; a group reached twice, before and after its references are
  severed; simple types reached first from inside and from outside a cycle, by
  restriction, list and union.
* *Derivation.* Two steps of derivation with different methods and blocks,
  unions of unions, lists; an element chain of three for blocks in between.
* *Facets.* A chain of two restrictions, each with a bound or none on either
  side, inclusive against exclusive at the same value, and one bound that is not
  comparable to the others; or with lengths, enumerations or patterns. Two edits
  are the least with which one type overwrites a pattern of another, and two
  types with an array in common the least that can.
* *XPath.* Every operator under every other, which is where precedence shows;
  every two steps of a path over every tree of four elements, with predicates on
  positions and values; every place where a token may be missing; type tables of
  alternatives whose tests hold, fail or cannot be evaluated, in every order;
  values that are lists and unions, with the element around them varied.
* *Sharing.* Two calls suffice: a third would only overwrite again.

`AllFinished` is a liveness property; `EditsContained` is an action property; `Implements` is a refinement, which includes that the
verdict is reached. That loading ends is left to `OpenOnce`: a counter for each
document would end by itself, so what is stated is what the code's recursion
rests on, that the cache never lets `instance` into a document it is in. Deadlock is
off in every run because every one of these programs returns: a last state has
no successor.

## Fairness

The library is sequential code: once called it runs until it returns, and
nothing else decides whether its next statement is executed. Weak fairness of
the whole next-state relation (`WF_vars(Next)` in `Assess` and
`TypeAttributes`) says just that. No action is given fairness of its own and no
choice between actions is assumed fair: where `Next` offers a choice (the order
of a Go map) any run of choices must satisfy the property. The modules without
liveness properties (`Registration`, `SharedMatcher`, `Cycles`, `Derivation`, `SimpleTypes`,
`ContentTypes`, `Assertions`) have none: their steps follow the structure of a
finite input.

## Proofs

All proofs are for arbitrary values of the constants, subject only to the named
assumptions of the modules: documents are finite trees whose data comes in lists (`DocsAssumption`); the schema
documents are well-typed records (`DocSetsAssumption`); each name has a
namespace (`NamespaceAssumption`) and a nil wildcard is no wildcard; values are
partially ordered, lengths are naturals, an absent facet is neither
(`OrderAssumption`, `LengthAssumption`, `NoneAssumption` of `Facets`), no document
is nil (`NoneAssumption` of `Registration`), and a call of the
editing API hands over facets of the shape the API takes (`EditAssumption`);
components are finite, each in one schema, and refer to components
(`ComponentsAssumption`, `SchemasAssumption`, `DefinitionsAssumption`); where
attributes are merged, references are resolved and no type is its own ancestor
(`SchemasAssumption` of `TypeAttributes`: `checkTypeCycles` has run before
`finishComplexTypes`, and `BasesAlwaysEnd` is proved of it); a content model is a
sequence of declarations of distinct names and an instance a function from nodes
to children (`ModelsAssumption`, `InstancesAssumption`); what is declared of a content
type has particles that leave room for the one level an extension adds, open content
without a wildcard exactly where its mode is none, and children that are names
(`DepthAssumption`, `DeclarationsAssumption`). The names `collectReps` makes up to stand
for the rest of a namespace are no names of a schema: their local part is one no XML name
can have. `GenericAssumption` says that there is one for each namespace looked at and one
for none of them, and `DeclarationsAssumption` that neither particle of a restriction
mentions them (`NamesApart`). TLC evaluates them on
the constants of each run.

**AssessProofs** — `WalkInvariant == Spec => []IInv`, and from it `TypeCorrect`,
`Nesting` (IntervalNesting) and `KeyrefScope` (ScopeIsSubtree): for every
document, of any size and shape, the numeric test
`scope.enter <= table.enter /\ table.leave <= scope.leave` selects exactly the
tables of the keyref's subtree. IntervalNesting speaks of closed elements only
and is not inductive: it says nothing of an element entered and not yet left.
The strengthening speaks about the open ones, which are the ancestors of the
current element: everything entered since an open element was entered lies below
it (`OpenEncloses`), everything entered before a closed element was entered, or
after it was left, does not (`ClosedEncloses`); ancestors are entered no later
and left no earlier than what is below them; children are entered in order, each
once (`VisitedInOrder`), which is what makes `AssessChild` enter a fresh element.

On that rests the refinement. `Judges == Spec => Abstract!Safety`: the walk, its
clock, its tables and its two passes reach the verdict `AssessSpec` states of the
document at once (`VerdictExact`), and pass it in one step; `IdentityHolds` is
IdentityExact. Four invariants, one argument each. *The walk* (`WalkOK`): an
element entered is one the specification assesses, and what stands before the
loop index of an open element is settled, so that below an element that is left
nothing is missing any more (`SubtreeDone`, by induction down the tree) and at the
end visited and skipped are the specification's sets (`WalkDone`). *IDs*
(`IDsOK`): the table holds one bearer of each value harvested so far, and there is
a duplicate error exactly if two bearers of one value have been found, whichever
came first; the harvest's list is brought to the specification's pairs by
`BoundIs` and `AbstractIDs`. *Constraints* (`ConstraintsOK`): a table made on the
way out of an element holds what the specification qualifies there: the paths of
a selector walked set by set reach what a single way leads to (`ReachedIs`, by
induction along its steps), in the turns of alternatives, bases and positions,
which differ for different nodes (`TurnsDiffer`, from `AlternativeIs` and
`BaseIs`), and so do the fields from each target (`FieldsStand`), although skipped regions are marked only during the
walk (`TargetsQualified`: below an element that is left all of them are); the
tuples kept in turn are all of them exactly if they are distinct (`KeptIsAll`;
`KeptExists` by induction over the turns, since equality of fields is not
transitive and which tuples are kept depends on the order); and a keyref finds
its match among the tables in scope exactly if a node of its subtree has it
(`FlushExact`, from KeyrefScope). *Errors* (`CausesOK`): each error stands where
its cause is and each cause has its error.

**SchemaProofs** — *Documents.* Over the specification of `Registration`, whose other steps
leave the loader's variables alone: `LoadInvariant == Spec => []LoadInv`, and
from it `ReadsOnce`, `RegistersOnce`, `LoadsExactly`, `ReportsExactly` and
`RecursionIsBounded` (an activation stands once on the stack, so that there are
never more than documents and namespaces allow). That
the loaded documents are exactly the least set containing the entry points and
closed under composition is two arguments. Nothing else: every closed set holds
every document created (`NothingElse`, quantified over all closed sets, which
spares an induction along paths). Everything: each document created is either
finished or on the stack (`FinishedOrOpen`), and what its handled compositions
lead to has been created (`TargetsCreated`), so that with an empty stack the set
is closed. Three lemmas (`LoadIsComposition`, `CompositionIsLoad`, `ErrorIsFault`)
relate the code's early returns to the composition rules.

Registration after it is right for the same sets of documents. The invariant
(`RegistrationInvariant`) has two halves. *What loading leaves behind*
(`LinkInv`): targets are loaded documents of their composer's namespace, which is
why names alone can say what is suppressed, and each replacement's target is one
of its owner's; as `Return` records what its caller was at, this needs that every
activation on the stack was opened by the composition its caller is at (`OpenOK`).
*What `register` has done so far* (`RegInv`): exactly the names of the
replacements handled are suppressed where those reach (`SuppressedOK`), whatever
is registered comes from a document or a replacement handled that still lets it
stand (`RegistryOK`), and all that stands is registered. A replacement that stands is
outside none and none is outside it (`StandingIsOutermost`), and a document whose
declaration stands is reached by none (`StandingIsUntouched`); hence
`ReplacementsAlwaysInOrder` (ReplacementsInOrder), without any further condition.
NoComponentLost is false without one, as `MCRegistration_mutual` shows.
`NestedReplacementsLoseNothing` finds the condition: as long as among any
replacements of a component one is applied to the result of no other (`Nested`),
every component declared in a loaded document is registered, through cycles of
includes too. The outermost replacement from which the declaration can be reached
stands, and `findOriginal`, whose search is a function because a tail call is
(`TailRecursion`), finds the declaration it replaces: a search that finds nothing
has seen all that its start leads to (`SearchIsComplete`, by induction over the
documents unseen and then the documents pending).

*Types.* The derivation queries, for schemas of any number of types
and elements. The invariant of the declarations (`SchemaInvariant`) is what the
builder leaves: bases, members and heads come first, a simple type has the variety
and the members of its base, and an element that was not reported is excluded by
none of its heads. The rest is about one schema. Every query and every definition
of `DerivationRules` is a recursive function; each is shown to exist and unfolded
one step (`UnionMemberUnfolds`, `MembershipUnfolds`, `SimpleDerivedUnfolds`,
`DerivedUnfolds`, `ChainUnfolds`, ...). `XsiTypeAlwaysExact` (XsiTypeExact): where
restriction is allowed a simple type is validly derived from its ancestors and from
what its ancestors are members of (`SimpleDerivedFrom`, by induction along the
chain), where it is blocked from itself alone; a complex type adds its own step to
that of its base on either side (`ExactOnTypes`). `DecidersAlwaysAgree`
(DecidersAgree): what counts as derived from a member of a union, at any depth,
counts as derived from the union (`MemberCounts`). `SubstitutionAlwaysRuled`
(SubstitutionRules): chains of heads are compared head by head (`ChecksCover`); over
one link the exclusions the matcher adds to the blocks of the Recommendation are
those that were reported, and what descends from a union is no member of it
(`BelowUnionNoMember`), so that the search through its members adds nothing.

**SharedMatcherProofs** — `CallsAsIfAlone`: without overlap,
`Spec => []AsIfAlone`, for every instance and every content model of distinct
names. `AsIfAlone` alone is not inductive: it says nothing of a search half
done or of a slice still being read. The invariant has a part for each. *The
search* (`PrefixOK`): the children taken so far are placed on the particles
passed so far, and no placement of the whole word gives a later child to an
earlier particle, so that a search that is stuck proves there is none
(`PrefixStuck`) and one that ends has found the only one (`PrefixEnds`,
`OnePlacement`). *The slices* (`FramesOK`): what `Match` returned to each element
on the stack is its placement; a search writes only the newest slice, which no
such element holds. *The results* (`ResultsOK`): everything found is due, and
what is due below an element is found or the element is still on the stack. Of
all that only the frames of one caller are alive at a time (`OneAtATime`), which
is what overlapping calls break.

**AttributeProofs** — first wildcards, for any names and namespaces:
`SubsetSound` (what a subset admits the other admits too, in every context),
`IntersectExact`, `UnionExact` (exact as long as no context is consulted; the
keywords of the two are kept only when both have them) and `UnionKeepsBoth`. On
them rest the two properties of the builder, for any types and groups and any
order of the worklist: `AttributesAsMapped` (AsMapped) and `DerivationHolds`
(DerivationKept). They speak of the end only; the invariant that carries them
there has three parts. *The traversal* (`Shape`): below the activation of a type
are types that wait for it as their base (`Chain`), so that a base that is marked
is finished, not in progress, when a content is filled (`BaseFinished`: otherwise
the waiting types would be a cycle of bases), and a type is merged only with a base
whose result is final. *What is collected* (`CollectedOK`): the uses and the
wildcard gathered so far are what the children passed give, a group among them
with all it refers to (`WholeByChildren`, from the least closed set that
`GroupsOf` is); after a circular reference that no longer holds, which is why the
property asks for none. *The results* (`ResultsOK`): once merged, a type has its
own uses and its base's, all but the hidden ones (`Merging`), which needs that the
base has no name twice, as a sound line guarantees; once the default attributes
are there it has what the mapping rules give it (`Finishing`): the rules hide an
inherited name that the default group declares, the code reports it as declared
twice. The mapping rules are recursive functions along the bases; that they exist
and satisfy their equations is `AlongBases`.

**BuilderProofs** — the components the builder leaves. *Simple types.* `RestrictionNarrows`: over any partially ordered value space, a
restriction step that passes `CheckFacetRestriction` and whose enumeration
values the base accepts, accepts no value its base refuses. It rests on
`MergedRange` (each of the four bounds of the base against what is declared on
its side: an inclusive bound, an exclusive one, none) and `MergedLength`. Over
the machine that derives and edits types, `TypesStayChecked == Spec =>
[]CheckedTypes` is the invariant: bases come first, and the limits a type declares
pass the check against the effective facets of its base. It is inductive because
the editing API appends enumeration values and patterns only, which the check of
limits does not read, and it says of the arrays that each slice lies within one
(`Stored`). From it
`NarrowingHolds` (Narrowing): by induction along the chain (`AlongTheChain`) the
effective facets of a type are within those of its base. `EditsAreContained`
(EditsContained) relates the effective facets of every type before and after an
edit (`Edited`), which survives each merge on the way down, for all types none of
whose bases has lost a pattern to an append in place (`Overwritten`): an append
that overwrites no cell of a slice leaves what its type has.

Dates, times and durations are such a value space, for every year and not only
those a run visits. `NextDay`: the day after 24:00 is the next
day number and again a date, by the lengths of months and the step of
`DaysBeforeYear` at a leap year. That `CivilFromDays` inverts `DayNumber` goes by
eras. `DatesOrdered`: comparison is irreflexive and transitive although values
with and without a timezone mix, because a value without one is compared as two,
fourteen hours apart either way. `DurationsOrdered`: the same of durations, whose
four reference dates move monotonically with the months and seconds added
(`InReach` keeps them within 64 bits, beyond which the code wraps:
`LongDurationsLost`).

*Circular definitions*, for any number of schemas, types, groups and elements, visited
in any order. `BasesAlwaysEnd`: a step that resets a base takes a pair out of the
relation, so what ends goes on ending; a type checked ends because the climb that
checked it reached xs:anyType, or met a type again and broke the cycle there
(`TypesOK`); simple types because the parts of a type built are themselves built
before it, and a part still being built is replaced (`SimpleOK`). `GroupsAlwaysEnd`: the same of a search with marks,
which needs the stack to be a path (`StackOK`), a group off the stack to end
(`GroupsOK`), and every reference a frame has passed to lead to a group that ends
or to be severed (`SeveredOK`). `ReportsAlwaysExact`: at the end each cycle has one
report and one reset base, and each element that is its own head one report.
The invariant relates the bases as they are to the bases as declared: they differ
exactly at the types reported, a type reported was on a cycle, and no two of them
on the same one (`BrokenOK`); a cycle still whole cannot end (`WholeCycle`), so
that at the end each has its report (`OneOfEachCycle`), and a climb that finds a
cycle has found a whole one. `SimpleTypesAlwaysExact` (SimpleTypesExact): the
cycles of simple types are found by the marks of the types being built, so what is
reported, and what is cut out of which type, depends on where building began. Two
invariants hold whatever that was. `SourcesOK`: the types on the stack follow the
documents, a type reported when it is met again on the stack is on a cycle
(`CycleLosesOne`), and once the types reported are taken away nothing built is
on one; at the end each cycle therefore has its report (`CyclesReported`).
`AsDeclaredOK`: what is built and reaches no cycle has the variety, base, item and
members that its declared sources give, and is refused exactly when it declares
what `cos-st-restricts` forbids. The items of a list are seen through the unions
and restrictions between by `BasicMembers`, a recursion over what is built: that it
has a value at all is `MembersFlatten`, and that it sees a list exactly where the
documents have one is `ListsSeen`, by induction over the parts that end.

**ContentProofs** — the matcher and the open content of a type, for any
declarations, any names and words of any length. `MatchIsExact`: for every content
model, every open content and every sequence of children, the matcher accepts
exactly if some of the children can be left to the open content such that the
others are a word of the model, and what it returns then names for each child
the particle that took it on one such run; a model without declared competition has
one. The matcher searches depth first, with continuations, and gives up a repetition
that consumes nothing; the language it is measured against is defined particle by
particle. They are brought together in three steps.
*Per particle* (`ParticlesAgree`, by `ParticleInduction` over nesting): the
positions the matcher hands on from a position are those a run of the particle
leads to (`Agree`), each with that run's attributions. The step from a term
to its occurrences is an induction on the number of repetitions in which empty
rounds are dropped; sequences and choices are inductions on their
members; for an all group, where the code takes children in the order they come
and flattens nested groups first, it is an induction over the children
(`FlattenAllFacts`: what is flattened has the same words).
*Open content*: which children are left out is a subset, and the rest is numbered
anew (`NumberingFacts`); an interleaved wildcard may take a child anywhere, a suffix
only behind the last child of the model (`ModelRunsUnfold`, `FoundIsRun`, `RunIsMet`).
*The first accepted* (`MatchUnfold`): the code stops at the first outcome `finish`
accepts, so that it accepts none only if there is none (`MatchRejects`).
`MatchesExactly` states it of the content types the machine builds: an invariant on
the types declared, built, redefined and extended (`Typed`) says that what they hold is
a content model the matcher is defined for. That needs what building does to a
particle: putting together a sequence keeps the particles within their bounds
(`ExtendedFacts`, `ShallowFacts`), the union of two open contents is a wildcard again
(`UnionIsWildcard`), expanding groups and making members optional keep counts in
order (`UnfoldedFacts`, `MadeOptional`). One case is excluded in the property itself,
and the proof brought it to light: an extension that merges two all groups, each a
reference with minOccurs above 1, gets a particle whose min is above its max. Nothing
in the code refuses such references (clause 1.2 of cos-all-limited is checked of
group definitions only) and what the matcher does with such a particle is
not stated.
`EmptiableIfAccepted` measures one of the static tests against the matcher:
`particleEmptiable`, a recursion over minima and members, says exactly if the
language of a model contains the empty sequence (`ParticleEmpties`, by induction
over nesting, after what expanding substitution groups and flattening all groups
do to the test, `ExpandedEmpties`, `AllMemberEmpties`), and `EmptiableExactly`
that a complex type with simple content is reported for its base on that ground
alone. Two shapes are excluded by `WellGrouped` because there test and
matcher part: a choice without members, which by 3.8.6.5 can be empty and which
the matcher never matches, and a group of another kind inside an all group,
which the matcher does not look into and which the builder reports elsewhere.

`ExtensionIsWider` and `ExtensionKeeps` are about the parts an extension is put
together from (`ExtensionKeepsContent`): of what nothing was reported, and to which only
content that can be left out is added, everything the base accepts is accepted. The
matcher of the base and that of the extension hold different particles, so it is shown
first that the runs of the base's particle are the same in both (`SameRunsOf`): they
depend on the rest of the model only through `##definedSibling`, which is why a base
that uses it is excluded; there the property fails rightly, since what is added
stops the wildcard of the base. Then by the way the particle is built
(`ExtendedParticle`). In a sequence the second member runs over no children
(`ParticleEmpties` again). Of two all groups one is made whose members are those of
both (`MergedShape`), so that a child that is free for the base is free for the
extension, and the members added need nothing (`AllNoneNeeded`, `AllKeeps`); the merged group
occurs once, and so a base that occurs more than once is excluded. Open content is
the union of both wildcards (`UnionAdmits`) in a mode not narrower than the base's
(`OpenKept`), which is what the check reports otherwise. The invariant `ExtensionBuilt`
says that the type checked and matched is built that way from the base and the declaration.

**RestrictionProofs** — `RestrictionIsNarrower` and `RestrictionSound`: when the relation
between the particle of a restriction and that of its base (`slotRun` with at most one
wildcard in the base, `regionRun` with more) decides and reports nothing, all children
the restriction accepts are accepted by the base, the order aside, which that relation
does not look at (AcceptedRestricts). This is about sums of ranges on one side and words
on the other, and goes in five steps.
*What a run is given*: a word of a particle, a sequence or an all group gives each of its
members some of the children, as many as its range allows, and each child to a member
that takes it (`Placed`, shown part by part: `JoinedPlaced`, `TimesRunsPlaced`,
`SeqPlaced`, `AllGroupPlaced`; ranges of nested particles multiply, `MulOccWithin`).
Of a choice that is one of the runs the relation looks at (`RestrictionPlaced`).
*Sums*: if each of some members is given a number within its range, what they are given
together is within the sum of the ranges (`SumBounds`, by induction over the members, with
unbounded as the top element).
*Each child has a base particle to go to*: with slots, that of its own name, otherwise
the wildcard (`SlotWanted`); with regions a child that is named nowhere is regarded as
the representative of its namespace (`StandIn`), which is admitted wherever the child is
(`StandInAdmitted`), and the region of that name is where it goes (`RegionWanted`). What
was not reported then says that each base particle gets a number within its range
(`SlotInRange`, `RegionInRange`).
*A base given as many as its ranges allow takes them*: sorted by the particles they go to
the children are a word of a base sequence (`SequenceSorted`, `SortedReorders`), and in any
order one of a base all group (`FlatAccepts`).
*The machine*: the invariant `RestrictionBuilt` says that the type checked and matched has
the declared particle and that what the relation finds is among what is reported.

The property has the condition `NamesKept`, and the proof attempt is why: the slots
go by the names substitution groups give a declaration. A base with a local element
`b`, restricted by a reference to the global head `b`, is not reported, and accepts the
members of its group, which the base does not; the same happens where the base's
declaration is abstract or blocks substitution, and where an element that only the
wildcard admits has members that it does not admit. `NamesKept` says that whatever
comes under such a name is taken by the base's declaration of it.

**Induction** — what an induction needs that the library states with an operator
as a parameter, stated with sets instead: induction on the naturals over a set
(`InductionOnNat`), iteration of a relation along natural numbers, and the
well-founded part of a relation (`Ends`): the least set that holds everything all
of whose successors it holds. An element `Ends` when every path from it does, and
is not below itself (`EndsNotBelowItself`); removing pairs of the relation never
takes an element out (`EndsWithFewer`). On a finite set being below another element
is a walk of bounded length, because walks can be shortened (`ShortWalk`), so that
a search of that many rounds finds it (`WalkSpreads`). `TailRecursion`: a function
whose last act is to call itself exists whether or not the calls end. And a
function that collects what is said of a thing and of all its parts
(`PartsCollected`), or asks whether anything holds of one of them
(`PartsSearched`), exists too: it is a union, or an existence, over what is below.
Where things have a rank, a natural number that is less for each part,
`RankedInduction` and `RankedRecursion` give induction and recursive functions.

Model-checked only: the liveness properties, `AllFinished` and that the verdict of
`Implements` is reached; the XPath modules, which declare
RECURSIVE operators, as this prover accepts none; and, of what the static checks of
content models promise of the words the matcher sees, the position automaton and the
consistency test, whose references count over paths and words (`AmbiguityExact`,
`ConsistencyExact`), and the two properties whose witnesses are looked for among words
of bounded length (`ViolationsAreReal`, `OpenContentExact`): of those the bound is part
of the statement.

## Where code and text disagree

Three runs end in a violation, each of a sentence the repository states itself.

* `MCAssess_crash`, `NeverPanics`. `assess.go:295` names `decl` in an error while
  an element governed by a bare type (a locally typed lax child, or a root typed
  by `xsi:type`) has none; `fuzz_test.go:111` promises no panic anywhere in the
  parse/assess pipeline.
* `MCRegistration_mutual`, `NoComponentLost`. Two documents that override one
  component in each other suppress both replacements (`loader.go:328`), the case
  the comment at `loader.go:257` sets out to prevent. That only such replacements
  lose a component is proved (`NestedReplacementsLoseNothing`).
* `MCSharedMatcher_overlap`, `AsIfAlone`. `validator.go:17` calls a Validator
  concurrency-safe; all calls share the fields of one matcher.

The following were met while translating the code. The models do what the code
does; the properties above are stated so as not to contradict it, with the
exception named in the property's comment. Two rows are of code that no module
models yet, read beside what is modelled: `builder.go:170` and `regex.go:786`.

| Code | Text it departs from | What the code does |
|---|---|---|
| `assess.go:346` | the comment there: "Still recurse into children we can place" | returns after a content mismatch; no child is assessed |
| `loader.go:328` | `xmlschema11-1.md:7295` | a redefinition of a redefinition is treated as an override of one: the inner one is dropped |
| `buildcomplex.go:440` | `xmlschema11-1.md:3440` | default attributes are added to a type that has inherited them, then reported as duplicates |
| `buildcomplex.go:441` | comment at `buildcomplex.go:437` | the default group's wildcard is ignored when the type has one and comes after the union with the base |
| `buildcomplex.go:249` | `xmlschema11-1.md:3004` | a simpleContent restriction inherits the wildcard it should drop |
| `buildterms.go:456` | `xmlschema11-1.md:3858` | circular attribute groups are an error and left incomplete |
| `parser/wildcard.go:99` | `xmlschema11-1.md:3881` | a group's stronger process contents replaces the local one |
| `automaton.go:157` | comment at `automaton.go:89` | interleaved open content may take a child the model could still match |
| `automaton.go:169` | comment at `upa.go:12` | a wildcard that comes first takes the child the element would |
| `buildschema.go:302` | comments at `automaton.go:197`, `buildschema.go:257` | members of nested all groups are not compared with those beside them |
| `upa.go:76` | `xmlschema11-1.md:4402` | counts are forgotten: a legal model with minOccurs = maxOccurs = 2 is reported |
| `buildschema.go:343` | comment at `buildschema.go:336` | a wildcard with an empty namespace list is said to overlap ##any |
| `buildschema.go:683` | `CONVENTIONS.md:20` | which type of a cycle is reported and reset depends on map order |
| `query.go:41` | `xmlschema11-1.md:6572` | a blocked restriction does not stop lists, unions and members of a union |
| `query.go:99` | `xmlschema11-1.md:6581` | a member that is itself a union is passed through, not accepted |
| `restrict.go:683` | comment at `restrict.go:658` | reports an alternative whose type is a union member that is a union |
| `buildterms.go:213` | `xmlschema11-1.md:2408` | a member of the head's union type is reported as not derived |
| `query.go:182` | `xmlschema11-1.md:2441` | each link is tested against its own head's block only |
| `query.go:173` | `xmlschema11-1.md:2441` | an element in between blocks substitution the head allows |
| `builder.go:170` | comment at `loader.go:9` | built types are memoised by node, and a document absorbed into two namespaces is one tree: the second instance gets the types of the first |
| `edit.go:28`, `:122` | comment at `edit.go:4` | enumeration values are not parsed with the base; a later edit of the base is not checked against derived types |
| `edit.go:147` | comments at `xsd/facets.go:218`, `edit.go:6` | appends in place to an array that `RestrictWith` (`edit.go:40`) lets types share: a second type's pattern is overwritten, and it accepts what it refused; EditsContained excepts such types |
| `xsdregex/regex.go:786` | comment at `validator.go:17` | an unlocked package-level cache, reached from assertions |
| `xsdtemporal/datetime.go:530` | comment at `datetime.go:495`: "the day/time part is added exactly" | seconds are taken by Int64: a duration of more than 2^63 seconds wraps and compares wrongly |
| `parser/validate.go:60` | comment at `validate.go:72`: "pruned children are invisible" | rules of `elemtable.go` that count children run before pruning and count pruned ones |
| `xsdregex/regex.go:262`, `:292` | comment at `regex.go:245` | counts of 2000 and more, ranges wider than 1000 and nested counts above 1000 do not compile |
| `xsdregex/regex.go:503` | comment at `regex.go:501` | a class may begin with a subtraction if what it subtracts is empty |
| `jsonsrc/decode.go:64` | comment at `decode.go:62`: "Reject trailing content" | `{"r":1}]` is accepted |
| `xpath/eval.go:662`, `:868` | `fuzz_test.go:111` | a test of an alternative that reaches the root node beside inherited attributes panics: the node is a map key that cannot be hashed |
| `xpath/eval.go:707` | the same | `mod` by a number between -1 and 1 panics |
| `xpath/eval.go:1163` | comment at `eval.go:9`: never reject for what is not understood | a call with a prefix and one argument, `fn:not(...)` included, is taken for a cast, fails, and rejects the instance |
| `assess.go:781` | comment at `assert.go:56`: "$value is bound to that content's typed value sequence" | `$value` of an empty list is unbound, so that the assertion counts as satisfied |
| `parser/subsumption.go:212` | comment at `subsumption.go:206` | a base wildcard that overlaps a named element of the run makes valid restrictions fail |
| `parser/subsumption.go:243` | `xmlschema11-1.md:3549` | an element is mapped by its own name alone: a reference to a head restricts a local element, an abstract or a blocking one of that name, and admits members the base refuses |
| `parser/subsumption.go:437` | comment at `subsumption.go:432` | names that `##defined` or `##definedSibling` exclude count as rerouted |
| `parser/restrict.go:450`, `:469` | comments at `restrict.go:445`, `:467` | a group referred to counts as empty and as without a wildcard |

## What is not modelled

Left out inside the components above: error texts and positions everywhere;
alternatives, assertions and attribute values of an element are one Boolean in
`Assess` (`Assertions` models how the first two are decided); identity-constraint
names in `Registration`; particles and value constraints in `TypeAttributes`;
whitespace, digits, scale, explicitTimezone and `{fixed}`, and the facets of
lists and unions, in `Facets`; `{final}`, notations and the memo by node in the
builder of simple types; the tables of attributes and the checks of their
values in the structural check; the lexer of XPath; the lexical forms of dates;
the translation of branches, pieces and category escapes of regular expressions;
warnings and token positions of JSON; `NewPrimitive`, `AddElement` and
`Validate` of the editing API.

Components left out:

| Component | Why |
|---|---|
| value spaces, Go types (`builtin`, `xsd/value.go`) | parsing of literals and big-number arithmetic |
| XML reader (`xmltree`) | text processing, one pass |
| bundled schemas, instance hints | static text and a scan of attributes |
| component model, errors, clause table | plain data |
| command line, documentation tool | no state |

## Plan

1. **Model.** The memo of `builder.go` by node, and what it makes of a document
   read into two namespaces; the digit, scale and whitespace facets; the tables
   of attributes.
2. **Compose.** `SharedMatcher` over the search of `ContentMatch`; assessment
   over schemas that `Derivation` accepts.
3. **Prove.** See "Model-checked only" under "Proofs".
