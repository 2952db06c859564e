# A TLA+ verification of mtype

`mtype` is a type checker for MATLAB.  It loads the files that its command line
names and every file that those name in turn: it scans and parses them, tells
variables from functions, resolves the type annotations in their comments,
generates type equations, and unifies.  Unification discovers calls of functions
in further files, which are loaded the same way.

The program has one thread.  What makes it hard is not concurrency but state
that outlives the step that made it.  The AstStore, the type library, the
pending external functions and the unifier survive a visit of a file, also one
that failed half way, and later visits pick up what they left.  The parser goes
on after an error from inside any number of scopes.  Types are rewritten in
place while equations, bindings and the library share them.  And the order in
which much of this happens is that of a hash table.

## The system

| part | state | operations | called by |
| --- | --- | --- | --- |
| driver: `main`, `App` (bin/mtype/main.cpp, app.cpp) | the iterator over the candidates; the errors; flags of the visit | `locate_root_identifiers`, `visit_file` and its stages, `unify_while_able`, `check_for_concrete_function_types` | |
| parse pipeline (parse_pipeline.cpp, pre_imports.cpp) | root files of the visit, scan results | `file_entry`, recursive, with loops over superclasses, external methods, pre-imports and imports | driver |
| AST store (ast_store.cpp) | an entry for each file, with the flags of its stages | lookup, emplace, remove | driver, pipeline, resolution |
| scanner (scan/scan.cpp, token_manipulation.cpp) | depths of comments, annotations and parentheses; keyword counts | `scan`, insertion of delimiters | pipeline |
| AST generator (parse/ast_gen.cpp) | token iterator, stacks of scopes, classes, namespaces and exports, block depths | one method per grammar rule | pipeline |
| identifier classifier (parse/identifier_classification.cpp) | scopes with the contexts in which each variable was assigned | one visitor method per AST node | pipeline |
| type scopes and imports (type_scope.cpp, type_import_resolution.cpp) | types, exports and imports of each scope | `add_import`, `emplace_type`, `lookup_type`, `maybe_resolve_type_imports` | AST generator, pipeline, driver |
| type identifier resolution (type_identifier_resolution.cpp) | scheme variables, collectors, pending schemes | one visitor method per AST node | driver |
| constraint generator (type_constraint_gen.cpp) | stacks of scopes, terms and flags | one visitor method per AST node | driver |
| unifier (type/unification.cpp, substitution, subscripts, instance) | the equations, bound terms, looked-up functions | `unify`, `check_application`, `check_abstraction`, `resolve_function`, `apply_to` | driver |
| external functions (pending_external_functions.cpp, external_resolution.cpp) | visited and resolved candidates, functions pending on candidates | add visited, add pending, add resolved; one pass of resolution | unifier, driver |
| type relations, simplification (type_relation.cpp, type_relationships.cpp, simplify.cpp, member visitors) | none | `related`, `simplify` | unifier, library |
| library (type/library.cpp) | local and declared function types, classes, methods, the base scope | search of functions and methods, registration, subtyping of classes | unifier, resolution |
| definition store, traversal (store.cpp, definitions.cpp, traversal.cpp) | definitions by handle; stacks of scopes and classes | make, read, write | all |
| search path (search_path.cpp, fs/) | candidates by name, private and class directories | build, search | pipeline, library |
| the rest | tokens, strings, display, command line | | |

A visit calls down this list: the driver calls `file_entry`, which calls the
scanner, the AST generator and the classifier for each file; then the driver
resolves imports and identifiers, generates constraints and calls the unifier,
which searches the library and calls back into the external functions; these are
where the driver finds the next files.

What makes each part correct, and what can go wrong, is listed in PROJECT.json
("hazards"), each at its line with the properties that would notice.

## The modules

Module names follow the code's where there is one.  The models keep the control
of the code, every early return and error path included, and reduce data to what
the properties tell apart.

| part of the code | model | properties | instances | theorems |
| --- | --- | --- | --- | --- |
| loading, visiting, external functions | `SourceFiles`, `ParsePipeline`, `ExternalFunctions`, `App`; abstractly `Worklist` | `AppProperties` | `MCApp` | `App_proofs`, `AppSound_proofs` |
| type scopes and imports | `TypeScopes` | `TypeScopesProperties` | `MCTypeScopes` | `TypeScopes_proofs`, `TypeScopesGraph_proofs` |
| scanner | `KeywordCounts`, `Scanner` | `ScannerProperties` | `MCScanner` | `Scanner_proofs`, `ScannerComments_proofs` |
| parser | `AstState`, `AstExpressions`, `AstTypes`, `AstStatements`, `AstGenerator` | `AstProperties` | `MCAstGenerator` | `AstGenerator_proofs` |
| classifier | `IdentifierClassifier` | `IdentifierClassifierProperties` | `MCIdentifierClassifier` | `IdentifierClassifier_proofs` |
| types and their relations | `TypeTerms`, `TypeRelations`, `Library`, `TypeStore` | `TypeRelationsProperties` | `MCTypeRelations` | |
| resolution, constraints, unification | `Simplifier`, `Unifier`, `Programs`, `ConstraintGenerator`, `TypeResolver`, `Inference` | `InferenceProperties` | `MCInference` | |

Definitions whose comments begin with "Mutant" are variants of the definition
that follows them, each with a plausible mistake.  No specification uses them;
they are there to show that the properties depend on the code being as it is.

### The core: loading, visiting, external functions

* `SourceFiles`: what never changes.  A *world* is a program that mtype is run
  on: for each file whether it scans and parses and what it names, and for each
  application of a function which candidate the search finds for it.
* `ParsePipeline`: `file_entry`.  The recursion of the C++ code is the variable
  `stack`, with the file, the loop and the position of each call; an action is
  one iteration of one loop.  `store` is the AstStore with the flags of its
  entries, `rootFiles` the root set of the visit.
* `ExternalFunctions`: `PendingExternalFunctions`, `resolve_external_functions`
  (one action, a pass over the keys), and `CheckFunction`, which is what the
  unifier's `check_application` and `check_abstraction` do with the result of
  the function search.
* `App`: `main` and `visit_file`.  `phase` is the program counter.  The choice
  of the next candidate in `visited_candidates` is free, as its order is that of
  a hash table; an insertion while `main` iterates makes `iterValid` false.
* `Worklist`: the abstract specification: known files, tried files, and no end
  before all known files are tried.

Abstracted are the contents of files (a world says what the parse leaves
behind), errors (`reported` says that there was one), and the types: a call's
argument types are concrete when the calls it `needs` have been given types.
Type errors change neither what is visited nor what is pending.

### Type scopes and imports

`TypeScopes` is `add_import`, the recursion of `maybe_resolve_type_imports` (its
calls are the variable `stack`; one action is one import, one copied identifier
or one child) and `lookup_type`.  A reference to a type is the scope that
declares it, which is what the code compares.  The loops over hash tables take
their elements in any order.  The scopes, their declarations and the sequence of
imports are the constant `Programs`: what the parser leaves behind.  The scopes
are shared by the visits of several roots.  `TypeScopesProperties` defines the
import graph from the declarations alone (`Seen` is the least set of files that
is closed under imports for export), and what resolution and lookup should yield
by it.  In the core, all this is one stage of a visit (`App!ResolveTypeImports`)
with the outcome that this module computes.

### The scanner

A text is a sequence of units, each a character or a word.  `Scanner` has one
action for each branch of the loop in `scan`, chosen by the characters ahead in
the order of the code; `depth` and the three counters of comments and
annotations are the scanner's own, and may become negative where the code's do.
`KeywordCounts` is the automaton that decides whether an `end` belongs to a
keyword, and whether the functions of the file are terminated.  Insertion of
commas is one more step, over all tokens, as in token_manipulation.cpp.  The properties are stated over the lines of the
text, without the counters.

### The parser

The recursive descent is a machine.  The record `gen` is an AstGenerator and its
ParseInstance; `gen.todo` is the C++ call stack, as a list of what the methods
under way still have to do, that of the innermost first.  `ApplyItem` does one
item: a method is replaced by what it does for the tokens ahead, a token is
consumed, an effect is applied.  The helpers with destructors (scope, block
depth, export, namespace, class) are "leave" items, which are run when they are
reached and also when a failing method returns through them.  The loops that
recover from errors are `Catch` items: a failure drops everything down to the
nearest one, running the "leave" items on its way.  `AstExpressions`, `AstTypes`
and `AstStatements` hold the grammar rules, each a list of items; `AstGenerator`
ties them into `Next`.  The constant `Files` is the set of token lists that may
be parsed, each with whether its functions have an end, its package and the
method to start from.  Nodes are kept only where a property looks at them
(expressions, definitions).

### The classifier

The syntax tree is made up while it is walked: a step of `IdentifierClassifier`
is the visit of any node that the program may have there, so that every program
within a bound is a behaviour.  `scopes` and `frames` are the classifier's
scopes, with their contexts, and the constructs that are open.  Each scope also
keeps what its paths have truly done: `sure` is what every path has assigned,
`assigned` what the program assigns to, whether or not the classifier refuses
it, and `called` what it calls.  It is history that no action reads, which the
properties compare the classification with.

### Types and their relations

A type is a node of a heap, `TypeTerms`, and refers to others by their place in
it, so that sharing and rewriting in place are as in the code.  `TypeRelations`
is `related` in both directions, with the visitor of destructured tuples and
that of unions.  `TypeStore` makes types one at a time out of those the
`Library` knows, so that a state is a small set of types, and the properties
speak of the pairs that the last one adds.

### From declarations to types

`Programs` is the tree that the parser leaves.  `TypeResolver` gives names and
annotations their types and instantiates schemes; `ConstraintGenerator` walks
the statements and makes equations; `Simplifier` and `Unifier` are what is done
with one equation.  `Inference` composes them as app.cpp does: visit a file,
resolve what waited for it, unify, and again while there are more calls that
wait.  An action is a visit, a resolution, or one equation.  The walks are
operators, since nothing comes between their parts; the equations are actions,
since each may push others, rewrite types that others share, or find out about a
call.

## The runs

| run | question | instances and bounds |
| --- | --- | --- |
| app | the loop over candidates, loading, the stages of a visit and pending functions | 4 files, 4 candidates (two in one file), 3 calls; imports (cyclic, missing), a class with superclass and methods in files of their own, a pre-import, one defect; 2 command lines |
| generated | constraints are generated only from resolved annotations | as app |
| scopes | import resolution and lookup against the import graph | 4 files and a block, or two files with blocks nested three deep, and the base scope; 1 identifier declared twice; up to 5 imports, each absent, plain or for export; without and with cycles and self-imports, and with files that see one export by two ways |
| scanner | tokens of comments, annotations and code | texts of 2 lines out of some forty, 3 to 4 lines out of each group, with and without a last newline |
| parser | the grammar, errors and recovery | a program for nearly each production, all programs that differ from one of these in one token, all expressions of up to 5 tokens, chains of operators |
| entry | the function that other files reach is the first | as parser |
| classifier | variables and functions along control flow | up to 6 nodes, one or two identifiers; four profiles: branches in branches, functions in functions, both, all kinds of nodes |
| shadowed | only functions local to a scope take a variable's place | as classifier |
| relations | subtyping | 8 profiles of types, 2 or 3 types made from up to 4 known ones |
| inference | what the equations' solution must satisfy | 7 pools of statements (values, functions, anonymous functions, classes, control flow, named types, several files), up to 3 of them after a definition |
| assertion | a term is on the stack whenever one is taken | 3 statements, one with an annotation |
| recursive | recursive types are reported | records and schemes that name each other, 2 statements |

What they show:

* **app**.  No entry in use is erased, no file is scanned twice, a load that
  succeeds has loaded everything (`LoadingSound`); if nothing was reported, all
  was analysed and every function has a type (`NoSilentFailure`); stages are in
  order whatever failed before (`StageOrder`); main's iterator is never stale
  (`IteratorValid`); a function is pending, typed or in error, never two of
  these (`PendingOnce`); a constraint generator finds the superclasses, imports
  and schemes it takes for granted (`AssumptionsMet`).  Over time: main
  implements `Worklist` and ends; it leaves nothing pending whose candidate has
  a type (`Quiescent`); what a visit has analysed, and the imports, methods and
  superclasses it was analysed with, no later visit takes back, adds to or erases
  (`AnalysedForGood`); a function is registered once (`FunctionsRegisteredOnce`).
* **scopes**.  A scope holds nothing it may not see (`VisibleOnly`), lookups
  find what there is to find and no more, and one thing whatever the order of a
  hash table (`LookupCorrect`), resolution stops only at a true duplicate, and at
  every duplicate (`ConflictsExact`), no map is inserted into while it is
  iterated over (`IterationSafe`), and every resolution ends.  That no duplicate
  is missed and that lookups find one thing is so unless files import each other
  in a cycle or an export is passed over; the next section says how.
* **scanner**.  Annotations end where they should (`AnnotationsEnd`), comments
  yield no tokens and code yields all of its (`CommentsApart`), each `end` is
  taken for what it ends (`EndsMatched`), and delimiters are inserted where they
  are implied and nowhere else (`DelimitersInserted`).  Texts whose comment
  marks share a line with something else, or whose annotations begin with `end`,
  are excluded where the next section says so.
* **parser**.  After any failure the parser is as deep in scopes, blocks and
  classes as the statement it goes on with is (`WellNested`); it accepts only
  what has no error, and refuses only with a report (`VerdictReported`); a file
  that parses has defined what others need of it (`DefinitionsRegistered`); it
  was read to its end, no correct program is refused, and expressions keep the
  order of their tokens and the strength of their operators
  (`ParsedAsWritten`); every parse ends.
* **classifier**.  A variable that some path leaves unassigned is reported
  (`NoMissedWarning`), and without constructs within constructs no other is
  (`NoSpuriousWarning`); an identifier both assigned and called is reported
  (`ConsistentUse`); the classifier agrees with the scopes that later stages
  search (`ScopesAgree`), and never revises what it has settled
  (`ClassificationStable`).
* **relations**.  A relation is the same asked from either side
  (`OrderIrrelevant`), tuples are matched by the values they give however nested
  (`NestedMatchesFlat`), a type can stand for each it is below
  (`Substitutable`), and unions are compared as sets (`UnionsCovered`).
* **inference**.  Bindings are solved, though types are shared and rewritten
  (`BindingsSolved`); if all ends without error each equation holds by the
  relation of types (`EquationsHold`) and no call, cast or assignment was left
  behind (`NothingForgotten`); the types of the library are left as they are
  (`LibraryKept`); the checker ends.

### The bounds

Four files are enough for two roots, a file both of them import, and a file that
only one of them leads to, in every order; a cycle of imports needs two. Three
calls are enough for one to wait for another and for two to be pending on one
candidate.  One identifier suffices for type scopes, since no operation on them
relates two; a cycle of three files is the least in which a file copies, through
another, exports that are not complete yet, and the fourth supplies what arrives
too late.  Comments, annotations and blocks that are open at the end of a line
are what a scanner carries over it: four lines open a comment, an annotation in
it, and close both in either order.  One changed token takes a program into the
error path of the production it is in, at the depth it is in; five tokens hold
two operators of any strength with a unary one, and the chains have more.  Six
nodes hold a branch within a branch, an assignment in each and a reference
behind them.  Composing a relation with itself takes three types, which a
profile makes or the library knows.  Three statements let a type be found out
before, between and after its uses.

No state constraint cuts a behaviour short: what is bounded is the program that
mtype is given.  Runs of the scanner, the parser, the classifier and the types
switch off the check for deadlocks because these end when their input does; in
`App` and `TypeScopes` the end is a step of its own.

### Fairness

`FairSpec` of `App` and of `TypeScopes`, and the specifications of the parser
and of `Inference`, have weak fairness of `Next`: the program is one thread, it
never waits for anything, and takes steps until it ends.  No action is given
fairness of its own: the choice of the next candidate or import stays free.

## Where the code is not what it says

Five runs expect a violation; each shows what a comment or an assertion of the
code says to be untrue of it.

* **generated**: `resolve_type_identifiers` sets its flag before it looks for
  errors (app.cpp:233).  The entry stays in the AstStore when the visit fails,
  and a later visit that imports the file generates constraints from annotations
  that have no type.
* **entry**: whether a function is the file's entry is asked after its body has
  been parsed (ast_gen.cpp:855), when nested functions have been counted.
* **shadowed**: the search for a local function follows the parents of a scope
  (identifier_classification.cpp:186), so that a parameter with the name of a
  function of the file is taken for that function in scopes within.
* **assertion**: an annotation before an assignment takes a term that the
  assignment has not left (type_constraint_gen.cpp:344).
* **recursive**: the check for recursive types does not look at the arguments of
  schemes (type_analysis.cpp:159).

The models show more, which is part of them and is left out of the properties:

* *Core*.  When a visit fails on type identifiers, the types of the functions of
  all root entries are reset, those among them that an earlier visit has inferred
  (app.cpp:246); they are reported as not inferred in the end (`cleared`).  An
  entry whose own imports or superclasses failed to load stays in the AstStore.
  A later visit that names the file finds it and takes that for success
  (parse_pipeline.cpp:558): the entry is a root file then, what it names is not,
  and it is analysed without, up to the assertion that its superclasses are
  registered (type_constraint_gen.cpp:283).  An error was reported before, which
  is what `AssumptionsMet` and `NoSilentFailure` are subject to.
  A call pending on a file that does not define the function is lost without an
  error (app.cpp:303).  The untyped parameters of methods in files of their own
  are not reported, for these files have lost their entries
  (type_analysis.cpp:143).
* *Type scopes*.  A scope that is met again counts as resolved though it may
  wait for its own imports, so that a cycle hides duplicates
  (type_import_resolution.cpp:37).  Import sets ignore the export flag, so that
  the second of two imports of a file is dropped with it (type_scope.cpp:23).
  An identifier that a scope has from one import is passed over when another
  brings the same type for export (type_scope.cpp:117): it is then not exported,
  and files that import this one miss it, or miss that it is a duplicate, which
  depends on the order of a hash table.  Let b import d for export and c plainly,
  d import c for export, and c export x: if c comes first, b does not export x,
  and a file that imports b and declares x meets no conflict.  A block that
  imports for export may likewise export what it does not hold.
  The report of a duplicate takes the token of the earlier declaration, of which
  the base scope has none (type_import_resolution.cpp:61).
* *Scanner*.  A block comment's mark behind an annotation on the same line
  swallows the newline, and the next line is scanned as types (scan.cpp:388,
  against src/notes/note1.m:16-17).  `@T end` in a comment leaves the depth of
  annotations at -1 (:435-440); the second time it is not reported, and the
  annotation does not end with its line.  Comments may begin and end mid-line.  `1.*x` is
  a number `1.` and a `*`; an exponent needs no digits; unclosed brackets pass.
* *Parser*.  A `for` whose parenthesized range is not closed fails without a
  report (ast_gen.cpp:2508-2513).  A second constructor meets an assertion
  (:333). `a < b * c + d` is not grouped by precedence, since binary operators
  are reduced once only.  `a b +` is accepted.  A top-level block stops at a
  stray `end` and reports nothing if the functions of the file were taken to
  have no ends. `pop_class` leaves the unqualified name on its stack (:646).
  Recovery within a block skips over the boundaries of functions.
* *Classifier*.  A loop within a branch is registered as a child of the branch's
  context, and a variable that a branch assigns again deeper down counts as
  assigned there only: both give spurious warnings.  Identifiers of contexts are
  shared between scopes (identifier_classification.cpp:210).  A warning
  suppresses later errors.  The identifier of a `catch`, the variable in its own
  `for` and a function's outputs count as assigned.
* *Relations*.  Lists of any length are accepted for a fixed number of inputs
  (test/relation/main.cpp:263).  An alias is not everywhere the same as its
  source (type_relation.cpp:118).  Value tuples within value tuples within
  tuples do not match even themselves, nor does `[[]]`; two lists are compared
  by the first types of their patterns.  Unions are not compared symmetrically
  for equivalence.  Equations of functions demand equal headers in one place and
  not in the other (`related_abstractions`, simplify.cpp).
* *Unification*.  Some failures of records and subscripts add no error.  A
  scheme is equal to nothing but a scheme.  The second of two `isa` guards on
  one variable removes the first when it ends.  Method dispatch stops at the
  first argument without a type.  A polymorphic function that calls itself would
  be instantiated forever; a cast in a scheme that is copied meets
  `assert(false)`; `f(f)` with `f = @undefined` binds a type to itself.  What is
  inferred may depend on the order of the statements.

## The theorems

`App_proofs` and `AppSound_proofs` hold for every set of files, candidates, calls,
worlds and command lines that satisfies the named assumptions of
`SourceFiles` and `App` (finitely many candidates; names in a world name files
of it).  The inductive invariants are in `AppProperties` or before their
theorem.

* `TypeCorrect`: `TypeOK`.
* `IteratorAlwaysValid`: by `IterInv`, insertions happen only in a visit that
  returns true, after which main starts over.
* `AllCandidatesTried`: by `TriedInv`, each candidate's file is in the store, or
  main will still come to it, or it will start over.
* `ImplementsWorklist`: main implements `Worklist`, every step a step of it or a
  stutter.
* `LoadingCorrect`: `LoadingSound`.  The first strengthening is `LoadInv`: the
  calls on the stack are a chain, each the target of the one below; no file
  occurs twice in it, since a file is entered in the store before the files it
  names; an entry that has failed has made a call fail.  The second, `ScansInv`,
  is for files that are not scanned twice: one that was scanned and has no entry
  defines a method of a class that has, and the call for that class is past the
  method, so that nothing will name the file again.
* `NeverTakenBack`: `AnalysedForGood`.  By `NamesInv` calls in progress are for
  files that are not analysed yet, and only they add imports, methods and
  superclasses; what a file imports or inherits from is stored and is no method's
  file, and only the entries of methods' files are erased.  By `MethodsInv` such
  a file has no constraints of its own: as a root file it is either still being
  loaded or has made the load fail, and no later stage sees it.
* `StagesInOrder`: `StageOrder`.  By `StageInv`: past the load, every root file
  has been parsed and has the base scope, and has its identifiers resolved once
  the phase of the constraints is reached.
* `NeverLost`: `PendingOnce`.  By `PendingInv`: what is pending, typed or in
  error has been looked up, and the candidates with pending functions are keys.
* `NoTypeIsMissed`: `Quiescent`.  By `QuiescentInv`: the number the loop
  compares with is that of a set of keys in which all candidates with a type
  have been resolved and have nothing pending.  Keys only grow, so that an equal
  number means that the set is all of them.
* `NothingFailsSilently`: `NoSilentFailure`.  By `SilentInv`: as long as nothing
  was reported, every entry has been parsed and has been analysed, or is a root
  file of the visit in progress, and no call has failed (each early return either
  reports or hands on a failure).  By `AnsweredInv`, which extends
  `QuiescentInv`: when the unification ends, what is still pending waits for a
  file that was not loaded, and by `TriedInv` there is none when main ends.
* `TypesRegisteredOnce`: `FunctionsRegisteredOnce`.  By `TypedInv` the functions
  with a type are those of entries whose identifiers were resolved, or moved into
  the classes of such entries; by `MovedInv` a definition that was moved is of a
  file that is gone for good.
* `GeneratorAssumptions`: `AssumptionsMet`.  By `NamesInv`: what a stored file
  names is stored, or the call that will load it is on the stack, so that a visit
  has all of it among its root files or finds it analysed; by `SchemesInv`
  schemes are instantiated before the constraints of the same visit.

`LoadingCorrect`, `NeverTakenBack`, `NothingFailsSilently`, `TypesRegisteredOnce`
and `GeneratorAssumptions` need `MethodFilesApart`: the files that
define a class's methods are named by the class's declarations and nothing else.
In an @-directory that is so, since the search path holds only the class itself
(search_path.cpp:59-68).  Otherwise a file could be visited as a function's file
and erased as a method's.

`TypeScopes_proofs` and `TypeScopesGraph_proofs` hold for every finite set of
scopes and all programs that are well formed (`ProgramsAssumption`): a scope
without a parent is its own root, any other has the root of its parent, and no
scope encloses itself, as `push_scope` makes them, so that blocks nest to any
depth; what a scope exports is declared in it, imports are of files, and a file
exports an identifier once, as `can_register_local_identifier` sees to.

* `TypeCorrect`: `TypeOK`; a scope that is being resolved is never entered
  again.
* `IterationAlwaysSafe`: a map of exports is not inserted into while it is
  iterated over.  By `CopyInv`: only the call on the top of the stack copies,
  and all that it has left to copy is in the exports of its import, so that an
  insertion into the same exports would find the identifier registered.
* `OnlyVisible`: `VisibleOnly`.  By `VisibleInv`: what a file exports is
  exported by the declaring file, which is in the closure of the exporting file
  under imports for export; closures are transitive, and grow with the imports.
* `ConflictsAreExact`: `ConflictsExact`.  A reported conflict is between two
  declarations that are both in the closure of the scope's imports, or of its
  file.  That none is missed is an argument about the order of the calls.  By
  `PathInv` the files on the stack import each other in its order, so that in a
  graph without cycles an import is never of a file that is being resolved
  (`NotCalledAgain`).  By `SettledInv` an import that a call is done with is of a
  file whose calls have returned, and each of its exports is held or about to be
  copied; by descent along the imports such a file is complete: it exports all
  that the graph says (`FinishedComplete`, which takes a least incomplete file
  instead of an induction).  `BlocksLast` is what keeps the exports of a block
  from being mistaken for those of its file.  So when a visit ends each scope
  holds what it means, and cannot hold two.
* `LookupsAreCorrect`: `LookupCorrect`.  The walk of a lookup is a least closed
  set within the closure of the imports, and is all of it if nothing is found on
  the way and no export was dropped; by `DeclaredInv` the declaring file exports
  the identifier.  That one thing is found follows from there being one meaning.

The conditions of the last two, `Cyclic`, `PassedOver` and `Dropped`, are not for
the proof's sake: for each there is a program that shows it to be necessary.  The
second was found by the proof, and lies outside of the bounds that the run had
before; the run has it now.

`AstGenerator_proofs` holds for every set of files (`FilesAssumption`: a file is
a sequence of strings, and is parsed from a block, an expression or an external
declaration), of any length and any nesting.

* `ParserWellNested`: `WellNested`.  The inductive invariant, `IInv`, is about
  the to-do list.  `Shape` says what its items and the state of the parser may
  be.  `Body` is the grammar of the list: what destructors do is only in "leave"
  items of the list itself, never hidden in an item that is still to be
  expanded; behind each `Catch` is the item of the loop that recovers.  `Nesting`
  counts: each depth and each stack of scopes, blocks and classes is as high as
  there are "leave" items of its kind in the list.  It is needed since a failure
  drops an unknown part of the list: the items dropped are run if they are
  "leave" items, so that the counts agree on what remains, whatever it is.  The
  proof has one lemma for each grammar rule.
* `VerdictMatchesErrors`: `VerdictReported`.  Both directions are about the list
  again.  Three kinds of items fail without a report of their own (`Mute`): a
  token that is missed silently, the failure at the end of a loop, and a loop
  that has caught one.  `Body` therefore says whether a list may hold such items.
  `Accounted`: as long as there is no error and no `for` with its range in
  parentheses was read, the list holds none, and nothing has failed.
  `Remembered`: once there is an error, the parser fails, or an item of the list
  is still to fail (`Recalls`): the loop that caught the failure is told so, and
  tells what it goes on with.

`IdentifierClassifier_proofs` holds for every set of bounds (`BoundsAssumption`:
finitely many names, natural numbers for lengths), hence for programs of every
length, depth and number of identifiers.

* `UsesAreConsistent`: `ConsistentUse`.
* `UseIsSettled`: `ClassificationStable`.
* `ParserScopesAgree`: `ScopesAgree`.
* `NoWarningIsMissed`: `NoMissedWarning`.
* `NoWarningIsSpurious`: `NoSpuriousWarning`.

The first three are from one inductive invariant, `Inv`.  `Known` is what a scope
knows: what it assigns to it has classified, as a variable or with a report, and
what it calls as a function; its contexts are numbered by depth and older than
the next number.  `Fits` ties a scope to those around it: a variable it has
classified is the one that the parser's scopes find from there, and one it has
of its own is a parameter or unknown around it.  `Fitting` ties the scopes to the
open constructs: as many scopes as delimiting frames, as many contexts and
contexts of assignment in each as blocks and branches in its frames.  It must
speak of all scopes where `TypeOK` speaks of the innermost, since that of a
function is left for the one around it.  Imports and parameters are folds over
sets.  Induction over the set is out of reach; `FoldExists` and the lemmas on
registered imports instead take a smallest set for which the claim fails.

The fourth needs more.  The property is about the paths of the program, of which
the classifier keeps nothing: it numbers contexts, and moves what each branch has
assigned to the context around the construct.  `Tells`, inductive given `Inv`,
is the link.  What a context that is open tells of (`Told`) is sure there, and it
was sure at the start of each open construct that is as deep (`Assured`).  The
second part is what a branch is left by: what was sure before the construct is
still, and what its context told of is dropped with it.  For the construct that
assignments are promoted out of, an identifier that all of its branches so far
have assigned is sure at the end of each of them (`Joined`), so that with a
branch that is always taken it is sure behind them.  `Stacked` keeps blocks and
constructs alternating, without which the construct at hand could not be told
from the ones around it.  The lemmas go through what an assignment, a promotion,
a new block, a new construct and a new scope do to `Assured`, and then through
the actions.

The fifth is the converse, which fails once a branch or loop is within another
(see above), so that `Plain` speaks of scopes without: one construct is open at
most, what is sure has the context of one that is open (`Lives`), and what was
sure before the construct has one around it.  `Tight` is about the branches:
each that has ended, and the one at hand, has noted in the context of assignment
what is sure in it and was not before.  What is sure at all ends is therefore
promoted (`EndsPromoted`), and takes the context that stays.  `Warranted` joins
this to `Assured` in `Tells`; its part `Seen`, that only what has been classified
is sure, is needed since an identifier might otherwise become a variable only
after it was sure.  The identifier of a catch that names a function is counted as
assigned though it is no variable (`Settles`).

`Scanner_proofs` and `ScannerComments_proofs` hold for every text, of any length,
over every set of words (`TextsAssumption`: a text is a sequence of units, and letters are no digits or
symbols).

* `EveryAnnotationEnds`: `AnnotationsEnd`.  `Steps` says what each kind of step
  of the scanner adds to the tokens and does to its depths; that the branches of
  `scan` do no more (`ScanSteps`) is where the positions in the text are looked
  at, and nothing after it does.  `Balanced` then ties the depths to the tokens:
  as many annotations are open behind the last token as the depths say, if no
  error was found.  It must leave out texts in which an annotation begins with
  `end`, where the depths are wrong (see above).  At the end of the text come the
  commas.  Where each token stands among them is `Place`, and `InsertedSpreads`
  shows that inserting them one at a time, each shifted by those before it, puts
  every token at its place and every comma behind its token (`Spread`); commas
  open and close nothing (`OpenSpread`), and none stands between an `@T` and what
  follows it.  Functions defined along a list are shown to exist by
  `RecursiveFunction`, and `UpTo` stands in for induction: it speaks of a set of
  numbers, not of an operator.
* `DelimitersAreImplied`: `DelimitersInserted`.  The scanner decides from counters
  that run along the list without commas; the property speaks of the list with
  them, and counts tokens.  The running counters are these counts: brackets and
  braces together (`NestingCounts`), which answers the same question as long as
  none is closed before it was opened, the refusal of `Unopened`
  (`EitherOpen`), and the inputs that are awaited (`AwaitsWhen`).  Each count and
  each "behind" then carries over from a token to its place among the commas
  (`CountSpread`, `NextIs`, `InputsAre`, `MatrixIs`, `SidesAre`).
* `EndsAreMatched`: `EndsMatched`.  The scanner keeps a stack of keywords; the
  property says which keywords are left open by counting: those that no end
  behind them makes up for.  The invariant (`Matched`) is that the stack and the
  keywords left open are the same, each with its height in the stack, which is
  how many more keywords than ends there are from it on (`Excess`), and that the
  depths are the parentheses and braces counted (`Depths`).  A keyword adds one to
  the excess of all (`LeftPushed`), an end takes one from all and closes the one
  whose excess was one (`LeftPopped`), and words of annotations, which are no code,
  change neither (`Keeps`).  The commas then move every token and keep what is
  within and what is left (`WithinMoved`, `LeftMoved`, `CodeMoved`).
* `CommentsAreApart`: `CommentsApart`.  The scanner counts the comment blocks it
  is in as it meets their marks; the property counts those of a line from the
  lines alone (`Blocks`).  The invariant (`Apart`) says that the two agree where
  the scanner stands (`Fits`), that every word passed outside of comments is
  covered by a token (`KeptAt`), that a token never spans two lines (`OneLine`),
  and that every token so far is of the code or belongs to the last sign `@T`
  before it, whose line is still being read or has its end (`Abreast`, `Heard`).
  `CommentMoves` and `CodeMoves` say what each step does to the line it is on, in
  texts that the property speaks of (`Conforming`); a block that is entered or
  left is so for the whole line (`Enters`, `Leaves`), since nothing but blanks
  stands beside its mark.  That a sign's annotation is still open where the
  scanner says so, and not elsewhere, is `Balanced` again.

Model-checked only, and why:

* `Termination`, `EachVisitEnds` and `Terminates`: liveness under fairness.
* `ParsedAsWritten`, and all properties of the relations and the inference:
  their models, or the definitions that say what is right, walk types and
  programs by recursive operators, with which the provers cannot work.  That a
  file is read to its end also rests on what the scanner has counted.
* `DefinitionsRegistered` of the parser: not proved yet.

## Not modelled

* The search path and the file system: built once, before anything else runs.
  Which file a name leads to is an input of the models.  So is which private and
  class directories shadow others.
* The MATLAB side (src/matlab, MEX glue), the declarations of the base library
  and the experiments.
* Command line options, display of types and errors, the texts of errors.
* The decoding of UTF-8; a text is a sequence of characters.
* Classes and their properties in the classifier, and its sides of expressions;
  external_visibility.cpp, which nothing calls.
* Classes that inherit from each other in a circle: `lookup_method`
  (library.cpp:46) would not end, in the code as in a model.
* In `Inference`: imports between files (`TypeScopes` has them), nested type
  scopes, namespaces, inferred types, and the methods of superclasses that a
  class is presumed to have.  The order in which the bound terms are substituted,
  that of a hash table, is one of two at each step, the reverse of each other.

## Plan

Done: the core, type scopes, relations, classifier, scanner, parser, unification
and its composition; theorems about all of the core's and the type scopes' safety
properties, the parser's recovery and verdict, the classifier's definitions and
warnings, and all of the scanner's properties.
Left, in this order:

1. the theorem of `DefinitionsRegistered`;
2. classes in the classifier;
3. the search path: shadowing by private, class and package directories;
4. imports between files in `Inference`, so that type names of one file are used
   in the equations of another.
