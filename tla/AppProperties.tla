--------------------------- MODULE AppProperties ---------------------------
(***************************************************************************)
(* What should be true of mtype's driver: the properties of App that the   *)
(* model-checking runs check, and that App_proofs and AppSound_proofs      *)
(* prove.                                                                  *)
(***************************************************************************)
EXTENDS App

LoaderTypeOK ==
  /\ world \in World
  /\ store \in [File -> Entry] /\ scans \in [File -> Nat]
  /\ rootFiles \subseteq File /\ scopeImports \in [File -> SUBSET File]
  /\ superDefs \subseteq File \X Nat /\ methodDefs \in [File -> SUBSET (File \X Nat)]
  /\ reported \in BOOLEAN
  /\ mode \in {"off", "enter", "run", "return"} /\ arg \in File /\ ret \in {"null", "entry"}
  /\ stack \in Seq(Frame) /\ (mode = "run" => stack # <<>>)

ExternalTypeOK ==
  /\ typed \subseteq File \X Nat
  /\ visited \subseteq Cand /\ resolved \subseteq Cand /\ keys \subseteq Cand
  /\ pending \in [Cand -> SUBSET Fn] /\ visitedPairs \subseteq Cand \X Fn
  /\ checked \subseteq Fn /\ called \subseteq Fn /\ unresolved \subseteq Fn

VisitTypeOK ==
  /\ phase \in Phase /\ rootFile \in File /\ remaining \subseteq Cand /\ iterValid \in BOOLEAN
  /\ idErrors \in BOOLEAN /\ newSchemes \subseteq File /\ instantiated \subseteq File
  /\ cleared \subseteq File /\ numPending \in Nat /\ untyped \subseteq File

\* The type of every variable: what each container of the program may hold.
TypeOK == LoaderTypeOK /\ ExternalTypeOK /\ VisitTypeOK

---------------------------------------------------------------------------
(* Loading *)

\* gather_root_entries looks up every root file, and are_valid_root_entries
\* asserts that there is an entry (app.cpp:15); remove_root asserts the same.
RootsInStore == \A f \in rootFiles : Stored(f)

\* A call of file_entry uses its entry (root_res) until it returns: no entry is
\* erased from the AstStore while a call for its file is in progress.
EntriesInUse == \A k \in DOMAIN stack : Parsed(stack[k].file)

\* When file_entry succeeds, so has everything that it loaded, however deep: a root
\* entry that failed, in this visit or in an earlier one, fails the whole visit.
LoadedWhole ==
  mode = "return" /\ stack = <<>> /\ ret = "entry" => \A f \in rootFiles : Parsed(f)

\* Tokens, errors and descriptors point into a file's scan result, which a second
\* scan would replace: a file is scanned once.
ScannedOnce == \A f \in File : scans[f] <= 1

\* A failed visit leaves what it loaded in the AstStore.  It also leaves a report:
\* if nothing was reported, then everything that was loaded was analysed, and
\* every external function that was looked for has been given a type.
NoSilentFailure ==
  phase = "done" /\ ~reported /\ unresolved = {} =>
    /\ \A f \in File : Stored(f) => Parsed(f) /\ store[f].gen
    /\ checked \subseteq called

\* An entry goes through its stages in order, and only if it parsed.
StageOrder ==
  \A f \in File : LET e == store[f] IN
    /\ e.gen => e.ids
    /\ e.ids => e.base
    /\ e.base => Parsed(f)

\* What the rest of a visit relies on when file_entry has returned, however deep it went,
\* whatever failed on the way or in an earlier visit, and though entries are erased.
LoadingSound == RootsInStore /\ EntriesInUse /\ LoadedWhole /\ ScannedOnce

---------------------------------------------------------------------------
(* The loop over the candidates *)

\* main never uses an iterator that an insertion has invalidated.
IteratorValid == phase = "iterate" => iterValid

\* main ends only when the file of every visited candidate has been tried, though
\* candidates are inserted, at any position, while it iterates.
CandidatesTried == phase = "done" => \A c \in visited : Stored(CandFile[c])

\* main's loop is a worklist of files.
W == INSTANCE Worklist
       WITH Path <- File,
            known <- {CandFile[c] : c \in visited},
            tried <- {f \in {CandFile[c] : c \in visited} : Stored(f)},
            finished <- phase = "done"

WorklistSpec == W!Spec

\* A new visit loads at least one file, so main's loop ends, cyclic imports or not.
Termination == <>(phase \in {"done", "exit"})

---------------------------------------------------------------------------
(* External functions *)

Resolvable(c) == Parsed(CandFile[c]) /\ HasHandle(c) /\ HasType(c)

\* unify_while_able ends when the number of pending candidates is stable.  By then
\* no function is pending on a candidate whose type is known.
Quiescent ==
  [][phase = "unify" /\ phase' = "iterate" =>
       \A c \in Cand : Resolvable(c) => pending[c] = {}]_vars

\* A function that was looked up is pending, or has its callee's type, or an error,
\* and never two of these; it is pending on one candidate only, and never lost.
PendingOnce ==
  \A p \in checked :
    /\ p \in called \/ p \in unresolved \/ \E c \in Cand : p \in pending[c]
    /\ ~(p \in called /\ p \in unresolved)
    /\ \A c \in Cand : p \in pending[c] =>
         p \notin called /\ p \notin unresolved /\ \A d \in Cand : p \in pending[d] => d = c

\* The files whose types an analysed file was analysed with: those that its root type
\* scope imports, and its superclasses.
Supers(f) ==
  {Info(f).supers[i] : i \in {j \in DOMAIN Info(f).supers : <<f, j>> \in superDefs}}
UsedBy(f) == scopeImports[f] \cup Supers(f)

\* The constraints of a file are generated once, from what it has loaded, and not taken
\* back: no later visit, whatever it loads, erases or fails on, adds to what an analysed
\* file has loaded (parse_pipeline.cpp:209, 363), or removes the file or one that it
\* uses from the AstStore.
AnalysedForGood ==
  [][\A f \in File : store[f].gen =>
       /\ store'[f].gen
       /\ scopeImports'[f] = scopeImports[f] /\ methodDefs'[f] = methodDefs[f]
       /\ \A i \in DOMAIN Info(f).supers : <<f, i>> \in superDefs' <=> <<f, i>> \in superDefs
       /\ \A g \in UsedBy(f) : store'[g].status = store[g].status]_vars

---------------------------------------------------------------------------
(* What the code expects of itself.  The first two hold as long as nothing *)
(* was reported: after a failure, entries of the AstStore are shared       *)
(* between the visit that gave up on them and later ones.                  *)

\* type_constraint_gen.cpp:282-283 asserts that the class of every superclass of
\* an analysed class is registered, which resolving its identifiers does.
SuperclassesRegistered ==
  \A f \in File : ~reported /\ store[f].gen /\ IsClass(f) =>
    \A i \in DOMAIN Info(f).supers :
      <<f, i>> \in superDefs /\ store[Info(f).supers[i]].ids

\* type_constraint_gen.cpp:336 asserts that every annotation of an analysed file
\* has a resolved type: its identifiers have been resolved, without errors.
GeneratedFromResolved == \A f \in File : store[f].gen => store[f].ids /\ Info(f).ids = "ok"

\* The types that an analysed file imports are defined: the identifiers of the
\* imported file have been resolved, and its type schemes instantiated.  The
\* assertions on alias sources (IsRecursive::alias and others follow source).
VisibleTypesDefined ==
  \A f \in File : ~reported /\ store[f].gen =>
    \A g \in scopeImports[f] : store[g].ids /\ (Info(g).schemes => g \in instantiated)

\* What the constraint generator takes for granted of the files around the one at hand is
\* so, whichever visit loaded and resolved them.
AssumptionsMet == SuperclassesRegistered /\ VisibleTypesDefined

\* library.cpp:189 asserts that a function's type is registered once: whatever failed
\* before, resolving the identifiers of a file finds none of its functions with a type.
FunctionsRegisteredOnce ==
  [][\A f \in File : store'[f].ids /\ ~store[f].ids =>
       ({ThisParse(f)} \cup methodDefs[f]) \cap typed = {}]_vars

---------------------------------------------------------------------------
(* What the properties rest on: the strengthenings that the steps of the   *)
(* program preserve (App_proofs and AppSound_proofs).                      *)

\* Whose file each call of file_entry is for: the call below it asked for it.
CallChain ==
  /\ world \in Worlds
  /\ mode # "off" <=> phase = "load"
  /\ mode = "off" => stack = <<>>
  /\ phase = "load" => \E c \in Cand : rootFile = CandFile[c]
  /\ stack = <<>> /\ mode # "off" => arg = rootFile
  /\ stack # <<>> => stack[1].file = rootFile
  /\ \A k \in DOMAIN stack : k + 1 \in DOMAIN stack =>
       stack[k].i <= Len(NamedFiles(stack[k])) /\ stack[k + 1].file = Target(stack[k])
  /\ stack # <<>> /\ mode \in {"enter", "return"} =>
       Top.i <= Len(NamedFiles(Top)) /\ arg = Target(Top)

\* A file is entered into the AstStore once while calls for it are in progress.
DistinctCalls == \A j, k \in DOMAIN stack : stack[j].file = stack[k].file => j = k

\* A root entry that failed has made a call fail, or is about to.
Failing ==
  \/ mode = "return" /\ (ret = "null" \/ ~Parsed(arg))
  \/ \E k \in DOMAIN stack : ~stack[k].ok

FailuresPropagate ==
  /\ phase = "load" => Failing \/ \A f \in rootFiles : Parsed(f)
  /\ mode = "enter" /\ stack = <<>> => ~Stored(arg)
  /\ mode = "return" /\ stack = <<>> /\ ret = "entry" => Parsed(arg)

LoadInv == CallChain /\ DistinctCalls /\ EntriesInUse /\ RootsInStore /\ FailuresPropagate

\* Insertions invalidate the iterator only while visit_file unifies.
IterInv == iterValid \/ phase \in {"resolve", "unify"}

\* A candidate is tried, or main will come to it: now, or when it starts over.
TriedInv ==
  /\ phase = "done" => remaining = {}
  /\ \A c \in visited :
       \/ Stored(CandFile[c]) \/ c \in remaining
       \/ phase = "load" /\ mode = "enter" /\ stack = <<>> /\ CandFile[c] = arg
       \/ phase \in {"resolve", "unify", "exit"}

\* How far the entries of the current visit have come.
StageInv ==
  /\ StageOrder
  /\ phase \in {"imports", "ids", "constraints"} =>
       \A f \in rootFiles : Parsed(f) /\ store[f].base
  /\ phase = "constraints" => \A f \in rootFiles : store[f].ids

\* The files of external methods are analysed with their classes, and in no other place:
\* one that is a root file is still being loaded, or has made the load fail.
IsMethodFile(m) == \E f \in File : \E i \in DOMAIN Info(f).methods : Info(f).methods[i].file = m
Loading(m) == (mode = "return" /\ arg = m) \/ \E k \in DOMAIN stack : stack[k].file = m

MethodsInv ==
  \A m \in File : IsMethodFile(m) =>
    /\ ~store[m].gen
    /\ phase = "load" /\ m \in rootFiles => Failing \/ Loading(m)
    /\ phase \in {"imports", "ids", "constraints"} => m \notin rootFiles

\* A file that was scanned and is not in the AstStore defines a method i of a class g that
\* is, and the call for g, if it is still in progress, is past i.
PastMethod(g, i) ==
  /\ IsClass(g) /\ Stored(g)
  /\ \A k \in DOMAIN stack : stack[k].file = g =>
       stack[k].step # "supers" /\ (stack[k].step = "methods" => stack[k].i > i)

ScansInv ==
  /\ ScannedOnce
  /\ \A k \in DOMAIN stack : stack[k].step \in {"supers", "methods"} => IsClass(stack[k].file)
  /\ \A f \in File : ~Stored(f) /\ scans[f] # 0 =>
       \E g \in File : \E i \in DOMAIN Info(g).methods :
         Info(g).methods[i].file = f /\ PastMethod(g, i)

\* Only functions that were looked up are pending, typed or in error.
PendingInv ==
  /\ PendingOnce
  /\ called \subseteq checked /\ unresolved \subseteq checked
  /\ \A c \in Cand : pending[c] \subseteq checked /\ (pending[c] # {} => c \in keys)
  /\ \A pair \in visitedPairs : pair[2] \in called

\* Of the candidates that were keys when unify_while_able last looked, those whose
\* type is known are resolved, and nothing becomes pending on them again.
QuiescentInv ==
  phase = "unify" =>
    \E before \in SUBSET keys :
      /\ Cardinality(before) = numPending
      /\ \A c \in before : Resolvable(c) => c \in resolved /\ pending[c] = {}
\* Nothing has failed unnoticed: what is in the AstStore has been parsed, and analysed but
\* for what the current visit is about to; no call of file_entry has failed; and the
\* identifiers that were resolved were, with their functions' types.
Ongoing == phase \in {"load", "imports", "ids", "constraints"}
SoundEntry(f) == Parsed(f) /\ (store[f].gen \/ (f \in rootFiles /\ Ongoing))
SilentInv ==
  ~reported =>
    /\ \A f \in File : Stored(f) => SoundEntry(f)
    /\ \A k \in DOMAIN stack : stack[k].ok
    /\ mode = "return" => ret = "entry" /\ Parsed(arg)
    /\ \A f \in File : store[f].ids => Info(f).ids = "ok" /\ ThisParse(f) \in typed

\* Every candidate that was looked for has functions pending or is resolved.  Of those that
\* were keys when unify_while_able last looked, the ones whose file is loaded are resolved;
\* when it has ended, nothing is pending on a file that is loaded.
Waiting(c) == pending[c] # {}
Settled(c) == Stored(CandFile[c]) => c \in resolved /\ ~Waiting(c)
KeysInv == keys \subseteq visited /\ (phase = "locate" => keys = {})
AnsweredInv ==
  ~reported /\ unresolved = {} =>
    /\ \A c \in keys : Waiting(c) \/ c \in resolved
    /\ phase = "unify" =>
         \E before \in SUBSET keys : Cardinality(before) = numPending /\ \A c \in before : Settled(c)
    /\ phase \in {"iterate", "done"} => \A c \in Cand : Waiting(c) => ~Stored(CandFile[c])

\* A definition that was moved into a class is that of the only scan of a file that is gone
\* for good, and which is named by nothing but the class's declaration of the method.
MovedFrom(f, def) ==
  \E i \in DOMAIN Info(f).methods :
    Info(f).methods[i].file = def[1] /\ PastMethod(f, i)
      /\ def[2] = scans[def[1]] /\ ~Stored(def[1])
MovedInv ==
  /\ \A f \in File : \A def \in methodDefs[f] : MovedFrom(f, def)
  /\ \A m \in File : IsMethodFile(m) => ~store[m].ids

\* The functions that have a type are those of entries whose identifiers were resolved.
TypedInv ==
  \A def \in typed :
    \/ store[def[1]].ids /\ def[2] = scans[def[1]]
    \/ \E h \in File : store[h].ids /\ def \in methodDefs[h]

\* What a file imports, or has registered as a superclass, stays in the AstStore; what an analysed
\* file names is analysed.
Kept(g) == g \in File /\ Stored(g) /\ ~IsMethodFile(g)
SuperRegistered(f, i) == <<f, i>> \in superDefs /\ Kept(Info(f).supers[i])
SuperExpected(f, i) ==
  \E k \in DOMAIN stack : stack[k].file = f /\ stack[k].step = "supers" /\ stack[k].i <= i
NamesInv ==
  /\ \A f \in File : \A g \in scopeImports[f] : Kept(g)
  /\ \A f \in File : \A g \in Supers(f) : Kept(g)
  /\ \A k \in DOMAIN stack : ~store[stack[k].file].gen /\ ~store[stack[k].scope].gen
  /\ ~reported =>
       /\ \A f \in File : Stored(f) /\ IsClass(f) =>
            \A i \in DOMAIN Info(f).supers : SuperRegistered(f, i) \/ SuperExpected(f, i)
       /\ \A f \in File : store[f].gen =>
            /\ \A g \in scopeImports[f] : store[g].gen
            /\ IsClass(f) => \A i \in DOMAIN Info(f).supers : store[Info(f).supers[i]].gen

\* Schemes are instantiated in the visit that resolves the identifiers, before its constraints.
SchemesInv ==
  ~reported =>
    /\ \A f \in File : store[f].ids /\ Info(f).schemes =>
         f \in instantiated \/ (phase = "ids" /\ f \in newSchemes)
    /\ \A f \in File : store[f].gen /\ Info(f).schemes => f \in instantiated
=============================================================================
