-------------------------------- MODULE App --------------------------------
(***************************************************************************)
(* The mtype command: main's loop over the visited candidates, and         *)
(* App::visit_file, which loads a file, resolves its types together with   *)
(* those of the files loaded with it, generates their type constraints,    *)
(* and unifies for as long as that discovers external functions.           *)
(***************************************************************************)
EXTENDS ExternalFunctions

\* What the root identifiers of a command line name: candidates, or None.
CONSTANT CommandLines

ASSUME CommandLinesAssumption == CommandLines \subseteq Seq(Cand \cup {None})

VARIABLES
  phase,         \* where main, and visit_file within it, stand
  rootFile,      \* the file that visit_file was called for
  remaining,     \* the candidates from external_it to end()
  iterValid,     \* external_it has not been invalidated by an insertion
  idErrors,      \* any_resolution_errors
  newSchemes,    \* the files with PendingSchemes of this visit
  instantiated,  \* the files whose PendingSchemes have been instantiated
  cleared,       \* the files whose function types clear_function_types has reset
  numPending,    \* original_num_pending
  untyped        \* the files with a could-not-infer-type error

visitVars == <<rootFile, idErrors, newSchemes, instantiated, cleared, numPending, untyped>>
vars == <<loaderVars, externalVars, phase, remaining, iterValid, visitVars>>

Phase == {"locate", "iterate", "load", "imports", "ids", "constraints", "resolve",
          "unify", "done", "exit"}

Init ==
  /\ LoaderInit /\ ExternalInit
  /\ phase = "locate" /\ rootFile = AnyFile
  /\ remaining = {} /\ iterValid = TRUE
  /\ idErrors = FALSE /\ newSchemes = {} /\ instantiated = {} /\ cleared = {}
  /\ numPending = 0 /\ untyped = {}

---------------------------------------------------------------------------
(* main *)

\* locate_root_identifiers, and external_it = visited_candidates.begin().  The
\* first name without a file ends the program.
LocateRootIdentifiers ==
  /\ phase = "locate"
  /\ \E names \in CommandLines :
       LET located == {i \in DOMAIN names : \A j \in 1..i : names[j] # None}
       IN /\ visited' = {names[i] : i \in located}
          /\ phase' = IF located = DOMAIN names THEN "iterate" ELSE "exit"
  /\ remaining' = visited'
  /\ UNCHANGED <<loaderVars, typed, resolved, keys, pending, visitedPairs, checked, called,
                 unresolved, iterValid, visitVars>>

\* visit_file returns at once when the candidate's file is in the AstStore.
VisitKnownFile ==
  /\ phase = "iterate"
  /\ \E c \in remaining : Stored(CandFile[c]) /\ remaining' = remaining \ {c}
  /\ UNCHANGED <<loaderVars, externalVars, phase, iterValid, visitVars>>

VisitNewFile ==
  /\ phase = "iterate"
  /\ \E c \in remaining :
       /\ ~Stored(CandFile[c])
       /\ remaining' = remaining \ {c}
       /\ rootFile' = CandFile[c] /\ arg' = CandFile[c]
  /\ phase' = "load" /\ mode' = "enter" /\ rootFiles' = {} /\ stack' = <<>>
  /\ UNCHANGED <<world, store, scans, scopeImports, superDefs, methodDefs, reported, ret,
                 externalVars, iterValid, idErrors, newSchemes, instantiated, cleared,
                 numPending, untyped>>

\* check_for_concrete_function_types: a function of f has a parameter whose type
\* is not known.
HasUntyped(f) ==
  /\ Analysed(f)
  /\ f \in cleared \/ \E p \in Fn : Call(p).owner = f /\ Call(p).typing /\ p \notin called

Finish ==
  /\ phase = "iterate" /\ remaining = {}
  /\ phase' = "done"
  /\ untyped' = {f \in File : store[f].gen /\ HasUntyped(f)}
  /\ UNCHANGED <<loaderVars, externalVars, remaining, iterValid, rootFile, idErrors,
                 newSchemes, instantiated, cleared, numPending>>

---------------------------------------------------------------------------
(* visit_file *)

\* visit_file returns false: main goes on with the same iterator.
ReturnFalse == phase' = "iterate"

\* visit_file returns true: main starts over.
ReturnTrue == phase' = "iterate" /\ remaining' = visited /\ iterValid' = TRUE

Load == phase = "load" /\ FileEntryStep
        /\ UNCHANGED <<externalVars, phase, remaining, iterValid, visitVars>>

\* Mutant: the result of file_entry is not looked at.
LoadedUnchecked ==
  /\ phase = "load" /\ mode = "return" /\ stack = <<>>
  /\ mode' = "off" /\ phase' = "imports"
  /\ store' = [f \in File |-> IF f \in rootFiles THEN [store[f] EXCEPT !.base = TRUE]
                                                 ELSE store[f]]
  /\ UNCHANGED <<world, scans, rootFiles, scopeImports, superDefs, methodDefs, reported,
                 arg, ret, stack, externalVars, remaining, iterValid, visitVars>>

\* are_valid_root_entries and add_base_scopes
Loaded ==
  /\ phase = "load" /\ mode = "return" /\ stack = <<>>
  /\ mode' = "off"
  /\ IF ret = "entry" /\ \A f \in rootFiles : Parsed(f)
     THEN /\ store' = [f \in File |-> IF f \in rootFiles THEN [store[f] EXCEPT !.base = TRUE]
                                                        ELSE store[f]]
          /\ phase' = "imports"
     ELSE ReturnFalse /\ UNCHANGED store
  /\ UNCHANGED <<world, scans, rootFiles, scopeImports, superDefs, methodDefs, reported,
                 arg, ret, stack, externalVars, remaining, iterValid, visitVars>>

\* Only for the file that is visited, not for those loaded with it.
ResolveTypeImports ==
  /\ phase = "imports"
  /\ store' = [store EXCEPT ![rootFile].imports = TRUE]
  /\ IF store[rootFile].imports \/ ~Info(rootFile).conflicts
     THEN phase' = "ids" /\ UNCHANGED reported
     ELSE ReturnFalse /\ reported' = TRUE
  /\ idErrors' = FALSE /\ newSchemes' = {}
  /\ UNCHANGED <<world, scans, rootFiles, scopeImports, superDefs, methodDefs, mode, arg,
                 ret, stack, externalVars, remaining, iterValid, rootFile, instantiated,
                 cleared, numPending, untyped>>

\* Mutant: only the visited file, as in resolve_type_imports.
UnresolvedRoot == {f \in {rootFile} : ~store[f].ids}

Unresolved == {f \in rootFiles : ~store[f].ids}

\* One root entry of the loop in resolve_type_identifiers.
ResolveIdentifiersOf(f) ==
  /\ phase = "ids" /\ f \in Unresolved
  /\ store' = [store EXCEPT ![f].ids = TRUE]
  /\ typed' = IF Info(f).ids = "lost" THEN typed
              ELSE typed \cup {ThisParse(f)} \cup methodDefs[f]
  /\ IF Info(f).ids = "ok"
     THEN /\ newSchemes' = IF Info(f).schemes THEN newSchemes \cup {f} ELSE newSchemes
          /\ UNCHANGED <<reported, idErrors>>
     ELSE reported' = TRUE /\ idErrors' = TRUE /\ UNCHANGED newSchemes
  /\ UNCHANGED <<world, scans, rootFiles, scopeImports, superDefs, methodDefs, mode, arg,
                 ret, stack, visited, resolved, keys, pending, visitedPairs, checked,
                 called, unresolved, phase, remaining, iterValid, rootFile, instantiated,
                 cleared, numPending, untyped>>

\* The rest of resolve_type_identifiers: check_for_recursive_types, then either
\* clear_function_types of all root entries or the PendingSchemes.
ResolvedIdentifiers ==
  /\ phase = "ids" /\ Unresolved = {}
  /\ IF idErrors \/ \E f \in rootFiles : Info(f).recursive
     THEN /\ reported' = TRUE
          /\ cleared' = cleared \cup {f \in rootFiles : ThisParse(f) \in typed}
          /\ ReturnFalse
          /\ UNCHANGED instantiated
     ELSE /\ instantiated' = instantiated \cup newSchemes
          /\ phase' = "constraints"
          /\ UNCHANGED <<reported, cleared>>
  /\ UNCHANGED <<world, fileState, mode, arg, ret, stack, externalVars, remaining,
                 iterValid, rootFile, idErrors, newSchemes, numPending, untyped>>

GenerateTypeConstraints ==
  /\ phase = "constraints"
  /\ store' = [f \in File |-> IF f \in rootFiles THEN [store[f] EXCEPT !.gen = TRUE]
                                                 ELSE store[f]]
  /\ phase' = "resolve"
  /\ UNCHANGED <<world, scans, rootFiles, scopeImports, superDefs, methodDefs, reported,
                 mode, arg, ret, stack, externalVars, remaining, iterValid, visitVars>>

\* Mutant: original_num_pending is set before the loop.
ResolveComparingWithStart ==
  /\ phase = "resolve"
  /\ ResolveExternalFunctions
  /\ phase' = "unify"
  /\ UNCHANGED <<loaderVars, remaining, iterValid, visitVars>>

\* unify_while_able: one iteration is a pass over the pending functions ...
Resolve ==
  /\ phase = "resolve"
  /\ numPending' = Cardinality(keys)
  /\ ResolveExternalFunctions
  /\ phase' = "unify"
  /\ UNCHANGED <<loaderVars, remaining, iterValid, rootFile, idErrors, newSchemes,
                 instantiated, cleared, untyped>>

\* ... and a call of unify, which may insert into visited_candidates ...
UnifyOne(p) ==
  /\ phase = "unify"
  /\ CheckFunction(p)
  /\ iterValid' = (iterValid /\ visited' = visited)
  /\ UNCHANGED <<loaderVars, phase, remaining, visitVars>>

\* Mutants: main does not start over; one iteration is all.
UnifiedReturningFalse ==
  /\ phase = "unify" /\ \A p \in Fn : ~CanCheck(p)
  /\ phase' = IF Cardinality(keys) # numPending THEN "resolve" ELSE "iterate"
  /\ UNCHANGED <<remaining, iterValid, loaderVars, externalVars, visitVars>>

UnifiedAtOnce ==
  /\ phase = "unify" /\ \A p \in Fn : ~CanCheck(p)
  /\ ReturnTrue
  /\ UNCHANGED <<loaderVars, externalVars, visitVars>>

\* ... until a call leaves the number of candidates with pending functions as it was.
Unified ==
  /\ phase = "unify" /\ \A p \in Fn : ~CanCheck(p)
  /\ IF Cardinality(keys) # numPending
     THEN phase' = "resolve" /\ UNCHANGED <<remaining, iterValid>>
     ELSE ReturnTrue
  /\ UNCHANGED <<loaderVars, externalVars, visitVars>>

Stopped == phase \in {"done", "exit"} /\ UNCHANGED vars

Next ==
  \/ LocateRootIdentifiers \/ VisitKnownFile \/ VisitNewFile \/ Finish
  \/ Load \/ Loaded \/ ResolveTypeImports
  \/ \E f \in File : ResolveIdentifiersOf(f)
  \/ ResolvedIdentifiers \/ GenerateTypeConstraints \/ Resolve
  \/ \E p \in Fn : UnifyOne(p)
  \/ Unified
  \/ Stopped

Spec == Init /\ [][Next]_vars

\* The program is one thread that never waits: it takes steps until it ends.
FairSpec == Spec /\ WF_vars(Next)
=============================================================================
