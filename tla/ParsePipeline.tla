--------------------------- MODULE ParsePipeline ---------------------------
(***************************************************************************)
(* file_entry (bin/mtype/parse_pipeline.cpp): scan and parse a file and,   *)
(* depth first, every file that it names as a superclass, as the           *)
(* definition of a declared method, or in an @T import.  The C++ recursion *)
(* is the stack; one action is one iteration of one of its loops.          *)
(*                                                                         *)
(* A file is entered into the AstStore before the files it names are       *)
(* looked at, which ends the recursion on cyclic imports, and stays there  *)
(* when one of them fails.                                                 *)
(***************************************************************************)
EXTENDS SourceFiles

VARIABLES
  world,         \* the program (never changes)
  store,         \* AstStore::asts
  scans,         \* how often each file's FileScanSuccess has been stored
  rootFiles,     \* ParsePipelineInstanceData::root_files (and roots)
  scopeImports,  \* TypeScope::imports of each file's root type scope
  superDefs,     \* the superclasses with a valid def_handle, as <<class, index>>
  methodDefs,    \* the external definitions moved into each class, as <<file, scan>>
  reported,      \* some error has been shown or recorded
  mode,          \* "off", or what file_entry does next
  arg,           \* the file of the call that is made or that returns
  ret,           \* what it returns: the AstStore entry, or nullptr
  stack          \* the calls of file_entry in progress

fileState == <<store, scans, rootFiles, scopeImports, superDefs, methodDefs>>
loaderVars == <<world, fileState, reported, mode, arg, ret, stack>>

Info(f) == world.file[f]

Entry == [status : {"absent", "failed", "parsed"}, base : BOOLEAN,
          imports : BOOLEAN, ids : BOOLEAN, gen : BOOLEAN]

\* AstStore::Entry::Entry: every flag is false.
Fresh(status) == [status |-> status, base |-> FALSE, imports |-> FALSE,
                  ids |-> FALSE, gen |-> FALSE]

Stored(f) == store[f].status # "absent"
Parsed(f) == store[f].status = "parsed"     \* root_block && parsed_successfully

\* A call of file_entry past run_parse_file: its file, the file that owns the
\* root type scope its imports go into, and its position in the current loop.
Frame == [file : File, scope : File, step : Step, i : Nat \ {0}, ok : BOOLEAN]

Top == stack[Len(stack)]
Below == SubSeq(stack, 1, Len(stack) - 1)

\* The files that the loop of t looks for, and the one of its current iteration.
NamedFiles(t) == Named(Info(t.file), t.step)

Target(t) == NamedFiles(t)[t.i]

IsClass(f) == Info(f).kind = "class"

\* A function definition in an external method is parsed in the scope of its
\* class (enter_methods_block_via_external_method); other files have their own.
ScopeOf(f) == IF stack # <<>> /\ Top.step = "methods" THEN Top.scope ELSE f

\* Locals of calls that have not been made yet.
AnyFile == CHOOSE f \in File : TRUE

LoaderInit ==
  /\ world \in Worlds
  /\ store = [f \in File |-> Fresh("absent")]
  /\ scans = [f \in File |-> 0]
  /\ rootFiles = {}
  /\ scopeImports = [f \in File |-> {}]
  /\ superDefs = {}
  /\ methodDefs = [f \in File |-> {}]
  /\ reported = FALSE
  /\ mode = "off" /\ arg = AnyFile /\ ret = "null" /\ stack = <<>>

---------------------------------------------------------------------------
(* A call of file_entry, up to its loops. *)

Return(f, result) == mode' = "return" /\ arg' = f /\ ret' = result

\* require_root: also the entry of a file that failed to parse is returned.
LookupHit ==
  /\ mode = "enter" /\ Stored(arg)
  /\ rootFiles' = rootFiles \cup {arg}
  /\ Return(arg, "entry")
  /\ UNCHANGED <<world, store, scans, scopeImports, superDefs, methodDefs, reported, stack>>

\* Mutant: the failure is not recorded in the AstStore.
ScanFailureForgotten ==
  /\ mode = "enter" /\ ~Stored(arg) /\ ~Info(arg).scans
  /\ reported' = TRUE
  /\ Return(arg, "null")
  /\ UNCHANGED <<world, fileState, stack>>

ScanFailure ==
  /\ mode = "enter" /\ ~Stored(arg) /\ ~Info(arg).scans
  /\ store' = [store EXCEPT ![arg] = Fresh("failed")]
  /\ reported' = TRUE
  /\ Return(arg, "null")
  /\ UNCHANGED <<world, scans, rootFiles, scopeImports, superDefs, methodDefs, stack>>

ParseFailure ==
  /\ mode = "enter" /\ ~Stored(arg) /\ Info(arg).scans /\ ~Info(arg).parses
  /\ scans' = [scans EXCEPT ![arg] = @ + 1]
  /\ store' = [store EXCEPT ![arg] = Fresh("failed")]
  /\ reported' = TRUE
  /\ Return(arg, "null")
  /\ UNCHANGED <<world, rootFiles, scopeImports, superDefs, methodDefs, stack>>

ParseSuccess ==
  /\ mode = "enter" /\ ~Stored(arg) /\ Info(arg).scans /\ Info(arg).parses
  /\ scans' = [scans EXCEPT ![arg] = @ + 1]
  /\ store' = [store EXCEPT ![arg] = Fresh("parsed")]
  /\ rootFiles' = rootFiles \cup {arg}
  /\ stack' = Append(stack, [file |-> arg, scope |-> ScopeOf(arg), i |-> 1, ok |-> TRUE,
                             step |-> IF IsClass(arg) THEN "supers" ELSE "pre"])
  /\ mode' = "run"
  /\ UNCHANGED <<world, scopeImports, superDefs, methodDefs, reported, arg, ret>>

---------------------------------------------------------------------------
(* The loops: traverse_superclasses, traverse_external_methods,            *)
(* traverse_pre_imports and traverse_imports go on after a failure.        *)

Advance(ok) ==
  stack' = Append(Below, [file |-> Top.file, scope |-> Top.scope, step |-> Top.step,
                          i |-> Top.i + 1, ok |-> Top.ok /\ ok])

Looping == mode = "run" /\ Top.i <= Len(NamedFiles(Top))

\* Mutant: the search result is not checked.
CallFileEntryUnchecked ==
  /\ Looping
  /\ mode' = "enter" /\ arg' = Target(Top)
  /\ UNCHANGED <<world, fileState, reported, ret, stack>>

CallFileEntry ==
  /\ Looping /\ Target(Top) # None
  /\ mode' = "enter" /\ arg' = Target(Top)
  /\ UNCHANGED <<world, fileState, reported, ret, stack>>

\* abstract_undefined_external_method
UndefinedAbstractMethod ==
  /\ Looping /\ Target(Top) = None
  /\ Top.step = "methods" /\ Info(Top.file).methods[Top.i].abstract
  /\ Advance(TRUE)
  /\ UNCHANGED <<world, fileState, reported, mode, arg, ret>>

UnresolvedFile ==
  /\ Looping /\ Target(Top) = None
  /\ ~(Top.step = "methods" /\ Info(Top.file).methods[Top.i].abstract)
  /\ Advance(FALSE)
  /\ reported' = TRUE
  /\ UNCHANGED <<world, fileState, mode, arg, ret>>

NextStep == [supers |-> "methods", methods |-> "pre", pre |-> "imports"]

\* Mutant: a visit that fails forgets what it has loaded, or found in the AstStore.
EndOfLoopRollingBack ==
  /\ mode = "run" /\ Top.i > Len(NamedFiles(Top))
  /\ IF Top.ok /\ Top.step # "imports"
     THEN /\ stack' = Append(Below, [file |-> Top.file, scope |-> Top.scope,
                                   step |-> NextStep[Top.step], i |-> 1, ok |-> Top.ok])
          /\ UNCHANGED <<store, mode, arg, ret>>
     ELSE /\ stack' = Below
          /\ Return(Top.file, IF Top.ok THEN "entry" ELSE "null")
          /\ store' = [f \in File |-> IF ~Top.ok /\ Below = <<>> /\ f \in rootFiles
                                     THEN Fresh("absent") ELSE store[f]]
  /\ UNCHANGED <<world, scans, rootFiles, scopeImports, superDefs, methodDefs, reported>>

\* A loop is over: the next one, or the end of this call of file_entry.
EndOfLoop ==
  /\ mode = "run" /\ Top.i > Len(NamedFiles(Top))
  /\ IF Top.ok /\ Top.step # "imports"
     THEN /\ stack' = Append(Below, [file |-> Top.file, scope |-> Top.scope,
                                   step |-> NextStep[Top.step], i |-> 1, ok |-> Top.ok])
          /\ UNCHANGED <<mode, arg, ret>>
     ELSE /\ stack' = Below
          /\ Return(Top.file, IF Top.ok THEN "entry" ELSE "null")
  /\ UNCHANGED <<world, fileState, reported>>

---------------------------------------------------------------------------
(* A call made by one of the loops has returned. *)

Returned(step) == mode = "return" /\ stack # <<>> /\ Top.step \in step /\ mode' = "run"

\* Mutant: the failure of a callee is not passed on.
CalleeFailedIgnored ==
  /\ Returned({"supers", "pre", "imports"})
  /\ ret = "null" \/ ~Parsed(arg)
  /\ Advance(TRUE)
  /\ UNCHANGED <<world, fileState, reported, arg, ret>>

\* The callee failed, or is the entry of an earlier failure, reported then.
CalleeFailed ==
  /\ Returned({"supers", "pre", "imports"})
  /\ ret = "null" \/ ~Parsed(arg)
  /\ Advance(FALSE)
  /\ UNCHANGED <<world, fileState, reported, arg, ret>>

RegisterSuperclass ==
  /\ Returned({"supers"}) /\ ret = "entry" /\ Parsed(arg)
  /\ IF IsClass(arg)
     THEN superDefs' = superDefs \cup {<<Top.file, Top.i>>} /\ UNCHANGED reported
     ELSE reported' = TRUE /\ UNCHANGED superDefs
  /\ Advance(IsClass(arg))
  /\ UNCHANGED <<world, store, scans, rootFiles, scopeImports, methodDefs, arg, ret>>

AddImport ==
  /\ Returned({"pre", "imports"}) /\ ret = "entry" /\ Parsed(arg)
  /\ scopeImports' = [scopeImports EXCEPT ![Top.scope] = @ \cup {arg}]
  /\ Advance(TRUE)
  /\ UNCHANGED <<world, store, scans, rootFiles, superDefs, methodDefs, reported, arg, ret>>

\* Mutant: no error when the file is no function file.
NoMethodFileSilent ==
  /\ Returned({"methods"})
  /\ ret = "null" \/ ~Parsed(arg) \/ Info(arg).kind # "function"
  /\ Advance(FALSE)
  /\ UNCHANGED <<world, fileState, reported, arg, ret>>

\* defined_external_method, when there is no function file to extract from.
NoMethodFile ==
  /\ Returned({"methods"})
  /\ ret = "null" \/ ~Parsed(arg) \/ Info(arg).kind # "function"
  /\ reported' = (reported \/ ret = "entry")
  /\ Advance(FALSE)
  /\ UNCHANGED <<world, fileState, arg, ret>>

\* Mutant: the entry of the method's file is not erased.
ExtractMethodForgettingNothing ==
  /\ Returned({"methods"})
  /\ ret = "entry" /\ Parsed(arg) /\ Info(arg).kind = "function"
  /\ LET extracts == Info(Top.file).methods[Top.i].extracts IN
       /\ methodDefs' = IF extracts
                        THEN [methodDefs EXCEPT ![Top.file] = @ \cup {<<arg, scans[arg]>>}]
                        ELSE methodDefs
       /\ reported' = (reported \/ ~extracts)
       /\ Advance(extracts)
  /\ UNCHANGED <<world, store, scans, rootFiles, scopeImports, superDefs, arg, ret>>

\* extract_external_method and remove_root: the definition moves to the class,
\* and its file is forgotten whether or not that succeeds.
ExtractMethod ==
  /\ Returned({"methods"})
  /\ ret = "entry" /\ Parsed(arg) /\ Info(arg).kind = "function"
  /\ store' = [store EXCEPT ![arg] = Fresh("absent")]
  /\ rootFiles' = rootFiles \ {arg}
  /\ LET extracts == Info(Top.file).methods[Top.i].extracts IN
       /\ methodDefs' = IF extracts
                        THEN [methodDefs EXCEPT ![Top.file] = @ \cup {<<arg, scans[arg]>>}]
                        ELSE methodDefs
       /\ reported' = (reported \/ ~extracts)
       /\ Advance(extracts)
  /\ UNCHANGED <<world, scans, scopeImports, superDefs, arg, ret>>

FileEntryStep ==
  \/ LookupHit \/ ScanFailure \/ ParseFailure \/ ParseSuccess
  \/ CallFileEntry \/ UndefinedAbstractMethod \/ UnresolvedFile \/ EndOfLoop
  \/ CalleeFailed \/ RegisterSuperclass \/ AddImport \/ NoMethodFile \/ ExtractMethod
=============================================================================
