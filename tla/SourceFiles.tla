---------------------------- MODULE SourceFiles ----------------------------
(***************************************************************************)
(* What the type checker can find out about the program it is run on: the  *)
(* files, what scanning and parsing each of them yields, and the external  *)
(* function calls its functions make.  Nothing here ever changes; a world  *)
(* is one such program, and the specifications that extend this module    *)
(* start in any world of the set Worlds.                                   *)
(***************************************************************************)
EXTENDS Naturals, Sequences, FiniteSets

CONSTANTS
  File,        \* the paths of .m files
  None,        \* a name that the search path resolves to no file
  Cand,        \* FunctionSearchCandidates: a search result and a function name
  CandFile,    \* candidate.resolved_file->defining_file, for each candidate
  Fn,          \* applications and abstractions that name a function
  PreImports,  \* the files that the -pi arguments name, imported by every file
  Worlds       \* the programs considered

FileOrNone == File \cup {None}

Kind == {"script", "function", "class"}

\* One entry of pending_external_methods: the file of the class directory that
\* should define it (None if there is no such file), whether it is declared
\* Abstract, and whether extract_external_method finds its definition there.
Method == [file : FileOrNone, abstract : BOOLEAN, extracts : BOOLEAN]

(***************************************************************************)
(* scans     the file can be read, is UTF-8, scans, and takes delimiters   *)
(* parses    AstGenerator and IdentifierClassifier report no error         *)
(* supers, methods, imports   what the parse leaves in the ParseInstance   *)
(* defines   candidates whose function name the file makes accessible      *)
(* conflicts its type imports define the same identifier twice             *)
(* ids       type identifiers: all resolve; or some do not, and the types  *)
(*           of its accessible functions are "kept" or "lost" with them    *)
(* recursive a type it declares refers to itself                           *)
(* schemes   it applies type schemes, which become PendingSchemes          *)
(***************************************************************************)
FileInfo ==
  [scans : BOOLEAN, parses : BOOLEAN, kind : Kind,
   supers : Seq(FileOrNone), methods : Seq(Method), imports : Seq(FileOrNone),
   defines : SUBSET Cand, conflicts : BOOLEAN, ids : {"ok", "kept", "lost"},
   recursive : BOOLEAN, schemes : BOOLEAN]

\* The loops of file_entry, and the files that each of them looks for, in order.
Step == {"supers", "methods", "pre", "imports"}

Named(info, step) ==
  [supers  |-> info.supers,
   methods |-> [j \in DOMAIN info.methods |-> info.methods[j].file],
   pre     |-> PreImports,
   imports |-> info.imports][step]

\* A function call (or handle) in a function of owner: the candidate that the
\* search finds for it (None: no such function), the calls whose results its
\* arguments are made of, and whether the parameter types of the function it
\* appears in depend on it.
CallInfo == [owner : File, cand : Cand \cup {None}, needs : SUBSET Fn, typing : BOOLEAN]

World == [file : [File -> FileInfo], call : [Fn -> CallInfo]]

ASSUME FileAssumption == File # {}
\* A search path has finitely many files, and a program names finitely many functions.
ASSUME CandAssumption == IsFiniteSet(Cand)
ASSUME NamesAssumption == None \notin File /\ None \notin Cand /\ CandFile \in [Cand -> File]
ASSUME PreImportsAssumption == PreImports \in Seq(FileOrNone)
ASSUME WorldsAssumption == Worlds \subseteq World

\* Nothing names the file m but the declaration of method i of f.
NamedOnlyBy(w, m, f, i) ==
  /\ \A c \in Cand : CandFile[c] # m
  /\ \A j \in DOMAIN PreImports : PreImports[j] # m
  /\ \A g \in File :
       /\ \A j \in DOMAIN w.file[g].supers : w.file[g].supers[j] # m
       /\ \A j \in DOMAIN w.file[g].imports : w.file[g].imports[j] # m
       /\ \A j \in DOMAIN w.file[g].methods : w.file[g].methods[j].file = m => g = f /\ j = i

\* The class directory of a class is not on the search path but for the class
\* itself (search_path.cpp:59-68), so the files that define its methods are named
\* by nothing but its declarations.  This holds of every class in an @-directory;
\* a class file outside of one may declare methods too, and nothing keeps the
\* files beside it from being found by name.
MethodFilesApart(w) ==
  \A f \in File : \A i \in DOMAIN w.file[f].methods :
    w.file[f].methods[i].file # None => NamedOnlyBy(w, w.file[f].methods[i].file, f, i)
=============================================================================
