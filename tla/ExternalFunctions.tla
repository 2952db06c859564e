------------------------- MODULE ExternalFunctions -------------------------
(***************************************************************************)
(* PendingExternalFunctions, the steps of the unifier that add to it       *)
(* (Unifier::search_function, check_application, check_abstraction), and   *)
(* resolve_external_functions (bin/mtype/external_resolution.cpp), which   *)
(* gives pending functions the types that loaded files turn out to have.   *)
(*                                                                         *)
(* Of unification only the dataflow is kept: a call can be looked up when  *)
(* the calls that its arguments are made of have a type.                   *)
(***************************************************************************)
EXTENDS ParsePipeline

VARIABLES
  typed,         \* Library::local_function_types: the parses whose functions have a type
  visited,       \* PendingExternalFunctions::visited_candidates
  resolved,      \* PendingExternalFunctions::resolved_candidates
  keys,          \* the keys of PendingExternalFunctions::pending_functions
  pending,       \* and the functions under each of them
  visitedPairs,  \* App::visited_resolution_pairs
  checked,       \* Unifier::registered_funcs
  called,        \* the functions that have been given the type of their callee
  unresolved     \* the functions with an unresolved-function error

externalVars ==
  <<typed, visited, resolved, keys, pending, visitedPairs, checked, called, unresolved>>

Call(p) == world.call[p]

ThisParse(f) == <<f, scans[f]>>

\* find_search_handle: the file has a function, constructor or static method of
\* the candidate's name.
HasHandle(c) == c \in Info(CandFile[c]).defines

\* Library::lookup_local_function
HasType(c) == ThisParse(CandFile[c]) \in typed

\* Constraints have been generated for the functions in f; those of an external
\* method belong to the class that it was moved into.
Analysed(f) ==
  \/ store[f].gen
  \/ \E g \in File : store[g].gen /\ ThisParse(f) \in methodDefs[g]

ExternalInit ==
  /\ typed = {} /\ visited = {} /\ resolved = {} /\ keys = {}
  /\ pending = [c \in Cand |-> {}]
  /\ visitedPairs = {} /\ checked = {} /\ called = {} /\ unresolved = {}

\* Mutant: the functions stay pending.
ResolveKeepingPending ==
  LET ready == {c \in keys : Parsed(CandFile[c]) /\ HasHandle(c) /\ HasType(c)}
      pairs == (UNION {{c} \X pending[c] : c \in ready}) \ visitedPairs
  IN /\ resolved' = resolved \cup ready
     /\ visitedPairs' = visitedPairs \cup pairs
     /\ called' = called \cup {pair[2] : pair \in pairs}
     /\ UNCHANGED <<typed, visited, keys, pending, checked, unresolved>>

\* One pass over pending_functions.  A file that is not loaded, or that has not
\* registered the function's type, leaves its candidate for a later pass.
ResolveExternalFunctions ==
  LET loaded  == {c \in keys : Parsed(CandFile[c])}
      missing == {c \in loaded : ~HasHandle(c)}
      ready   == {c \in loaded : HasHandle(c) /\ HasType(c)}
      pairs   == (UNION {{c} \X pending[c] : c \in ready}) \ visitedPairs
  IN /\ resolved' = resolved \cup ready
     /\ visitedPairs' = visitedPairs \cup pairs
     /\ called' = called \cup {pair[2] : pair \in pairs}
     /\ unresolved' = unresolved \cup UNION {pending[c] : c \in missing}
     /\ pending' = [c \in Cand |-> IF c \in missing \cup ready THEN {} ELSE pending[c]]
     /\ UNCHANGED <<typed, visited, keys, checked>>

\* The guards of check_application and check_abstraction: not looked up before,
\* and the arguments are concrete.
CanCheck(p) == p \notin checked /\ Analysed(Call(p).owner) /\ Call(p).needs \subseteq called

CheckFunction(p) ==
  /\ CanCheck(p)
  /\ checked' = checked \cup {p}
  /\ LET c == Call(p).cand IN
       \/ /\ c = None
          /\ unresolved' = unresolved \cup {p}
          /\ UNCHANGED <<visited, called, keys, pending>>
       \/ /\ c \in resolved
          /\ visited' = visited \cup {c}
          /\ called' = called \cup {p}
          /\ UNCHANGED <<keys, pending, unresolved>>
       \/ /\ c \in Cand \ resolved
          /\ visited' = visited \cup {c}
          /\ keys' = keys \cup {c}
          /\ pending' = [pending EXCEPT ![c] = @ \cup {p}]
          /\ UNCHANGED <<called, unresolved>>
  /\ UNCHANGED <<typed, resolved, visitedPairs>>
=============================================================================
