---------------------------- MODULE AstProperties ---------------------------
(* What a parse promises about the file it was given. *)
EXTENDS AstGenerator, KeywordCounts

Kinds == BlockKinds \cup {"scope", "attributes", "scheme", "no_scheme", "export", "non_export",
                          "namespace", "class"}

TypeOK ==
  /\ gen.status \in {"parsing", "parsed", "had_error", "crashed"}
  /\ gen.pos \in Nat \ {0}
  /\ gen.failing \in BOOLEAN
  /\ gen.visited \in Nat
  /\ \A i \in DOMAIN gen.todo :
       gen.todo[i][1] \in Methods \cup {"do", "get", "get_silently", "within", "leave", "catch", "error"}
  /\ \A k \in BlockKinds : gen.depth[k] \in Nat

Done == gen.status /= "parsing"
Parsed == gen.status = "parsed"

(* The number of objects of a kind whose destructor is still to run. *)
Held(kinds) ==
  Cardinality({i \in DOMAIN gen.todo : gen.todo[i][1] = "leave" /\ gen.todo[i][2] \in kinds})

(* Whatever fails, and wherever the loop that catches it goes on, the parser   *)
(* is as deep in blocks, scopes, attributes, schemes, exports, namespaces and  *)
(* classes as the statement it works on is nested in the file: what a failed   *)
(* statement entered is left (the helpers of ast_gen.cpp:366-402).             *)
NestingRestored ==
  LET base == IF gen.external THEN 1 ELSE 0
  IN  /\ \A k \in BlockKinds \ {"class_def"} : gen.depth[k] = Held({k})
      /\ gen.depth["class_def"] = base + Held({"class_def"})
      /\ Len(gen.scopes) = 1 + Held({"scope"})
      /\ Len(gen.attrs) = 1 + base + Held({"attributes"})
      /\ Len(gen.schemes) = 1 + Held({"scheme", "no_scheme"})
      /\ Len(gen.exports) = 1 + Held({"export", "non_export"})
      /\ Len(gen.spaces) = Held({"namespace"})
      /\ Len(gen.classes) = base + Held({"class"})

(* The state is one that the statement at hand explains, after any failure.      *)
WellNested == TypeOK /\ NestingRestored

(* An error caught by the loop of a block is not forgotten: a file that parses *)
(* has none, however far the parser went on after the first one.               *)
NoErrorForgotten == Parsed => gen.errors = {}

(* A for whose range is in parentheses has been read. *)
WrappedRangeMet(g) ==
  \E i \in 1..g.pos : /\ i < Len(tokens.list)
                      /\ tokens.list[i] \in {"for", "parfor"}
                      /\ tokens.list[i + 1] = "("

(* A parse that fails says why, with one exception: the range of a             *)
(* parenthesized for that is not closed (ast_gen.cpp:2511).                    *)
FailureReported == gen.failing /\ gen.errors = {} => WrappedRangeMet(gen)

(* The verdict on a file agrees with what was reported: it is accepted only    *)
(* without errors, and refused only with a report.                             *)
VerdictReported == NoErrorForgotten /\ FailureReported

(* A file is not read past its end, and what is entered has a token of its own. *)
WithinFile ==
  /\ gen.pos <= Len(tokens.list) + 1
  /\ gen.visited <= Len(tokens.list)
  /\ \A k \in BlockKinds : gen.depth[k] <= Len(tokens.list)

(* A file that parses was read to its end. The one case in which the rest of a *)
(* file is ignored is a function with an end in a file whose functions are     *)
(* taken to have none: the scanner and the parser disagree about that end.     *)
ReadToTheEnd ==
  /\ WithinFile
  /\ Parsed /\ Look(gen) /= "null" => Look(gen) = "end" /\ ~tokens.end_terminated

------------------------------------------------------------------------------
(* The functions of a file, as its tokens show them. *)

OpenAt(i) ==
  LET k[j \in 0..Len(tokens.list)] ==
        IF j = 0 THEN NoKeywords ELSE register_keyword(k[j - 1], tokens.list[j])
  IN  k[i - 1].types

(* f x function: what follows a name on a command's line is text. *)
CommandText(i) ==
  \E j \in 1..i - 2 :
    /\ j = 1 \/ tokens.list[j - 1] \in StatementTerminators
    /\ TypeOf(tokens.list[j]) = Identifier
    /\ TypeOf(tokens.list[j + 1]) \in Literals \cup {Identifier}
    /\ \A k \in j..i : tokens.list[k] \notin StatementTerminators

FunctionTokens == {i \in DOMAIN tokens.list : tokens.list[i] = "function" /\ ~CommandText(i)}
Nested(i) == tokens.end_terminated /\ OpenAt(i) /= <<>>

NameToken(i) ==
  LET equals == {j \in DOMAIN tokens.list : j > i /\ tokens.list[j] = "="}
      after_outputs == 1 + CHOOSE j \in equals : \A k \in equals : j <= k
  IN  CASE tokens.list[i + 1] = "[" -> after_outputs
        [] tokens.list[i + 2] = "=" -> i + 3
        [] OTHER -> i + 1

IsFirst(i) == \A j \in FunctionTokens : i <= j

DefinedName(i) ==
  IF IsFirst(i) /\ is_function_file(gen)
  THEN tokens.package \o <<tokens.list[NameToken(i)]>>
  ELSE <<tokens.list[NameToken(i)]>>

(* Every function of a file that parses is known in the scope it stands in:    *)
(* the root scope holds those that are not within another function, no more.   *)
FunctionsRegistered ==
  Parsed /\ ~HasNext(gen) /\ gen.file_type /= "class_def" =>
    Head(gen.scopes).functions = {DefinedName(i) : i \in {j \in FunctionTokens : ~Nested(j)}}

(* The function that other files reach by the name of the file is its first. *)
EntryIsFirstFunction ==
  Parsed /\ is_function_file(gen) =>
    gen.entry = DefinedName(CHOOSE i \in FunctionTokens : IsFirst(i))

(* ... which holds unless another function is nested in the first: the count   *)
(* of the functions seen is looked at after the body (ast_gen.cpp:855).        *)
EntryUnlessNested ==
  (\E i, j \in FunctionTokens : IsFirst(i) /\ j > i /\ OpenAt(j) /= <<>> /\ tokens.end_terminated
                                /\ \A k \in FunctionTokens : k <= i \/ j <= k)
  \/ EntryIsFirstFunction

(* A class that parses is the entry of its file, its name is known and its     *)
(* type known and exported, and a method that waits for a file of its own is waited for once and *)
(* has no definition in the class.                                             *)
ClassCompleted ==
  Parsed /\ gen.file_type = "class_def" =>
    LET root == Head(gen.scopes)
        waiting == gen.pending_methods
    IN  /\ gen.entry_class \in root.classes
        /\ gen.entry_class \in root.types /\ gen.entry_class \in root.exports
        /\ \A i, j \in DOMAIN waiting : waiting[i] = waiting[j] => i = j
        /\ \A f \in FunctionTokens :
             OpenAt(f) = <<"classdef", "methods">> =>
               \A i \in DOMAIN waiting : waiting[i] /= <<tokens.list[NameToken(f)]>>

(* set_file_entry_function_ref, set_file_entry_class_def: a file has one entry *)
(* (the assertions of ast_gen.cpp:333 and 339).                                *)
OneEntry == gen.asserts \cap {"file_entry_function_ref", "file_entry_class_def"} = {}

(* A file that parses has defined what other files and its scopes need of it:    *)
(* each function where it stands, one entry, and each method once.                *)
DefinitionsRegistered == FunctionsRegistered /\ EntryUnlessNested /\ ClassCompleted /\ OneEntry

(* Every parse ends, whatever the tokens: each loop that catches an error also *)
(* gets past it.                                                               *)
Terminates == <>Done

=============================================================================
