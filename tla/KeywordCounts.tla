--------------------------- MODULE KeywordCounts ----------------------------
(* EndTerminatedKeywordCounts (scan.hpp): the keywords of a file that wait for *)
(* their end, innermost last. A count of the C++ map is how often its keyword  *)
(* is in the stack; `seen` are the keys the map has.                           *)
EXTENDS Integers, Sequences

classdef_keywords == {"methods", "properties", "events", "enumeration"}

is_end_terminated ==
  {"classdef", "if", "for", "function", "parfor", "spmd", "switch", "try", "while"}
    \cup classdef_keywords

NoKeywords == [types |-> <<>>, seen |-> {}, extraneous |-> FALSE]

parent_is_classdef(k) == k.types /= <<>> /\ k.types[Len(k.types)] = "classdef"

pop_keyword(k) ==
  IF k.types = <<>>
  THEN [k EXCEPT !.extraneous = TRUE]
  ELSE [k EXCEPT !.types = SubSeq(@, 1, Len(@) - 1)]

register_keyword(k, type) ==
  CASE type = "end" -> pop_keyword(k)
    [] type \in is_end_terminated -> [k EXCEPT !.types = Append(@, type), !.seen = @ \cup {type}]
    [] OTHER -> k

(* Only functions are left open. *)
is_non_end_terminated_function_file(k) ==
  /\ "function" \in k.seen
  /\ k.types /= <<>>
  /\ \A i \in DOMAIN k.types : k.types[i] = "function"

=============================================================================
