--------------------- MODULE IdentifierClassifierProperties ---------------------
(* What the classification of a file must be, said in terms of what every path *)
(* of the program has assigned.                                                 *)
EXTENDS IdentifierClassifier

Framed(kinds) == {i \in DOMAIN frames : frames[i].kind \in kinds}

(* The file, the bodies of functions and the anonymous functions have scopes. *)
Delimiting == {"root", "body", "anonymous"}
OwnFrames == Max(Framed(Delimiting))
Within(kinds) == Cardinality({i \in Framed(kinds) : i >= OwnFrames})

TypeOK ==
  /\ Len(scopes) = Cardinality(Framed(Delimiting))
  /\ \A i \in DOMAIN scopes :
       LET scope == scopes[i]
       IN  /\ scope.scope_depth = i - 1
           /\ \A d \in DOMAIN scope.contexts : scope.contexts[d].depth = d /\ scope.contexts[d].uuid < scope.context_uuid
           /\ \A id \in DOMAIN scope.classified :
                scope.classified[id].type \in {"variable", "local_function", "external_function"}
  /\ Len(current.contexts) = 1 + Within({"block", "body"})
  /\ Len(current.assignment_contexts) = Within({"if", "switch", "try"})
  /\ \A a \in DOMAIN current.assignment_contexts :
       DOMAIN current.assignment_contexts[a].assigned \subseteq DOMAIN current.classified

(* The variable at hand is one of the scope it is read in, not one that a      *)
(* scope around it has or handed down.                                          *)
OwnVariable == node.kind = "variable" /\ node.id \in DOMAIN current.local_variables

(* A variable that some path to the reference has not assigned is reported     *)
(* (register_identifier_reference): a promotion out of branches one of which    *)
(* does not assign it, or a context mistaken for another, would hide it.        *)
NoMissedWarning == OwnVariable /\ node.id \notin current.sure => node.id \in current.reported

(* Where no branch or loop is within another, a variable that all paths have   *)
(* assigned is not taken for one that might not be                              *)
(* (pop_variable_assignment_context).                                            *)
NoSpuriousWarning == OwnVariable /\ node.id \in current.sure /\ current.flat => node.success

(* An identifier a scope assigns to and calls is reported: the two uses may be *)
(* any distance and any number of constructs apart, and imports and local       *)
(* functions count as functions (register_variable_assignment,                   *)
(* function_reference_expr).                                                     *)
ConsistentUse ==
  \A i \in DOMAIN scopes : scopes[i].assigned \cap scopes[i].called \subseteq scopes[i].reported

(* What the classifier takes an identifier for is what the scopes of the parser *)
(* find for it later on, from every scope (lookup_local_variable).               *)
LookupAgrees ==
  \A i \in DOMAIN scopes : \A id \in DOMAIN scopes[i].classified :
    is_variable(scopes[i].classified[id]) =>
      lookup_local_variable(scopes, i, id) = scopes[i].classified[id].handle

(* A function within another shares the variables the other has, its           *)
(* parameters excepted: it makes a definition of its own for no other.           *)
NestedShare ==
  \A i \in DOMAIN scopes : \A id \in DOMAIN scopes[i].local_variables \ scopes[i].parameters :
    ~is_variable(lookup_variable(scopes, i - 1, id))

(* The classifier and the scopes of the parser agree on every variable, across   *)
(* functions within functions, and contexts are left as they were entered.        *)
ScopesAgree == TypeOK /\ LookupAgrees /\ NestedShare

(* What an identifier is in a scope is settled by its first use: neither its    *)
(* kind nor its definition changes while the scope is open.                      *)
Settled(i, id) == <<scopes[i].classified[id].type, scopes[i].classified[id].handle>>
ClassificationStable ==
  [][\A i \in DOMAIN scopes \cap DOMAIN scopes' : \A id \in DOMAIN scopes[i].classified :
        /\ id \in DOMAIN scopes'[i].classified
        /\ <<scopes'[i].classified[id].type, scopes'[i].classified[id].handle>> = Settled(i, id)]_vars

(* A function takes the place of a variable around it only if it is local to    *)
(* the scope: "No local function in the current scope, so it inherits the usage *)
(* from the parent." (identifier_classification.cpp)                             *)
InheritsUsage ==
  node.kind = "variable" /\ errors = {} => node.handle[1] = "variable"
================================================================================
