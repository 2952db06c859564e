------------------------- MODULE IdentifierClassifier -------------------------
(* Which identifiers of a file are variables and which are functions           *)
(* (mt/parse/identifier_classification.cpp).  The classifier walks the syntax  *)
(* tree of a parsed file; the model makes the tree up while it is walked: each *)
(* step is the visit of one node, and any program within a bound may come.      *)
EXTENDS Integers, Sequences, SequencesExt, FiniteSets, FiniteSetsExt

CONSTANT Bounds   \* what programs are made of; see WithinBounds

VARIABLES
  program,    \* the bound of the program
  scopes,     \* the scopes open, the file's first
  frames,     \* the constructs open, outermost first
  variables,  \* how many variable definitions the store holds
  errors,     \* the errors reported
  node,       \* what the visit made of the identifier it was at
  visits      \* the nodes visited

vars == <<program, scopes, frames, variables, errors, node, visits>>

(* The nodes of a program, how many there may be, how deep they may be nested   *)
(* and how many blocks a construct may have,                                    *)
(* its identifiers, the local functions of the file, and what functions there   *)
(* may be: the functions within them, their imports and their parameters.       *)
Kinds == {"reference", "member", "brace", "handle", "superclass", "anonymous", "assign", "implicit",
          "declare", "if", "switch", "try", "while", "for", "catch", "function"}
WithinBounds ==
  \A bound \in Bounds :
    /\ bound.nodes \subseteq Kinds /\ bound.length \in Nat /\ bound.depth \in Nat /\ bound.blocks \in Nat
    /\ IsFiniteSet(bound.names)
    /\ bound.functions \subseteq bound.names /\ bound.imports \subseteq bound.names
    /\ \A signature \in bound.signatures :
         UNION {signature.functions, signature.imports, signature.parameters} \subseteq bound.names
ASSUME BoundsAssumption == WithinBounds

(* An identifier is the sequence of its components. *)
Id(x) == <<x>>
Member(x) == <<x, "member">>
Package(x) == <<"package", x>>
is_compound(id) == Len(id) > 1

None == <<"none">>
NoInfo == [type |-> "unknown"]
NoNode == [kind |-> "none"]
is_variable(info) == info.type = "variable"
is_function(info) == info.type \in {"local_function", "external_function"}

------------------------------------------------------------------------------
(* Scopes.  A scope of the classifier and the scope the parser made for the    *)
(* same function are one record: local_functions, imports and local_variables  *)
(* belong to the latter.  The history of a scope is in parameters, sure,        *)
(* assigned, called and flat: what its parameters are, what every path to here  *)
(* has assigned, what the program assigned to, refused or not, and called so    *)
(* far, and whether no if, switch, try or loop was within another.               *)

current == Last(scopes)

Context(scope, depth) == scope.contexts[depth]
current_context(scope) == Last(scope.contexts)
current_context_depth(scope) == Len(scope.contexts)

push_context(scope) ==
  LET uuid == scope.context_uuid
      context == [depth |-> Len(scope.contexts) + 1, scope_depth |-> scope.scope_depth, uuid |-> uuid]
      pushed == [scope EXCEPT !.context_uuid = uuid + 1, !.contexts = Append(@, context)]
  IN  IF scope.assignment_contexts = <<>> THEN pushed
      ELSE [pushed EXCEPT !.assignment_contexts[Len(scope.assignment_contexts)].children = @ \cup {uuid}]

pop_context(scope) == [scope EXCEPT !.contexts = Front(@)]

NewScope(depth, functions, imports) ==
  push_context(
    [scope_depth |-> depth, local_functions |-> functions, imports |-> imports,
     classified |-> << >>, local_variables |-> << >>, contexts |-> << >>, context_uuid |-> 0,
     assignment_contexts |-> << >>, reported |-> {},
     parameters |-> {}, sure |-> {}, assigned |-> {}, called |-> {}, flat |-> TRUE])

(* The scopes at and around the i-th, from the inside out. *)
lookup_variable(open, i, id) ==
  LET holders == {j \in 1..i : id \in DOMAIN open[j].classified}
  IN  IF holders = {} THEN NoInfo ELSE open[Max(holders)].classified[id]

lookup_local_function(open, i, id) ==
  LET holders == {j \in 1..i : id \in open[j].local_functions}
  IN  IF holders = {} THEN None ELSE <<"local", id, Max(holders)>>

lookup_local_variable(open, i, id) ==
  LET holders == {j \in 1..i : id \in DOMAIN open[j].local_variables}
  IN  IF holders = {} THEN None ELSE open[Max(holders)].local_variables[id]

has_variable(id) == is_variable(lookup_variable(scopes, Len(scopes), id))

------------------------------------------------------------------------------
(* Contexts of assignment: one for each if, switch and try that is open. *)

register_assignment(assigned, ids, uuid) ==
  [id \in DOMAIN assigned \cup ids |->
     (IF id \in DOMAIN assigned THEN assigned[id] ELSE {}) \cup (IF id \in ids THEN {uuid} ELSE {})]

RegisterAssigned(scope, ids) ==
  IF scope.assignment_contexts = <<>> THEN scope
  ELSE [scope EXCEPT !.assignment_contexts[Len(scope.assignment_contexts)].assigned =
          register_assignment(@, ids, current_context(scope).uuid)]

push_variable_assignment_context(scope) ==
  [scope EXCEPT !.assignment_contexts = Append(@, [children |-> {}, assigned |-> << >>])]

Promotable(assignment_context) ==
  {id \in DOMAIN assignment_context.assigned : assignment_context.children \subseteq assignment_context.assigned[id]}

PopPromoting(scope, promoted) ==
  RegisterAssigned([scope EXCEPT !.assignment_contexts = Front(@),
                                 !.classified = [id \in DOMAIN @ |->
                                    IF id \in promoted THEN [@[id] EXCEPT !.context = current_context(scope)] ELSE @[id]]],
                   promoted)

(* Mutant: what some of the branches assign is taken for assigned. *)
pop_variable_assignment_context_Any(scope) ==
  PopPromoting(scope, DOMAIN Last(scope.assignment_contexts).assigned)

(* Mutant: what all branches assign stays theirs. *)
pop_variable_assignment_context_None(scope) == [scope EXCEPT !.assignment_contexts = Front(@)]

pop_variable_assignment_context(scope) == PopPromoting(scope, Promotable(Last(scope.assignment_contexts)))

------------------------------------------------------------------------------
(* Assignments. *)

VariableInfo(id, scope, handle) ==
  [type |-> "variable", source |-> id, context |-> current_context(scope), handle |-> handle]

Bind(f, id, value) == [i \in DOMAIN f \cup {id} |-> IF i = id THEN value ELSE f[i]]

Classify(scope, id, info) == [scope EXCEPT !.classified = Bind(@, id, info)]

(* Mutant: every scope has its own variables. *)
Shares_Never(inherited, is_parameter) == FALSE

(* The identifier is new to the scope: a variable of a scope around it is      *)
(* shared, unless the identifier is a parameter.                                *)
Shares(inherited, is_parameter) == is_variable(inherited) /\ ~is_parameter

NewVariable(open, made, id, is_parameter) ==
  LET scope == Last(open)
      inherited == lookup_variable(open, Len(open) - 1, id)
  IN  IF Shares(inherited, is_parameter)
      THEN [scope |-> Classify(scope, id, [inherited EXCEPT !.context = current_context(scope)]),
            success |-> TRUE, was_initialization |-> FALSE]
      ELSE LET handle == <<"variable", made + 1>>
           IN  [scope |-> RegisterAssigned([Classify(scope, id, VariableInfo(id, scope, handle))
                                              EXCEPT !.local_variables = Bind(@, id, handle)], {id}),
                success |-> TRUE, was_initialization |-> TRUE]

(* Mutant: a function of any kind may be assigned to. *)
OldVariable_Any(scope, id) ==
  [scope |-> RegisterAssigned(scope, {id}), success |-> TRUE, was_initialization |-> FALSE]

(* The identifier is known: the least nested of its assignments counts. *)
OldVariable(scope, id) ==
  LET info == scope.classified[id]
  IN  IF ~is_variable(info) THEN [scope |-> scope, success |-> FALSE, was_initialization |-> FALSE]
      ELSE [scope |-> RegisterAssigned(
                        IF current_context_depth(scope) <= info.context.depth
                        THEN [scope EXCEPT !.classified[id].context = current_context(scope)] ELSE scope, {id}),
            success |-> TRUE, was_initialization |-> FALSE]

register_variable_assignment(open, made, id, is_parameter) ==
  LET result == IF id \in DOMAIN Last(open).classified
                THEN OldVariable(Last(open), id) ELSE NewVariable(open, made, id, is_parameter)
  IN  IF result.success THEN [result EXCEPT !.scope.sure = @ \cup {id}] ELSE result

------------------------------------------------------------------------------
(* References. *)

(* A variable may be read where the context it was assigned in is still open,  *)
(* or no context is open as deep and a scope around this one assigned it.       *)
Visible(scope, context) ==
  IF context.depth <= current_context_depth(scope)
  THEN Context(scope, context.depth).uuid = context.uuid
  ELSE context.scope_depth < current_context(scope).scope_depth

ExternalInfo(open, id) ==
  [type |-> "external_function", source |-> id, context |-> current_context(Last(open)),
   handle |-> <<"external", id, Len(open)>>]

FunctionInfo(open, id) ==
  LET function == lookup_local_function(open, Len(open), id)
  IN  IF function = None THEN ExternalInfo(open, id)
      ELSE [type |-> "local_function", source |-> id, context |-> current_context(Last(open)), handle |-> function]

(* Mutant: a local function takes the place of what the identifier was before. *)
Inherits_NoFunction(open, id, inherited) ==
  inherited /= NoInfo /\ lookup_local_function(open, Len(open), id) = None

Inherits(open, id, inherited) ==
  inherited /= NoInfo /\ (id \in DOMAIN Last(open).classified \/ lookup_local_function(open, Len(open), id) = None)

(* The function with the scope that classified the identifier, if it had to,   *)
(* whether the reference is sound, and what the reference is to.                *)
register_identifier_reference(open, id) ==
  LET inherited == lookup_variable(open, Len(open), id)
      info == IF Inherits(open, id, inherited) THEN inherited ELSE FunctionInfo(open, id)
      again == info.type = "external_function" /\ Inherits(open, id, inherited) /\ ~is_compound(info.source)
  IN  [scope |-> Classify(Last(open), id, info),
       success |-> is_variable(info) => Visible(Last(open), info.context),
       info |-> IF again THEN ExternalInfo(open, id) ELSE info]

register_fully_qualified_import(open, x) ==
  LET scope == Last(open)
      inherited == lookup_variable(open, Len(open), Package(x))
  IN  IF Id(x) \in DOMAIN scope.classified
      THEN [scope |-> scope, success |-> FALSE]
      ELSE [scope |-> Classify(scope, Id(x),
                        IF inherited.type = "external_function" THEN inherited ELSE ExternalInfo(open, Package(x))),
            success |-> TRUE]

------------------------------------------------------------------------------
(* Errors.  An identifier is reported once in a scope, be it an error or a     *)
(* warning.                                                                     *)

Report(scope, id) == [scope EXCEPT !.reported = @ \cup {id}]
IfNew(scope, id, kind) == IF id \in scope.reported THEN {} ELSE {[kind |-> kind, id |-> id]}

Update(scope) == scopes' = [scopes EXCEPT ![Len(scopes)] = scope]

(* An assignment the program makes to an identifier, and the errors due to it. *)
Assigned(open, made, x, is_parameter) ==
  LET result == register_variable_assignment(open, made, Id(x), is_parameter)
      scope == IF result.success THEN result.scope ELSE Report(result.scope, Id(x))
  IN  [scope |-> [scope EXCEPT !.assigned = @ \cup {Id(x)}],
       errors |-> IF result.success THEN {} ELSE IfNew(result.scope, Id(x), "assignment_to_function"),
       made |-> IF result.was_initialization THEN made + 1 ELSE made,
       was_initialization |-> result.was_initialization]

------------------------------------------------------------------------------
(* The constructs that are open.  "sure" is what every path of the scope has   *)
(* assigned by now; a construct with branches keeps what was sure before it and *)
(* what is sure at the ends of all its branches so far.                         *)

top == Last(frames)

Visit(kind) == kind \in program.nodes /\ visits < program.length /\ visits' = visits + 1 /\ UNCHANGED program
Unvisited == UNCHANGED <<program, visits>>
Open(frame) == Len(frames) < program.depth /\ frames' = Append(frames, frame)

Branching == {"if", "switch", "try", "loop"}
IsBlock(frame) == frame.kind \in {"block", "body", "root"}
InStatements == IsBlock(top) /\ ~top.defining
InExpression == InStatements \/ top.kind = "anonymous" \/ (top.kind \in Branching /\ top.condition)

Enclosed == \E i \in DOMAIN frames :
  frames[i].kind \in Branching /\ \A j \in i..Len(frames) : frames[j].kind \in Branching \cup {"block"}
Nesting(scope) == [scope EXCEPT !.flat = @ /\ ~Enclosed]

Block(kind, pending) == [kind |-> kind, pending |-> pending, defining |-> FALSE]
Branches(kind) ==
  [kind |-> kind, blocks |-> 0, last |-> FALSE, condition |-> kind /= "try",
   before |-> current.sure, ends |-> {}, named |-> {}]

------------------------------------------------------------------------------
(* Visits of expressions. *)

(* Only parentheses may follow the name of a function. *)
check_function_reference_subscript(kind) == kind /= "brace"

Warned(result, id) == IF result.success THEN result.scope ELSE Report(result.scope, id)

(* A reference to a variable with any subscript, or the call of a function.    *)
(* The kind says what is behind the name: nothing or parentheses, .member and   *)
(* nothing or parentheses, or braces.                                           *)
Reference(x, kind) ==
  /\ InExpression /\ Visit(kind)
  /\ \E first \in {register_identifier_reference(scopes, Id(x))} :
       LET was_variable == has_variable(Id(x))
           warned == Warned(first, Id(x))
           compound == kind = "member" /\ ~was_variable
           open == [scopes EXCEPT ![Len(scopes)] = warned]
           second == register_identifier_reference(open, Member(x))
           function == IF compound THEN second ELSE first
           scope == IF compound THEN second.scope ELSE warned
           refused == ~was_variable /\ ~check_function_reference_subscript(kind)
       IN  /\ Update(IF was_variable THEN scope ELSE [scope EXCEPT !.called = @ \cup {Id(x)}])
           /\ errors' = errors \cup IF refused THEN {[kind |-> "subscript_of_function", id |-> Id(x)]} ELSE {}
           /\ node' = [kind |-> IF was_variable \/ refused THEN "variable" ELSE "call", id |-> Id(x),
                       handle |-> IF was_variable \/ refused THEN first.info.handle ELSE function.info.handle,
                       success |-> first.success]
  /\ UNCHANGED <<frames, variables>>

(* @x *)
FunctionReference(x) ==
  /\ InExpression /\ Visit("handle")
  /\ \E result \in {register_identifier_reference(scopes, Id(x))} :
       IF is_function(result.info)
       THEN /\ Update([result.scope EXCEPT !.called = @ \cup {Id(x)}])
            /\ node' = [kind |-> "handle", id |-> Id(x), handle |-> result.info.handle, success |-> TRUE]
            /\ UNCHANGED errors
       ELSE /\ errors' = errors \cup IfNew(current, Id(x), "handle_of_variable")
            /\ Update(Report(result.scope, Id(x)))
            /\ node' = [kind |-> "handle", id |-> Id(x), handle |-> None, success |-> FALSE]
  /\ UNCHANGED <<frames, variables>>

(* A call method@Super(..) is not classified: it refers to a function of that  *)
(* name. With braces it is refused and left as it is.                           *)
SuperclassMethod(x, kind) ==
  /\ InExpression /\ Visit("superclass")
  /\ IF check_function_reference_subscript(kind)
     THEN /\ node' = [kind |-> "call", id |-> Id(x), handle |-> <<"external", Id(x), Len(scopes)>>, success |-> TRUE]
          /\ UNCHANGED errors
     ELSE /\ errors' = errors \cup {[kind |-> "subscript_of_function", id |-> Id(x)]}
          /\ node' = NoNode
  /\ UNCHANGED <<scopes, frames, variables>>

(* Parameters are new variables of the scope, whatever is around it. *)
Parameter(x, entered) ==
  LET result == Assigned(entered.open, entered.made, x, TRUE)
      scope == [result.scope EXCEPT !.parameters = @ \cup {Id(x)}]
  IN  [open |-> [entered.open EXCEPT ![Len(entered.open)] = scope],
       errors |-> entered.errors \cup result.errors, made |-> result.made]

Parameters(entered, names) == FoldSet(Parameter, entered, names)

(* @(names) expression: its scope has no context of its own for the body. *)
AnonymousFunction(names) ==
  /\ InExpression /\ Visit("anonymous")
  /\ \E result \in {Parameters([open |-> Append(scopes, NewScope(Len(scopes), {}, {})),
                               errors |-> errors, made |-> variables], names)} :
       scopes' = result.open /\ variables' = result.made /\ errors' = result.errors
  /\ Open([kind |-> "anonymous"])
  /\ node' = NoNode

EndAnonymousFunction ==
  /\ top.kind = "anonymous"
  /\ scopes' = Front(scopes) /\ frames' = Front(frames) /\ node' = NoNode
  /\ UNCHANGED <<variables, errors>> /\ Unvisited

------------------------------------------------------------------------------
(* Visits of statements. *)

(* x = .. and x(..) = ..: the right side and the subscripts are visits of       *)
(* their own, before and after this one.                                        *)
Assign(x, subscripted) ==
  /\ InStatements /\ Visit(IF subscripted THEN "implicit" ELSE "assign")
  /\ \E result \in {Assigned(scopes, variables, x, FALSE)} :
       LET implicit == subscripted /\ result.was_initialization
       IN  /\ Update(IF implicit THEN Report(result.scope, Id(x)) ELSE result.scope)
           /\ errors' = errors \cup result.errors
                          \cup IF implicit THEN IfNew(result.scope, Id(x), "implicit_initialization") ELSE {}
           /\ variables' = result.made
  /\ node' = NoNode /\ UNCHANGED frames

(* global x, persistent x *)
VariableDeclaration(x) ==
  /\ InStatements /\ Visit("declare")
  /\ \E result \in {Assigned(scopes, variables, x, FALSE)} :
       /\ Update(result.scope)
       /\ errors' = errors \cup result.errors
                      \cup IF result.was_initialization THEN {} ELSE {[kind |-> "late_declaration", id |-> Id(x)]}
       /\ variables' = result.made
  /\ node' = NoNode /\ UNCHANGED frames

(* The head of an if, a switch or a try, and of a while. *)
OpenBranches(kind) ==
  /\ InStatements /\ Visit(IF kind = "loop" THEN "while" ELSE kind)
  /\ Open(Branches(kind))
  /\ Update(Nesting(IF kind = "loop" THEN current ELSE push_variable_assignment_context(current)))
  /\ node' = NoNode /\ UNCHANGED <<variables, errors>>

(* for x = ..: the variable is assigned before the expression is visited. *)
OpenFor(x) ==
  /\ InStatements /\ Visit("for")
  /\ \E result \in {Assigned(scopes, variables, x, FALSE)} :
       /\ Update(Nesting(result.scope))
       /\ errors' = errors \cup result.errors
       /\ variables' = result.made
       /\ Open([Branches("loop") EXCEPT !.before = result.scope.sure])
  /\ node' = NoNode

(* catch x: the variable is assigned outside the block of the catch. *)
CatchIdentifier(x) ==
  /\ top.kind = "try" /\ top.blocks = 1 /\ ~top.last /\ ~top.condition /\ Visit("catch")
  /\ \E result \in {Assigned(scopes, variables, x, FALSE)} :
       /\ Update(result.scope)
       /\ errors' = errors \cup result.errors
       /\ variables' = result.made
       /\ frames' = [frames EXCEPT ![Len(frames)].before = @ \cup {Id(x)}, ![Len(frames)].named = @ \cup {Id(x)}]
  /\ node' = NoNode

(* The expression of an elseif, a case or a catch. *)
Condition ==
  /\ top.kind \in Branching \ {"loop"} /\ top.blocks > 0 /\ ~top.last /\ ~top.condition
  /\ frames' = [frames EXCEPT ![Len(frames)].condition = TRUE]
  /\ node' = NoNode /\ UNCHANGED <<scopes, variables, errors>> /\ Unvisited

(* The next block of the construct; "last" is an else, an otherwise or a catch. *)
OpenBlock(last) ==
  /\ top.kind \in Branching /\ ~top.last /\ top.blocks < program.blocks /\ Unvisited
  /\ CASE top.kind = "if" -> last = ~top.condition
       [] top.kind = "switch" -> IF top.blocks = 0 THEN TRUE ELSE last = ~top.condition
       [] top.kind = "try" -> last = (top.blocks = 1)
       [] OTHER -> last
  /\ Len(frames) < program.depth
  /\ frames' = Append([frames EXCEPT ![Len(frames)].last = last, ![Len(frames)].condition = FALSE,
                                         ![Len(frames)].blocks = @ + 1], Block("block", {}))
  /\ Update(push_context(current))
  /\ node' = NoNode /\ UNCHANGED <<variables, errors>>

CloseBlock ==
  /\ top.kind = "block"
  /\ LET under == Len(frames) - 1
         frame == frames[under]
     IN  /\ frames' = [Front(frames) EXCEPT ![under].ends = IF frame.blocks = 1 THEN current.sure ELSE @ \cap current.sure]
         /\ Update([pop_context(current) EXCEPT !.sure = frame.before])
  /\ node' = NoNode /\ UNCHANGED <<variables, errors>> /\ Unvisited

AfterBranches(scope) ==
  IF top.kind = "loop" THEN scope
  ELSE pop_variable_assignment_context(IF top.last THEN scope ELSE pop_context(push_context(scope)))

CloseBranches ==
  /\ top.kind \in Branching
  /\ IF top.blocks = 0 THEN top.kind = "switch" ELSE ~top.condition
  /\ frames' = Front(frames)
  /\ Update([AfterBranches(current) EXCEPT
               !.sure = top.before \cup top.named \cup IF top.last /\ top.kind /= "loop" THEN top.ends ELSE {}])
  /\ node' = NoNode /\ UNCHANGED <<variables, errors>> /\ Unvisited

------------------------------------------------------------------------------
(* Visits of functions and of the file. *)

register_import(x, entered) ==
  LET result == register_fully_qualified_import(entered.open, x)
  IN  [entered EXCEPT !.open[Len(entered.open)] = result.scope,
                      !.errors = @ \cup IF result.success THEN {} ELSE {[kind |-> "shadowed_import", id |-> Id(x)]}]

(* The local functions are classified first, for the file as for a function. *)
register_local_functions(open) ==
  LET scope == Last(open)
      known == DOMAIN scope.classified \ scope.local_functions
  IN  [open EXCEPT ![Len(open)].classified =
         [id \in scope.local_functions \cup known |->
            IF id \in known THEN scope.classified[id] ELSE FunctionInfo(open, id)]]

Entered(around, found, made, functions, imports) ==
  LET open == Append(around, NewScope(Len(around), {Id(f) : f \in functions}, imports))
  IN  FoldSet(register_import, [open |-> register_local_functions(open), errors |-> found, made |-> made], imports)

(* The functions of a block come behind its statements. *)
FunctionDef(f, signature) ==
  /\ IsBlock(top) /\ top.kind /= "block" /\ f \in top.pending /\ Visit("function")
  /\ \E result \in {Parameters(Entered(scopes, errors, variables, signature.functions, signature.imports),
                              signature.parameters)} :
       /\ scopes' = Append(scopes, push_context(Last(result.open)))
       /\ variables' = result.made /\ errors' = result.errors
  /\ Len(frames) < program.depth
  /\ frames' = Append([frames EXCEPT ![Len(frames)].pending = @ \ {f}, ![Len(frames)].defining = TRUE],
                      Block("body", signature.functions))
  /\ node' = NoNode

EndFunctionDef ==
  /\ top.kind = "body" /\ top.pending = {}
  /\ scopes' = Front(scopes) /\ frames' = Front(frames) /\ node' = NoNode
  /\ UNCHANGED <<variables, errors>> /\ Unvisited

Init ==
  \E bound \in Bounds :
    LET entered == Entered(<< >>, {}, 0, bound.functions, bound.imports)
    IN  /\ program = bound /\ scopes = entered.open /\ errors = entered.errors
        /\ frames = <<Block("root", bound.functions)>>
        /\ variables = 0 /\ node = NoNode /\ visits = 0

Next ==
  \/ \E x \in program.names, kind \in {"reference", "member", "brace"} : Reference(x, kind)
  \/ \E x \in program.names : FunctionReference(x)
  \/ \E x \in program.names, kind \in {"reference", "brace"} : SuperclassMethod(x, kind)
  \/ \E names \in SUBSET program.names : AnonymousFunction(names)
  \/ EndAnonymousFunction
  \/ \E x \in program.names, subscripted \in BOOLEAN : Assign(x, subscripted)
  \/ \E x \in program.names : VariableDeclaration(x)
  \/ \E kind \in Branching : OpenBranches(kind)
  \/ \E x \in program.names : OpenFor(x)
  \/ \E x \in program.names : CatchIdentifier(x)
  \/ Condition
  \/ \E last \in BOOLEAN : OpenBlock(last)
  \/ CloseBlock
  \/ CloseBranches
  \/ \E f \in program.names, signature \in program.signatures : FunctionDef(f, signature)
  \/ EndFunctionDef

Spec == Init /\ [][Next]_vars

==============================================================================
