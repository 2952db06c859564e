-------------------------------- MODULE Library --------------------------------
(* The types of all functions, methods and classes (mt/type/library.cpp), which *)
(* lives as long as the checker and starts with the types every program knows.   *)
(* A library holds                                                               *)
(*   heap       the store of types,                                              *)
(*   scalars, classes   the type of each name,                                   *)
(*   functions  the declared functions by header,                                *)
(*   methods    for each class its methods by header,                            *)
(*   locals     the types of the functions the files define,                     *)
(*   files      the names of the functions that are called from other files,     *)
(*   errors     what has gone wrong, failed assertions among it.                 *)
EXTENDS TypeRelations

(* Identifiers are numbered in the order in which they are registered. *)
double_id == 1
string_id == 2
char_id == 3
logical_id == 4
sub_double_id == 5
feval == 6
deal == 7
field_x == 8
cls0 == 9
method1 == 10
cls1 == 11
make_cls0 == 12
make_cls1 == 13
horizontal == 0
FirstVariable == 100

empty == [heap |-> <<>>, scalars |-> <<>>, classes |-> <<>>, functions |-> <<>>, methods |-> <<>>, locals |-> <<>>, files |-> {},
          errors |-> {}]

Made(lib, node) == [lib EXCEPT !.heap = make_type(@, node)]
Newest(lib) == Len(lib.heap)

------------------------------------------------------------------------------
(* Entries.  A declared name is taken once; the maps of local types are written *)
(* over.                                                                          *)
Put(map, key, value) == (key :> value) @@ map

emplace_declared_function_type(lib, header, source) ==
  IF header \in DOMAIN lib.functions THEN lib ELSE [lib EXCEPT !.functions = Put(@, header, source)]
emplace_declared_class_type(lib, name, class) ==
  IF name \in DOMAIN lib.classes THEN lib ELSE [lib EXCEPT !.classes = Put(@, name, class)]
emplace_local_function_type(lib, name, type) == [lib EXCEPT !.locals = Put(@, name, type)]
methods_of(lib, class) == IF class \in DOMAIN lib.methods THEN lib.methods[class] ELSE <<>>
has_method(lib, class, header) == header \in DOMAIN methods_of(lib, class)

(* It is asserted that the method is a new one. *)
add_method(lib, class, header, type) ==
  IF has_method(lib, class, header) THEN [lib EXCEPT !.errors = @ \cup {"assertion"}]
  ELSE [lib EXCEPT !.methods = Put(@, class, Put(methods_of(lib, class), header, type))]

(* make_named_scalar_type, make_class_wrapper: a scalar and the class of its name. *)
make_class_wrapper(lib, name, source, inherited) ==
  LET made == Made(lib, Class(name, source, inherited))
  IN  [made EXCEPT !.classes = Put(@, name, Newest(made))]
make_named_scalar_type(lib, name) ==
  LET n == Newest(lib) + 1
  IN  make_class_wrapper([Made(lib, Scalar(name)) EXCEPT !.scalars = Put(@, name, n)], name, n, <<>>)

(* A function from a name, the tuple of its inputs and that of its outputs. *)
make_simple_function(lib, kind, name, inputs, outputs) ==
  LET n == Newest(lib)
  IN  Made(Made(Made(lib, DestructuredTuple(definition_inputs, inputs)), DestructuredTuple(definition_outputs, outputs)),
           Abstraction(kind, name, n + 1, n + 2))
Declare(lib, type) == [lib EXCEPT !.functions = Put(@, lib.heap[IF Tag(lib.heap, type) = "scheme" THEN lib.heap[type].kids[1] ELSE type].label, type)]

make_builtin_types(lib) ==
  LET WithSubtype(of) == make_class_wrapper(of, sub_double_id, of.scalars[sub_double_id], <<of.scalars[double_id]>>)
  IN  WithSubtype(Fold(make_named_scalar_type, lib, <<double_id, string_id, char_id, logical_id, sub_double_id>>))

(* feval takes a function of any parameters, and these; it gives what it gives. *)
make_feval(lib) ==
  LET n == Newest(lib)
      nodes == <<Parameters(FirstVariable), Variable(FirstVariable + 1), Abstraction(anonymous_function, 0, n + 1, n + 2),
                 DestructuredTuple(definition_inputs, <<n + 3, n + 1>>), Abstraction(function, feval, n + 4, n + 2),
                 Scheme(n + 5, <<n + 1, n + 2>>)>>
  IN  Declare(Fold(Made, lib, nodes), n + 6)

(* deal gives its parameters. *)
make_deal(lib) ==
  LET n == Newest(lib)
      nodes == <<Parameters(FirstVariable + 2), DestructuredTuple(definition_inputs, <<n + 1>>),
                 DestructuredTuple(definition_outputs, <<n + 1>>), Abstraction(function, deal, n + 2, n + 3),
                 Scheme(n + 4, <<n + 1>>)>>
  IN  Declare(Fold(Made, lib, nodes), n + 5)

(* [a, b] takes any number of values of one type and gives one. *)
make_concatenations(lib) ==
  LET n == Newest(lib)
      nodes == <<Variable(FirstVariable + 3), List(<<n + 1>>), DestructuredTuple(definition_inputs, <<n + 2>>),
                 DestructuredTuple(definition_outputs, <<n + 1>>), Abstraction(concatenation, horizontal, n + 3, n + 4),
                 Scheme(n + 5, <<n + 1>>)>>
  IN  Declare(Fold(Made, lib, nodes), n + 6)

(* Two classes, the second below the first, with a method of the first. *)
make_constructor(lib, name, class) ==
  LET n == Newest(lib) IN Declare(make_simple_function(lib, function, name, <<>>, <<class>>), n + 3)
make_subtype_debug(lib) ==
  LET n == Newest(lib)
      number == lib.scalars[double_id]
      Zero == make_class_wrapper(Fold(Made, lib, <<ConstantValue(field_x), Record(<<n + 1, number>>)>>), cls0, n + 2, <<>>)
      Method == add_method(make_simple_function(Zero, function, method1, <<n + 3>>, <<number>>), n + 3, <<function, method1>>, n + 6)
      One == make_class_wrapper(Made(Method, Record(<<n + 1, number>>)), cls1, n + 7, <<n + 3>>)
  IN  make_constructor(make_constructor(One, make_cls0, n + 3), make_cls1, n + 8)

make_known_types == make_subtype_debug(make_concatenations(make_deal(make_feval(make_builtin_types(empty)))))

------------------------------------------------------------------------------
(* Looking up: a set with what is found, or empty.                              *)
In(map, key) == IF key \in DOMAIN map THEN {map[key]} ELSE {}
EquivalenceOf(lib) == Relation(lib.heap, lib.classes, TRUE)
SubtypesOf(lib) == Relation(lib.heap, lib.classes, FALSE)

RECURSIVE lookup_method(_, _, _)
lookup_method(lib, type, header) ==
  UNION {LET own == In(methods_of(lib, class), header)
             above == supertypes(lib.heap, class)
             i == FirstPlace({j \in DOMAIN above : lookup_method(lib, above[j], header) # {}})
         IN  IF own # {} THEN own ELSE IF i = 0 THEN {} ELSE lookup_method(lib, above[i], header)
         : class \in class_for_type(EquivalenceOf(lib), type)}

(* method_dispatch: the first argument with such a method, up to one that has no type. *)
method_dispatch(lib, header, arguments) ==
  LET Found(i) == UNION {lookup_method(lib, t, header) : t \in type_or_first_non_destructured_tuple_member(lib.heap, arguments[i])}
      i == FirstPlace({j \in DOMAIN arguments : Found(j) # {} \/ type_or_first_non_destructured_tuple_member(lib.heap, arguments[j]) = {}})
  IN  IF i = 0 THEN {} ELSE Found(i)

(* What a search finds: a type at once, a file that has to be analysed, or nothing. *)
SearchResult(status, types) == [status |-> status, types |-> types]
search_function(lib, header, arguments) ==
  LET name == header[2]
      Named(types) == SearchResult(IF types = {} THEN "none" ELSE "type", types)
      AfterMethods(found) ==
        IF found # {} THEN Named(found)
        ELSE IF header[1] = function /\ name \in lib.files THEN SearchResult("external", {})
        ELSE Named(In(lib.functions, header))
  IN  IF header[1] = function /\ name \in DOMAIN lib.locals \ lib.files THEN Named({lib.locals[name]})
      ELSE AfterMethods(method_dispatch(lib, header, arguments))
===============================================================================
