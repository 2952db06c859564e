------------------------------- MODULE Programs -------------------------------
(* Programs as the parser leaves them (mt/ast), of which only what the checker  *)
(* looks at is kept.  A file is a sequence of statements; variables and          *)
(* functions are told apart by number, as the classifier has left them.          *)
EXTENDS Integers, Sequences, TLC

(* The names the checker knows, and the operators a method's name may stand for. *)
isa == 16
struct == 17
plus == 20
equals == 21
minus == 22
BinaryOperators == {plus, equals}
UnaryOperators == {minus}
Comparisons == {equals}
varargin == 99

Expr(kind, name, args) == [kind |-> kind, name |-> name, args |-> args, subs |-> <<>>]
Literal(name) == Expr("literal", name, <<>>)           \* of a scalar type, a number for a colon
CharLiteral(value) == Expr("char", value, <<>>)
Var(name) == Expr("variable", name, <<>>)
Subscripted(name, subs) == [Var(name) EXCEPT !.subs = subs]
Sub(method, args) == [method |-> method, arguments |-> args]
Field(name) == Expr("field", name, <<>>)
Call(name, args) == Expr("call", name, args)
Reference(name) == Expr("reference", name, <<>>)
Anonymous(inputs, body) == [Expr("anonymous", 0, <<body>>) EXCEPT !.subs = inputs]
Binary(op, a, b) == Expr("binary", op, <<a, b>>)
Unary(op, a) == Expr("unary", op, <<a>>)
Parens(args) == Expr("parens", 0, args)
Bracket(args) == Expr("bracket", 0, args)
Brace(args) == Expr("brace", 0, args)

Stmt(kind, exprs, blocks) == [kind |-> kind, exprs |-> exprs, blocks |-> blocks]
ExprStmt(e) == Stmt("expr", <<e>>, <<>>)
Assign(to, of) == Stmt("assignment", <<to, of>>, <<>>)
If(conditions, blocks) == Stmt("if", conditions, blocks)        \* one block more if there is an else
Switch(condition, cases, blocks) == Stmt("switch", <<condition>> \o cases, blocks)
For(name, e, body) == Stmt("for", <<Var(name), e>>, <<body>>)
While(condition, body) == Stmt("while", <<condition>>, <<body>>)
Try(body, catch, handler) == Stmt("try", catch, <<body, handler>>)

(* Types as they are written. *)
TypeNode(kind, name, args, others) == [kind |-> kind, name |-> name, args |-> args, others |-> others]
Name(name, args) == TypeNode("name", name, args, <<>>)
FunctionType(inputs, outputs) == TypeNode("function", 0, inputs, outputs)
Given(variables, of) == TypeNode("scheme", 0, <<of>>, variables)

(* Annotations: a type is resolved before it is used. *)
CastStmt(to, of, type, strategy) == Stmt("cast", <<to, of>>, <<>>) @@ [type |-> type, strategy |-> strategy]
Assertion(type, node) == Stmt("assertion", <<>>, <<<<node>>>>) @@ [type |-> type]
ConstructorStmt(stmt) == Stmt("constructor", <<>>, <<<<stmt>>>>)
Fun(node) == Stmt("fun", <<>>, <<<<node>>>>)
Let(name, type) == Stmt("let", <<>>, <<>>) @@ [name |-> name, type |-> type]
RecordDecl(name, variables, fields) == Stmt("record", <<>>, <<>>) @@ [name |-> name, variables |-> variables, fields |-> fields]
DeclareFunction(name, type) == Stmt("declare function", <<>>, <<>>) @@ [name |-> name, type |-> type]
DeclareMethod(class, header, type) == Stmt("declare method", <<>>, <<>>) @@ [name |-> class, header |-> header, type |-> type]

FunctionDef(name, inputs, outputs, body) ==
  Stmt("function", <<>>, <<body>>) @@ [name |-> name, inputs |-> inputs, outputs |-> outputs, attributes |-> {}]

(* A property may have a type and an initial value, a method a type: sequences  *)
(* of one or of none.                                                            *)
Property(name, type, value) == [name |-> name, type |-> type, value |-> value]
Method(type, def, attributes) == [type |-> type, def |-> [def EXCEPT !.attributes = attributes]]
ClassDef(name, superclasses, properties, methods) ==
  Stmt("class", <<>>, <<>>) @@ [name |-> name, superclasses |-> superclasses, properties |-> properties, methods |-> methods]
===============================================================================
