------------------------------ MODULE MCInference ------------------------------
(* Programs of a few statements from pools, a pool for each part of the         *)
(* language.                                                                      *)
EXTENDS InferenceProperties

N == Name(double_id, <<>>)
C == Name(char_id, <<>>)
MCPrelude == <<DeclareMethod(double_id, <<binary_operator, plus>>, FunctionType(<<N, N>>, <<N>>)),
               DeclareMethod(double_id, <<function, subsindex>>, FunctionType(<<N>>, <<N>>)),
               DeclareFunction(isa, FunctionType(<<N, C>>, <<Name(logical_id, <<>>)>>))>>

One == Literal(double_id)
Letter == CharLiteral(char_id)
Sequences(stmts, n) == UNION {[1..k -> stmts] : k \in 1..n}
OneFile(first, pool, n) == {<<s \o t>> : s \in first, t \in Sequences(pool, n)}

(* Variables of the program, and of the functions it defines. *)
x == 51
y == 52
z == 53
in == 54
out == 55
other == 56

(* Values, cells and what is taken of them. *)
Values == {Assign(Var(x), One), Assign(Var(y), Var(x)), Assign(Var(x), Letter), Assign(Var(x), Binary(plus, Var(y), One)),
           Assign(Var(y), Brace(<<Var(x), One>>)), Assign(Var(z), Subscripted(y, <<Sub(brace, <<One>>)>>))}

(* A function of the file, of one type, of a given one or of any, and its uses. *)
local == 61
Identity == FunctionDef(local, <<in>>, <<out>>, <<Assign(Var(out), Var(in))>>)
Definitions == {<<Identity>>, <<Fun(Identity)>>, <<Assertion(FunctionType(<<N>>, <<N>>), Identity)>>}
Calls == {Assign(Var(x), Call(local, <<One>>)), Assign(Var(y), Call(local, <<Letter>>)), Assign(Var(y), Call(local, <<Var(x)>>)),
          Assign(Var(x), Call(feval, <<Reference(local), One>>))}

(* Functions without a name, and calls that give more than one value. *)
Anonymously == {Assign(Var(x), Anonymous(<<in>>, Binary(plus, Var(in), One))), Assign(Var(y), Subscripted(x, <<Sub(parens, <<One>>)>>)),
                Assign(Bracket(<<Var(y), Var(z)>>), Call(deal, <<Var(x), Letter>>)), Assign(Var(y), Call(feval, <<Var(x), Var(z)>>)),
                Assign(Var(z), Bracket(<<One, One>>))}

(* Classes of the checker and of the program, which inherits from one of them. *)
derived == 80
field == 70
Derived(superclasses) ==
  ClassDef(derived, superclasses, <<Property(field, <<N>>, <<One>>)>>,
           <<Method(<<>>, FunctionDef(derived, <<>>, <<out>>, <<>>), {"constructor"}),
             Method(<<>>, FunctionDef(plus, <<in, other>>, <<z>>, <<Assign(Var(z), Subscripted(in, <<Sub(period, <<Field(field)>>)>>))>>), {})>>)
ClassDefs == {<<Derived(<<>>)>>, <<Derived(<<cls1>>)>>}
Objects == {Assign(Var(x), Call(derived, <<>>)), Assign(Var(x), Call(make_cls1, <<>>)), Assign(Var(y), Call(method1, <<Var(x)>>)),
            Assign(Var(y), Binary(plus, Var(x), One)), Assign(Var(x), Subscripted(x, <<Sub(period, <<Field(field)>>)>>))}

(* Branches, loops and casts. *)
Guarded == If(<<Call(isa, <<Var(x), CharLiteral(char_id)>>)>>, <<<<Assign(Var(y), Var(x))>>>>)
Flow == {Assign(Var(x), One), Guarded, For(y, Bracket(<<Var(x), One>>), <<Assign(Var(z), Var(y))>>),
         Switch(Var(x), <<One, Brace(<<One, Letter>>)>>, <<<<Assign(Var(y), Var(x))>>, <<>>>>), While(Var(y), <<Assign(Var(x), Unary(minus, Var(y)))>>),
         Try(<<Assign(Var(x), Parens(<<Var(y)>>))>>, <<Var(z)>>, <<ExprStmt(Var(y))>>), CastStmt(Var(x), Var(y), N, checked), CastStmt(Var(y), Letter, N, presume)}

(* Named types: a record of any type, what it is for numbers, and functions of it. *)
box == 91
item == 92
numbers == 93
unbox == 94
Contents == <<Sub(period, <<Field(field)>>)>>
Named(type) == <<RecordDecl(box, <<item>>, <<<<field, Name(item, <<>>)>>>>), Let(numbers, type), DeclareFunction(unbox, FunctionType(<<Name(numbers, <<>>)>>, <<N>>))>>
NamedTypes == {Named(Name(box, <<N>>)), Named(Name(box, <<Name(box, <<C>>)>>)), Named(Given(<<item>>, FunctionType(<<Name(item, <<>>)>>, <<Name(item, <<>>)>>)))}
Records == {ConstructorStmt(Assign(Var(x), Call(struct, <<CharLiteral(field), One>>))), Assign(Var(y), Call(unbox, <<Var(x)>>)),
            Assign(Var(y), Subscripted(x, Contents))}

(* Files that call each other. *)
first == 62
second == 63
File(name, body) == <<FunctionDef(name, <<in>>, <<out>>, <<Assign(Var(out), body)>>)>>
Bodies == {Var(in), Letter, Call(first, <<Var(in)>>), Call(second, <<Var(in)>>), Binary(plus, Var(in), One)}
Roots == {<<Assign(Var(x), Call(first, <<One>>))>>, <<Assign(Var(x), Call(second, <<Letter>>)), Assign(Var(y), Call(first, <<Var(x)>>))>>,
          <<Assign(Var(x), Call(feval, <<Reference(first), One>>)), Assign(Var(y), Call(second, <<One>>))>>}
Second == FunctionDef(second, <<other>>, <<z>>, <<Assign(Var(z), Call(first, <<Letter>>))>>)
SecondFiles == {<<Second>>, <<[Second EXCEPT !.blocks = <<<<Assign(Var(z), Var(other))>>>>]>>, <<Second, Let(numbers, Name(item, <<>>))>>}
SeveralFiles == {<<root, File(first, body), file>> : root \in Roots, body \in Bodies, file \in SecondFiles}

MCSources ==
  UNION {OneFile({<<>>}, Values, 3), OneFile(Definitions, Calls, 3), OneFile({<<>>}, Anonymously, 3), OneFile(ClassDefs, Objects, 3),
         OneFile({<<>>}, Flow, 2), OneFile(NamedTypes, Records, 2), SeveralFiles}

(* The type of a variable, of a statement that leaves none. *)
AssertedAssignments == OneFile({<<>>}, {Assign(Var(x), One), Assertion(N, Assign(Var(y), Var(x))), ExprStmt(Var(x))}, 3)

(* A type that is made of itself by way of the argument of a scheme. *)
RecursiveTypes == OneFile(NamedTypes \cup {Named(Name(box, <<Name(numbers, <<>>)>>)), Named(Name(numbers, <<>>))}, Records, 2)
=============================================================================
