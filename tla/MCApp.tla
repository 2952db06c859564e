------------------------------- MODULE MCApp -------------------------------
(***************************************************************************)
(* Programs for TLC to run mtype on.  A world varies what the files name,  *)
(* what is wrong with them, and what their functions call.                 *)
(***************************************************************************)
EXTENDS AppProperties, TLC

CONSTANTS r, a, b, m, cr, ca, cb, cx, p1, p2, p3

MCFile == {r, a, b, m}
MCCand == {cr, ca, cb, cx}
MCCandFile == cr :> r @@ ca :> a @@ cb :> b @@ cx :> b   \* cx: a second name in b


MCFn == {p1, p2, p3}

PreImportB == <<b>>
RootsOrMissing == {<<cr, cb>>, <<cb, None, cr>>}

Plain(f) ==
  [scans |-> TRUE, parses |-> TRUE, kind |-> "function", supers |-> <<>>,
   methods |-> <<>>, imports |-> <<>>, conflicts |-> FALSE, ids |-> "ok",
   recursive |-> FALSE, schemes |-> FALSE,
   defines |-> {c \in MCCand : MCCandFile[c] = f} \ {cx}]

\* One thing that may be wrong with a file.
Defects(i) ==
  {[i EXCEPT !.scans = FALSE], [i EXCEPT !.parses = FALSE],
   [i EXCEPT !.conflicts = TRUE], [i EXCEPT !.recursive = TRUE],
   [i EXCEPT !.ids = "kept"], [i EXCEPT !.ids = "lost"]}

\* r calls a's function and b's; the third call is one of another file.
Calls(cand2, needs2, owner3, cand3) ==
  p1 :> [owner |-> r, cand |-> ca, needs |-> {}, typing |-> TRUE] @@
  p2 :> [owner |-> r, cand |-> cand2, needs |-> needs2, typing |-> TRUE] @@
  p3 :> [owner |-> owner3, cand |-> cand3, needs |-> {}, typing |-> FALSE]

\* No parameter depends on a call.
NoTyping(calls) == [p \in MCFn |-> [calls[p] EXCEPT !.typing = FALSE]]

AnyCalls ==
  {Calls(c, n, o, d) : c \in {cb, cx}, n \in {{}, {p1}}, o \in {a, b}, d \in {None, ca, cx}}

Files(ri, ai, bi, mi) == r :> ri @@ a :> ai @@ b :> bi @@ m :> mi

Programs(ris, ais, bis, mis, calls) ==
  {[file |-> Files(ri, ai, bi, mi), call |-> c] :
     ri \in ris, ai \in ais, bi \in bis, mi \in mis, c \in calls}

Importing(f, names) == {[Plain(f) EXCEPT !.imports = n] : n \in names}

WithDefects(infos) == infos \cup UNION {Defects(i) : i \in infos}

\* Function files, with imports between them, also cyclic and missing ones.
FunctionWorlds ==
  Programs(Importing(r, {<<>>, <<a>>, <<a, None>>})
             \cup {[i EXCEPT !.ids = "kept"] : i \in Importing(r, {<<a>>})},
           Importing(a, {<<>>, <<b>>, <<m>>}) \cup Defects([Plain(a) EXCEPT !.imports = <<b>>]),
           Importing(b, {<<>>, <<a>>}),
           {Plain(m)}, {c \in AnyCalls : c[p3].owner = a => c[p3].cand # ca})

ClassA(supers, methods) ==
  [Plain(a) EXCEPT !.kind = "class", !.supers = supers, !.methods = methods]

MethodM(extracts) == [file |-> m, abstract |-> FALSE, extracts |-> extracts]
NoMethodFound(abstract) == [file |-> None, abstract |-> abstract, extracts |-> FALSE]

\* a is a class with a superclass b, and methods of which one is defined in m.
ClassWorlds ==
  Programs({Plain(r)},
           {ClassA(s, t) : s \in {<<>>, <<b>>, <<None>>},
                           t \in {<<>>, <<NoMethodFound(TRUE), MethodM(TRUE)>>,
                                  <<MethodM(FALSE)>>, <<NoMethodFound(FALSE)>>}},
           {[Plain(b) EXCEPT !.kind = "class"], Plain(b)},
           WithDefects(Importing(m, {<<>>, <<b>>, <<None>>}))
             \cup {[Plain(m) EXCEPT !.kind = "script"]},
           {Calls(cb, {p1}, m, cb), NoTyping(Calls(cb, {}, a, cx))})

\* Programs in which every name is found and every file is sound, but for calls of
\* functions that do not exist.
HealthyWorlds ==
  Programs({[i EXCEPT !.schemes = x] : i \in Importing(r, {<<a>>}), x \in BOOLEAN},
           {ClassA(s, t) : s \in {<<>>, <<b>>}, t \in {<<>>, <<MethodM(TRUE)>>}}
             \cup Importing(a, {<<b>>}),
           {[i EXCEPT !.kind = "class", !.schemes = x] :
              i \in Importing(b, {<<>>, <<a>>, <<r>>}), x \in BOOLEAN},
           Importing(m, {<<>>, <<r>>}),
           {Calls(cb, {p1}, b, ca), Calls(cx, {}, b, cx)})

MCWorlds == FunctionWorlds \cup ClassWorlds \cup HealthyWorlds
=============================================================================
