------------------------ MODULE MCIdentifierClassifier ------------------------
(* Programs of a few nodes over one or two identifiers.                        *)
EXTENDS IdentifierClassifierProperties
CONSTANTS x, f

Signature(functions, imports, parameters) ==
  [functions |-> functions, imports |-> imports, parameters |-> parameters]

(* One identifier in branches within branches. *)
Branched ==
  [nodes |-> {"reference", "assign", "if", "try", "while"}, length |-> 5, depth |-> 6, blocks |-> 2,
   names |-> {x}, functions |-> {}, imports |-> {}, signatures |-> {}]

(* Two identifiers, one of them a function at times, without branches. *)
Nested ==
  {[nodes |-> {"reference", "assign", "anonymous", "function"}, length |-> 5, depth |-> 5, blocks |-> 2,
    names |-> {x, f}, functions |-> {f}, imports |-> imports,
    signatures |-> {Signature({}, {}, {}), Signature({f}, {}, {x}), Signature({x}, {x}, {}), Signature({}, {}, {f})}]
     : imports \in {{}, {x}}}

(* Functions within functions, with branches. *)
Shared ==
  [nodes |-> {"reference", "assign", "if", "function"}, length |-> 6, depth |-> 6, blocks |-> 2,
   names |-> {x}, functions |-> {x}, imports |-> {},
   signatures |-> {Signature({x}, {}, {}), Signature({}, {}, {}), Signature({}, {}, {x})}]

(* Every kind of node. *)
Mixed ==
  [nodes |-> Kinds \ {"while"}, length |-> 3, depth |-> 4, blocks |-> 2,
   names |-> {x, f}, functions |-> {f}, imports |-> {},
   signatures |-> {Signature({}, {x}, {}), Signature({f}, {}, {x})}]

MCBounds == {Branched, Shared, Mixed} \cup Nested
===============================================================================
