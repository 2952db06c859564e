---------------------------- MODULE MCTypeRelations ----------------------------
(* Types made from a few known ones, a profile for each question.               *)
EXTENDS TypeRelationsProperties

P(names, kinds, members, depth, limit) ==
  [names |-> names, kinds |-> kinds, members |-> members, depth |-> depth, limit |-> limit]

Tuples == P({double_id, sub_double_id}, {"value tuple", "call result"}, 2, 2, 3)
Lists == P({double_id, char_id}, {"value tuple", "list", "parameters"}, 2, 2, 3)
Sums == P({double_id, sub_double_id, char_id, logical_id}, {"union"}, 3, 1, 2)
Functions == P({double_id, sub_double_id}, {"function", "value tuple", "target tuple"}, 1, 1, 3)
Cells == P({double_id, sub_double_id, cls0, cls1}, {"cell", "record"}, 2, 1, 2)
Mixed == P({double_id, sub_double_id}, {"cell", "function", "union", "call result"}, 1, 1, 2)
Chains == P({double_id, sub_double_id, cls0}, {"cell"}, 1, 1, 3)
Names == P({double_id}, {"alias"}, 1, 1, 2)
AllProfiles == {Tuples, Lists, Sums, Functions, Cells, Mixed, Chains, Names}
=============================================================================
