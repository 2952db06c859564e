SPECIFICATION Spec
CONSTANT Profiles <- AllProfiles
INVARIANTS OrderIrrelevant NestedMatchesFlat Substitutable UnionsCovered
CHECK_DEADLOCK FALSE
