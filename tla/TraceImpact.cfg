SPECIFICATION Spec
CONSTANT Queries <- ImpactQueries
INVARIANT ImpactIsExact
CHECK_DEADLOCK FALSE
