SPECIFICATION Spec
INVARIANT ResolvedRefsParse
INVARIANT WellKnownTypeRule
