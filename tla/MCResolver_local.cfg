SPECIFICATION Spec
INVARIANT LocalTypesPrefixed
