\* A task whose item panics.
SPECIFICATION Spec
CONSTANTS
  Cap = 2
  MaxSubs = 2
  MaxSent = 3
INVARIANT EndedIsRemoved
