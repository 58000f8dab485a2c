\* What the README says of a design that is written back as FIRRTL.
CONSTANT NULL = NULL
SPECIFICATION Spec
INVARIANT Preserved
CHECK_DEADLOCK FALSE
