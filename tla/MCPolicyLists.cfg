SPECIFICATION Spec
INVARIANT MeaningKept
CHECK_DEADLOCK FALSE
