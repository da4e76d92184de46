SPECIFICATION Spec
INVARIANTS
  StreamFaithful ParkedIsWatching DeadlinesKept
