SPECIFICATION Spec
CONSTANTS
    Sources = {a, b}
    cpus = 2
    MaxFinds = 1
INVARIANTS TypeOK PatchRestored ListedOnce ObjectHasGraph ListedCurrent
  NothingStale BuildComplete Relisted
SYMMETRY AnySource
CHECK_DEADLOCK FALSE
