\* Two activities at once: calls, debounced writes, shutdown, restore.
CONSTANTS
  Topics = {t1, t2}
  Sealed = {}
  Calls = {c1, c2}
  Overlap = 2
  MaxHandle = 2
  MaxOffers = 0
  MaxCrashes = 0
SPECIFICATION Spec
INVARIANT NeverCorrupt
SYMMETRY Symmetry
CHECK_DEADLOCK FALSE
