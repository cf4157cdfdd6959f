\* One activity at a time, crashes anywhere.
CONSTANTS
  Topics = {t1, t2}
  Sealed = {}
  Calls = {c1}
  Overlap = 1
  MaxHandle = 3
  MaxOffers = 1
  MaxCrashes = 1
SPECIFICATION Spec
INVARIANTS
  TypeOK
  NeverCorrupt
  
  
  HandlesStable
  
SYMMETRY Symmetry
CHECK_DEADLOCK FALSE
