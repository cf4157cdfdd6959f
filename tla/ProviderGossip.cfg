\* Two replicas and one author among three peers: every delivery order of
\* three claims, clock ties included.
CONSTANTS
  MAX_PROVIDERS_PER_BLOB = 2
  None = None
  Peers = {1, 2, 3}
  Replicas = {1, 2}
  Authors = {2}
  Fetchers = {}
  MaxClaims = 3
  MaxClock = 2
  MaxFailures = 1
SPECIFICATION Spec
INVARIANTS
  RecordIsNewestHeard
  Convergence
PROPERTY NewestClaimsImplemented
CHECK_DEADLOCK FALSE
