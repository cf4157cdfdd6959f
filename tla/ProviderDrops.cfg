\* One replica, two remote authors and room for one provider: every step
\* that applies a claim may push another entry out.
CONSTANTS
  MAX_PROVIDERS_PER_BLOB = 1
  None = None
  Peers = {1, 2, 3}
  Replicas = {1}
  Authors = {2, 3}
  Fetchers = {1}
  MaxClaims = 2
  MaxClock = 2
  MaxFailures = 1
SPECIFICATION Spec
INVARIANTS
  TypeOK
  WithdrawalSticksUnlessDropped
  
CHECK_DEADLOCK FALSE
