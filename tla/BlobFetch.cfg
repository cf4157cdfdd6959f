\* One handler at a time, as when no catch-up runs beside the gossip loop; room
\* for one record less than there are blobs.
CONSTANTS
  Hashes = {1, 2}
  Size <- SizeOf
  Accepted = {1, 2}
  Handlers = {w1}
  Tasks = {t1, t2}
  max_blob_size = 2
  max_concurrent_fetches = 1
  max_total_auto_fetch_bytes = 3
  Attempts = 1
  Permits = 1
  Quota = TRUE
  MaxOffers = 1
SPECIFICATION Spec
INVARIANTS
  TypeOK
  BudgetExact
  
  
  CompleteIsStored
SYMMETRY Symmetry
CHECK_DEADLOCK FALSE
