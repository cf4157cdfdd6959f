\* The gossip loop and a catch-up replay handle offers of one blob side by side;
\* two fetches of two rounds each share one permit.
CONSTANTS
  Hashes = {1}
  Size <- SizeOf
  Accepted = {1}
  Handlers = {w1, w2}
  Tasks = {t1, t2}
  max_blob_size = 2
  max_concurrent_fetches = 2
  max_total_auto_fetch_bytes = 3
  Attempts = 2
  Permits = 1
  Quota = FALSE
  MaxOffers = 1
SPECIFICATION LiveSpec
INVARIANTS
  AutoFetchedOnce
PROPERTY FetchesEnd
CHECK_DEADLOCK FALSE
