\* A joiner pulls pages of two frames or two bytes from a member whose log of
\* three frames and four bytes evicts meanwhile; the dedup cache holds three.
CONSTANTS
  Nodes = {a, b}
  Joiner = a
  Members = {a, b}
  Sealed = FALSE
  KeyHolders = {}
  Frames = {1, 2, 3, 4}
  Unknown = {2}
  Transient = {}
  Size <- SizeOf
  Author <- AuthorOf
  Bootstrap <- TicketPeers
  SYNC_LOG_CAP = 3
  SYNC_LOG_MAX_BYTES = 4
  MAX_UNKNOWN_FRAMES = 1
  UNKNOWN_FRAMES_MAX_BYTES = 1
  MAX_RESPONSE_BYTES = 2
  Overhead = 0
  None = None
  DEDUP_CAPACITY = 3
  Burst = 2
  MAX_FRAMES_PER_PAGE = 2
  MAX_PAGES_PER_ATTEMPT = 3
  MAX_TOTAL_FRAMES = 4
  MAX_TOTAL_BYTES_PER_ATTEMPT = 5
  Pullers = {a}
  MaxRetained = 5
  MaxRounds = 1
SPECIFICATION Spec
INVARIANTS
  TypeOK
  CaughtUpMeansComplete
CHECK_DEADLOCK FALSE
