\* Three peers, two drops (one with a display name too long), one broadcast of
\* a body on either side of each limit; real size limits.
CONSTANTS
  Peers = {a, b, c}
  d1 = d1  d2 = d2
  Drops = {d1, d2}
  Name <- NameOf
  ExtLens = {64447, 64491}
  Bodies <- SomeBodies
  Addr <- SameAddr
  MAX_MESSAGE_SIZE = 65536
  MAX_NAME_LEN = 255
  MAX_METADATA_ENTRIES = 16
  MAX_METADATA_KEY_LEN = 64
  MAX_METADATA_VALUE_LEN = 512
  MAX_TICKET_LEN = 8192
  MAX_BOOTSTRAP_NODES = 2
  MAX_DIRECT_ADDRS = 8
  MAX_RELAY_URL_LEN = 255
  MAX_DISPLAY_NAME_LEN = 255
  MaxCalls = 1
  MaxRestarts = 1
  Receivers = {b}
  MaxTickets = 2
  None = None
SPECIFICATION Spec
INVARIANTS
  TypeOK
  SentIsTaken
  NoCrossTalk
  
  
SYMMETRY Symmetry
CHECK_DEADLOCK FALSE
