\* One client, one task: the attach loop and the task emit side by side; a
\* ring and a channel of two, replies of at most two short envelopes.
CONSTANTS
  Clients = {c1}
  Tasks = {t1}
  Emitters <- EmittersOf
  Outcomes = {"done", "failed"}
  EVENT_RING = 2
  BusCap = 2
  OutCap = 1
  MaxFrame = 2
  MaxCancels = 1
  None = None
SPECIFICATION LiveSpec
INVARIANTS
  TypeOK
  
  RunningIsRunning
PROPERTIES
  CallsAnswered
  
CHECK_DEADLOCK FALSE
