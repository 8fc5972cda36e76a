\* One reading thread and one thread of the pool are enough.
CONSTANTS
  Users = {u1}
  Workers = {w1}
  MaxCalls = 1
  NoMessage = NoMessage
  NoHandle = NoHandle
SPECIFICATION CASpec
INVARIANT CplErrorIsRouted
CHECK_DEADLOCK FALSE
