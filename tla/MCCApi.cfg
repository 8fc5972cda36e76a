\* Two threads of two calls each: a call, and one whose errors must not be mixed up with it.
CONSTANTS
  Users = {u1, u2}
  Workers = {w1}
  MaxCalls = 2
  NoMessage = NoMessage
  NoHandle = NoHandle
SPECIFICATION CASpec
INVARIANTS
  MessageIsOwn
  HandlesDelivered
  CAInv
CHECK_DEADLOCK FALSE
