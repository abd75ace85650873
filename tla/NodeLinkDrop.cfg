SPECIFICATION Spec
CONSTANTS
  MaxMsgs = 1
  MaxFails = 0
  Slots = {r1}
  None = None
INVARIANT DispatchNotDropped
