SPECIFICATION FairSpec
CONSTANTS
  MaxMsgs = 2
  MaxFails = 2
  Slots = {r1, r2, r3}
  None = None
INVARIANTS AckedHandled ExactlyOnceWithoutFailure AtMostOneLateSend
PROPERTIES ImplementsChannel DispatchLeadsToHandled
