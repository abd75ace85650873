SPECIFICATION FairSpec
CONSTANTS
  Producers = {p1, p2}
  Consumers = {c1, c2}
  PopAll = {c2}
  Pollers = {q1}
  Closers = {s1, s2}
  Msgs = {m1, m2}
  None = None
INVARIANTS NoLostWakeup StrandedOnlyIfMissed
PROPERTIES ImplementsChannel AcceptedLeadsToTaken StopLeadsToExit
