SPECIFICATION Spec
CONSTANTS
  s1 = s1
  s2 = s2
  r1 = r1
  r2 = r2
  Senders = {s1, s2}
  Receivers = {r1, r2}
  Async = {s2}
  Script <- MCScript
  Wants <- MCWants
  WriteBudget = 2
  ReadBudget = 2
  WriteCap = 1
  ReadCap = 1
  Window = 2
INVARIANTS TypeOK WritePermitsConserved ReadPermitsConserved NoEarlyEof
PROPERTIES DeliversFifo EveryCallReturns Reliable
