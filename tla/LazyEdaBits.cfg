SPECIFICATION Spec
CONSTANTS
  Parties = {0, 1, 2}
  Budgets = {2, 3}
  Requests = {0, 1, 2, 3}
  USize = 16
  MaxItems = 4
  MaxFaults = 3
INVARIANTS
  TypeOK
  OneTimeUse
  HandoutIntact
  ReadsInRange
