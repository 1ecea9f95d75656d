SPECIFICATION Spec
CONSTANTS
  Kinds = {"EdaBits", "DaBits", "RandOhvs"}
  Programs <- MCPrograms
  Budget <- MCBudget
  MaxItems = 5
  MaxGen = 3
  MaxFaults = 1
INVARIANTS
  TypeOK
  PlansAgree
  Aligned
  NeverExhausted
  
