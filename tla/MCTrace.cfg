CONSTANTS
    XLEN = 8
    DramBase = 16
    DramBytes = 96
    RegisterCount = 4
    ReservedCount = 16
    InlineCount = 12
    Limbs = 2
    UserBuilder <- MCUserBuilder
    Programs <- AllCases
SPECIFICATION Spec
INVARIANTS TypeOK TraceMatchesExecute InlineMatchesHost RegistersSuffice LookupIsEntry R1csSatisfied EvaluatorsAgree CycleIsInBytecode
PROPERTY ReadsSeeTracedWrites
