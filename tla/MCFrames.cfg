SPECIFICATION Spec
CONSTANTS
    main = main
    f = f
    g = g
    Funcs <- MCFuncs
    Main = main
    Words <- MCWords
    Params <- MCParams
    Calls <- MCCalls
    Nested = FALSE
    MaxRegs = 3
    MaxStart = 0
    MaxDepth = 3
    MaxCalls = 3
INVARIANTS
    TypeOK
    LocalsHold
    RegistersHold
    LinksHold
    ArgumentsArrive
CHECK_DEADLOCK FALSE
