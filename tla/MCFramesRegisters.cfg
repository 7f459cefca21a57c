SPECIFICATION Spec
CONSTANTS
    main = main
    f = f
    g = g
    Funcs <- MCFuncs
    Main = main
    Words <- MCWordsNoLocals
    Params <- MCParams
    Calls <- MCCalls
    Nested = FALSE
    MaxRegs = 3
    MaxStart = 0
    MaxDepth = 3
    MaxCalls = 3
INVARIANT RegistersHold
CHECK_DEADLOCK FALSE
