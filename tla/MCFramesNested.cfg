SPECIFICATION Spec
CONSTANTS
    main = main
    f = f
    g = g
    Funcs <- MCFuncs
    Main = main
    Words <- MCWordsTwo
    Params <- MCParamsTwo
    Calls <- MCCalls
    Nested = TRUE
    MaxRegs = 5
    MaxStart = 0
    MaxDepth = 2
    MaxCalls = 3
INVARIANT ArgumentsArrive
CHECK_DEADLOCK FALSE
