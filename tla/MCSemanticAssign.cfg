SPECIFICATION Spec
CONSTANTS
    a = a
    b = b
    main = main
    NULL = NULL
    MainId = main
    Ids <- MCIds
    VarTypes = {"int", "float"}
    ReturnTypes = {"int"}
    FieldTypes = {"int"}
    FieldIds <- MCFieldIds
    VectorSizes = {2}
    Expressions <- MCExpressions
    MaxScopes = 2
    MaxParams = 2
    MaxFields = 2
    MaxDeclared = 4
    MaxNodes = 1
PROPERTY
    NumericAssignmentsAccepted
CHECK_DEADLOCK FALSE
