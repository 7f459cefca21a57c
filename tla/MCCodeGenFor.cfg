SPECIFICATION Spec
CONSTANTS
  None = None
  rbss = rbss
  rarp = rarp
  rsp = rsp
  rpc = rpc
  Strict = FALSE
  Data = 2048
  Stack = 1024
  MaxWrites = 16
  MaxStores = 16
  MaxTests = 20
  Declared <- MCDeclared
  Home <- MCHome
  Programs <- BareFor
  Trees <- MCTrees
  Checked <- Verdict
INVARIANTS
  ForFollowsCondition
CHECK_DEADLOCK FALSE
