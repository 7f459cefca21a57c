SPECIFICATION Spec
CONSTANTS
  None = None
  rbss = rbss
  rarp = rarp
  rsp = rsp
  rpc = rpc
  Strict = TRUE
  Data = 2048
  Stack = 1024
  MaxWrites = 16
  MaxStores = 16
  MaxTests = 20
  Declared <- MCDeclared
  Home <- MCHome
  Programs <- MCPrograms
  Trees <- MCTrees
  Checked <- Verdict
INVARIANTS
  TypeOK
  CodesApart
  OutcomeForeseen
  NumbersComputed
  ReadsDefined
  BoolsAreBits
  ShortCircuits
PROPERTIES
  TargetsFinal
  ImplementsSource
  Completes
CHECK_DEADLOCK FALSE
