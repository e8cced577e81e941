SPECIFICATION LibSpec
CONSTANTS
  Procs = {p1, p2}
  MaxCalls = 3
  Types <- MCTypes
  Kind <- MCKind
  Fields <- MCFields
  Elem <- MCElem
  Key <- MCKey
  Values <- MCValues
  TypeOf <- MCTypeOf
  Parts <- MCParts
  NonDefault = {"seven"}
  Calls = {c1, c2}
  Ends = {e1}
  ServerNames = {s1}
  Instances = {r1}
  Nil = Nil
  Hanging = {c2}
CHECK_DEADLOCK FALSE
INVARIANTS
  ComplainedOnce
  NothingSkipped
  ErrorsCounted
PROPERTIES
  ChecksEnd
  CallsReturn
