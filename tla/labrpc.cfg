SPECIFICATION MCSpec
CONSTANTS
  Calls = {c1, c2}
  Ends <- MCEnds
  ServerNames <- MCServerNames
  Instances <- MCInstances
  NameOf <- MCNameOf
  Nil = Nil
  Hanging = {}
SYMMETRY MCSymmetry
INVARIANTS
  TrueMeansExecuted
  ServersWithinTotal
  DeliveredAreCounted
