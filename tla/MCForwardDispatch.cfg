SPECIFICATION DispatchSpec
CONSTANTS
  Inputs <- AllInputs
  Kinds <- KindTable
  SelectorOutput <- Outputs
  Signatures <- Sigs
  MaxDepth = 4
CHECK_DEADLOCK FALSE
INVARIANTS ParsesGrammar Placement
PROPERTIES CallEnds
