SPECIFICATION Spec
CONSTANTS
  NumControllers = 2
  Requests <- MCRequests
  ModeValues <- MCModes
  InitialParams <- MCConfig
  Outputs <- MCOutputs
INVARIANTS InterfaceFollowsParams ActuatesCurrentSettings
PROPERTY SwapIsGated
