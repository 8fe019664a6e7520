CONSTANTS
  MayFail = TRUE
  DeleteMayFail = TRUE
  MaxOpen <- MCMaxOpen
SPECIFICATION WfpSpec
INVARIANTS
  WfpTypeOK
  AbsentOnUnload
  NoDanglingClassify
  LoadedIsComplete
PROPERTIES
  LeftProviderBlocksLoads
  ImplementsNetwork
