SPECIFICATION Spec
CONSTANTS
  Addr = {"a", "b"}
  Tx <- SomeTx
  Loss <- Losses
  AddressGasLimit = 4
  AddressTxCount = 3
  MaxNonce = 5
INVARIANTS BatchConstraints WeightsFollow LoopGivesLongestRun
PROPERTY InsertConserves
