SPECIFICATION Spec
CONSTANTS
  Addr = {"a", "b"}
  Tx <- SomeTx
  Space = {"native"}
  SpaceOf <- Spaces
  Native = "native"
  Cost <- Costs
  Balance = {1, 9}
  Capacity = 3
  NonceOffset = 2
  EpochBound = 1
  AddressGasLimit = 3
  AddressTxCount = 2
  MaxNonce = 9
  AccountNonce = {0, 1, 2}
INVARIANT BatchPaidFor
