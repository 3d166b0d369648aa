SPECIFICATION Spec
CONSTANTS
  Policies = {p1, p2}
  Cover <- MCCover
  VaultOf <- MCVaultOf
  Accounts <- MCAccounts
  MaxPayments = 3
  PageSize = 1
  BaseReserve = 1
  OwnerReserve = 1
SYMMETRY Symmetry
INVARIANTS TypeOK SummedOnce GateBacked
