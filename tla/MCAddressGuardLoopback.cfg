CONSTANTS
  Malformed = Malformed
  Addresses <- MCAddresses
  Cidrs <- MCCidrs
  MaxCidrs = 2
SPECIFICATION Spec
INVARIANT LoopbackFlagExact
