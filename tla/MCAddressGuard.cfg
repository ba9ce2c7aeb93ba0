CONSTANTS
  Malformed = Malformed
  Addresses <- MCAddresses
  Cidrs <- MCCidrs
  MaxCidrs = 2
SPECIFICATION Spec
INVARIANTS TypeOK AgreesWithBlocks NoLaundering PolicyOnlyTightens LoopbackClassifiersAgree EveryEntryHonoured
