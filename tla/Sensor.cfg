SPECIFICATION Spec
CONSTANTS
  Ids <- MCIds
  Light <- MCLight
  MaxNacks = 2
  MaxRestarts = 1
  MaxMisses = 2
INVARIANT LuxGenuine
INVARIANT BusFree
INVARIANT Recovers
PROPERTY OneWireMoves
