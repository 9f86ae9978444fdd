CONSTANTS
  Calls <- MCCalls
  Clears <- MCClears
  Full = 4
  NoCall = NoCall
  Width = 6
  Height = 4
  Tile = 4
  Small = 2
  SubgroupSize = 4
  MaxInvocations = 64
  MaxTiles = 16
  MaxHandles = 4
  MaxCalls = 3
  Junk = Junk
  Page = 32
  Base = 16
  Capacity = 4096
  MaxScopes = 256
SPECIFICATION Spec
INVARIANTS TypeOK StorageGivenBack BlocksApart PixelInputsMatch
PROPERTY InRasterOrder
CHECK_DEADLOCK FALSE
