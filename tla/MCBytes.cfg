CONSTANTS
  Base = 2
  PacketLens = {1, 7, 8, 14}
  MaxPackets = 3
  Cuts = {1, 3, 12}
  Blocks = {3, 7}
  Deflates = {"none", "odd"}
  Pack = 10000
  MaxBlock = 16
  Small = 12
  Levels <- MCLevels
  RawBelow = 12
  NumberMod = 3
  FrameLens = {4, 5, 6, 7, 8, 11, 12, 16, 17, 20}
  Growth = {1, 7}
  MaxFrames = 2
  Fragments <- MCFragments
  Letters = {"a", "b", "-"}
  Calls <- MCCalls
SPECIFICATION AllSpec
INVARIANTS
  PacketsDelivered BlocksRight PlaceholdersFound ReadAsMeant
CHECK_DEADLOCK FALSE
