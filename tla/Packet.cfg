SPECIFICATION Spec
CONSTANTS
  Writers = {w1, w2}
  Packets <- MCPackets
  V4 = 4
  Caps <- MCCaps
  AppName <- MCName
  MaxByte = 2
  MaxSends = 3
SYMMETRY Symmetry
INVARIANTS
  ArriveWhole
  AddressKept
  NothingHeldBack
PROPERTY
  ChannelSpec
CHECK_DEADLOCK FALSE
