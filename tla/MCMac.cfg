SPECIFICATION Spec
CONSTANTS
  ByteBits = 3
  IdleZeros = 4
  IdleCap = 6
  Sync <- MCSync
  Versions = {1, 2}
  CtrlType = 1
  DataType = 2
  CtrlLen = 4
  DataLen = 5
  HeaderLen = 2
  BatchBits = 13
INVARIANTS
  TypeOK
  NoOverwrite
  ReadyIsWhole
  SyncIsCaught
PROPERTIES
  PacketAfterSync
