CONSTANTS
  PageSize = 1
  SectorSize = 2
  BlockSize = 4
  NBlock = 7
  FF = FF
  Garbled = Garbled
  SECTORS_PER_CLUSTER = 1
  RESERVED = 2
  NUM_FATS = 2
  FAT_SECTORS = 3
  ROOT_SECTORS = 1
  ZERO = ZERO
  MEDIA = MEDIA
  BPB = BPB
  SIG = SIG
  DEL = DEL
  prog = prog
  note = note
  more = more
  u1 = u1
  u2 = u2
  u3 = u3
  Names <- MCNames
  Texts <- MCTexts
  Starts <- MCStarts
  NoFile = NoFile
  MAXOPEN = 2
  MaxCommands = 3
  MaxLosses = 0
SPECIFICATION Spec
CHECK_DEADLOCK FALSE
INVARIANTS ContentErased
