CONSTANTS
  Ids = {4, 5, 12, 128, 10244, 65540}
  Segments = 2
  FlashIds = {7}
  Settings = {0, 1}
  cBlock = 8
  SectorSize = 2
  Slots = {1, 2}
  Games = {1, 2}
  Game = 1
  Names <- MCNames
  NameMax = 2
  FileSizes = {0, 1, 2}
  Word = 16
  Half = 4
  MaxSerial = 10
  Bytes = {0, 255}
  ImageSizes = {1, 2}
SPECIFICATION MCSpec
INVARIANTS MountsAnswered BusReturned SramKept FilesKeepBlocks NewestSurvives CleanMeansSaved
CHECK_DEADLOCK FALSE
