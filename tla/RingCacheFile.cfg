SPECIFICATION LiveSpec
CONSTANTS
  BufferSize = 6
  SectorSize = 2
  BackSize = 2
  FillLimit = 2
  ReadChunk = 3
  SeekLimit = 3
  FileLen = 7
  SeekTargets = {0, 5, 9}
  PrefillTargets = {6}
  StreamTypes = {"file", "stream"}
  MaxFaults = 1
  MaxRetries = 2
  FillerPrio = 70
  ReaderPrio = 68
INVARIANTS
  WindowFits
  WindowHoldsFile
  DeliversFile
  ReaderOwnsPosition
  EofIsTheEnd
PROPERTIES
  ReaderStaysInWindow
  HistoryKept
  KeepsPromise
  ReadReturns
  PrefillReturns
