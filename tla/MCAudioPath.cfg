SPECIFICATION Spec
CONSTANTS
  CHUNK_SAMPLES = 3
  Quanta = {2, 4, 7}
  TailChunks = 1
  Files <- TestFiles
  MaxSpoken = 11
  MaxLost = 2
INVARIANTS SpeechIsContiguous FilesArrive
CHECK_DEADLOCK FALSE
