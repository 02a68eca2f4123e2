\* Two buffers as in the code, chunks of two units and files of up to five, so that
\* a file has none to three chunks, with and without a tail, and may be shorter
\* or longer than its header says.
CONSTANTS
  SB_BUFF_CHUNKS = 2
  Chunk = 2
  Sizes = {0, 2, 5}
  MaxSize = 5
  SizeMod = 16
  MAX_OPEN_FILES = 2
  MaxPlays = 2
  MaxErrors = 0
  NULL = NULL
SPECIFICATION Spec
INVARIANT AllFilesClosed
CHECK_DEADLOCK FALSE
