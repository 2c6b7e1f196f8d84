CONSTANTS
  Names = {"k", "f"}
  Procs = {1}
  NR_ENTRIES = 2
  SC_INODE = 2
  SC_DATA = 9
  NR_BLOCKS = 3
  BLOCK_SIZE = 2
  NR_FILE_STREAM = 2
  FCBMAX = 2
  Lens = {5}
  Seeks = {0}
  MAXOFF = 7
  KERNEL = "k"
  SC_BITMAP = 1
  SC_DIR = 2
  KSIZE = 7
  Sizes = {1, 4}
SPECIFICATION ToolsSpec
INVARIANTS FileInv BlocksPrivate KernelStaysBootable FilesReadBack
