CONSTANTS
  Names = {"f", "g"}
  Procs = {1, 2}
  NR_ENTRIES = 2
  SC_INODE = 2
  SC_DATA = 4
  NR_BLOCKS = 3
  BLOCK_SIZE = 2
  NR_FILE_STREAM = 3
  FCBMAX = 3
  Lens = {1}
  Seeks = {}
  MAXOFF = 10
  CHUNK = 4
SPECIFICATION ShellSpec
INVARIANTS BuiltinsClose ShellFaults 
PROPERTIES BuiltinsEnd SoleDescriptorKeepsFile
