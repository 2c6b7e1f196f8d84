CONSTANTS
  NPAGES = 34
  NPROCS = 4
  IMAGEMAX = 2
  MAXCALLS = 2
SPECIFICATION Spec
INVARIANTS FillStaysInPage
