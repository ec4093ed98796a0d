\* The program does not reset errno before posix_realloc.
CONSTANTS
  Block = {b1, b2, b3}
  Align = 2
  Header = 2
  BlockSize = {4, 8, 14}
  MmapStart = 10
  PageSize = 8
  LittleWaste = 4
  Size = {0, 1, 3}
  Alignment = {1, 2, 4, 8}
  MaxObjects = 1
  StaleErrno = TRUE
  NoBlock = NoBlock
  NoFake = NoFake
  ENOMEM = ENOMEM
SPECIFICATION Spec
SYMMETRY Symmetry
INVARIANT HeldIsAllocated
