\* One object after another, in blocks of three buckets or mapped.
CONSTANTS
  Block = {b1, b2}
  Align = 2
  Header = 2
  BlockSize = {4, 8, 14}
  MmapStart = 10
  PageSize = 8
  LittleWaste = 4
  Size = {0, 1, 3, 6, 12}
  Alignment = {1, 2, 4, 8}
  MaxObjects = 1
  StaleErrno = FALSE
  NoBlock = NoBlock
  NoFake = NoFake
  ENOMEM = ENOMEM
SPECIFICATION Spec
SYMMETRY Symmetry
INVARIANTS TypeOK OneBlockEach PromiseKept InsideBlock
