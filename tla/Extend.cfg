\* Two heaps; slabs of two thread blocks, of one, and of less than one (M_TOP_PAD);
\* a pad of 0 is below the minimum and ends the program.
CONSTANTS
  Heap = {h1, h2}
  BlockSize = {2, 5}
  ThreadBlock = 4
  HeapExtend = 8
  MinExtend = 2
  TopPad = {0, 2, 6}
  LargeSize = {2}
  Page = 2
  Limit = 20
SPECIFICATION Spec
SYMMETRY Symmetry
INVARIANTS TypeOK StorageExclusive SlabNotOversold
CHECK_DEADLOCK FALSE
