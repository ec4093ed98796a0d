\* Two threads race to return blocks to the heap of a third; free boots too.
CONSTANTS
  Thread = {t1, t2, t3}
  Heap = {h1, h2, h3}
  Bucket <- OneBucket
  Block = {b1, b2, b3}
  Null = Null
  Unset = Unset
  Large = Large
  Mmapped = Mmapped
  Program = Program
  Allocator = Allocator
  BootOnFree = TRUE
  PostDtorCalls = FALSE
SPECIFICATION Spec
SYMMETRY Symmetry
INVARIANTS ReadsHold BlocksConserved
