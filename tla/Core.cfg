\* Two threads that end and restart, two buckets, three blocks.
CONSTANTS
  Thread = {t1, t2}
  Heap = {h1, h2}
  Bucket <- TwoBuckets
  Block = {b1, b2, b3}
  Null = Null
  Unset = Unset
  Large = Large
  Mmapped = Mmapped
  Program = Program
  Allocator = Allocator
  BootOnFree = FALSE
  PostDtorCalls = FALSE
SPECIFICATION Spec
SYMMETRY Symmetry
INVARIANTS TypeOK NoSharedHeap HeapsConserved ReadsHold BlocksConserved OwnershipKept
PROPERTY KeepsLedger
