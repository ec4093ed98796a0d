\* Liveness: no symmetry.
CONSTANTS
  Thread = {t1, t2}
  Heap = {h1, h2}
  Bucket <- OneBucket
  Block = {b1, b2}
  Null = Null
  Unset = Unset
  Large = Large
  Mmapped = Mmapped
  Program = Program
  Allocator = Allocator
  BootOnFree = FALSE
  PostDtorCalls = FALSE
SPECIFICATION FairSpec
PROPERTIES MallocReturns RemotePushLockFree
