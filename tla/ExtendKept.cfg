\* One thread: is the remainder of a buffer kept?
CONSTANTS
  Heap = {h1}
  BlockSize = {2, 3}
  ThreadBlock = 4
  HeapExtend = 8
  MinExtend = 4
  TopPad = {6}
  LargeSize = {4}
  Page = 2
  Limit = 26
SPECIFICATION Spec
PROPERTY RemainderKept
CHECK_DEADLOCK FALSE
