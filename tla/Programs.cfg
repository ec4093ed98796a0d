\* Two workers with batches of two, two producers and consumers of a buffer of
\* two, relays of one and two slices, rounds of two and three threads.
CONSTANTS
  Threads = 2
  Batch = 2
  nullptr = nullptr
  Prod = {p1, p2}
  Cons = {c1, c2}
  N = 2
  size = 2
  min_threads = 1
  max_threads = 2
  chperthread = 2
  NumBlocks = 2
  Thread = {t1, t2, t3}
  MaxRelays = 1
  THREADS <- RoundsOfTwoAndThree
  GROUP1 = 1
  GROUP2 = 2
SPECIFICATION AllSpec
INVARIANTS BatchInOnePlace EachObjectFreedOnce BufferInOrder RelaysHoldBlocks RoundsSideBySide RoundsAveraged
PROPERTY ProgramEnds
CHECK_DEADLOCK FALSE
