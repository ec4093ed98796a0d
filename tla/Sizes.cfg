\* The loop that fills lookup, then two threads, the table of llheap.cc, every boundary.
CONSTANTS
  bucketSizes <- RealBuckets
  lookup <- RealLookup
  NoBucketSizes = 64
  LookupSizes = 65552
  FilledBuckets = 5
  FilledSizes = 90
  StorageSize = 16
  pageSize = 4096
  None = None
  t1 = t1
  Thread = {t1, t2}
  Request <- Requests
  Remainder <- Remainders
  Threshold <- MovedTo
  Crossover <- Thresholds
SPECIFICATION BootSpec
INVARIANTS TypeOK SmallestFit LimitAgrees FragmentFits LookupRight
