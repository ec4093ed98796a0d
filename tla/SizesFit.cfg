\* assert( tsize <= freeHead->blockSize ), with the default crossover.
CONSTANTS
  bucketSizes <- RealBuckets
  lookup <- RealLookup
  NoBucketSizes = 64
  LookupSizes = 65552
  FilledBuckets = 5
  FilledSizes = 90
  StorageSize = 16
  pageSize = 4096
  None = None
  t1 = t1
  Thread = {t1}
  Request <- Requests
  Remainder <- Nothing
  Threshold <- Nothing
  Crossover <- DefaultThreshold
SPECIFICATION BootSpec
INVARIANT BlockHoldsRequest
