\* The program thread and two others, superblocks of two heaps.
CONSTANTS
  Thread = {main, t1, t2}
  Main = main
  Dimension = 2
  MaxCalls = 3
  MaxReports = 1
  MaxStarts = 3
  None = None
SPECIFICATION Spec
SYMMETRY Symmetry
INVARIANTS TypeOK NoSelfLock HeapsAccounted CountersAgree StatsAddUp CollectBounded UnfreedAdds UnfreedReported
CHECK_DEADLOCK FALSE
