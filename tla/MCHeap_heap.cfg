CONSTANTS
  Threads <- MCThreads
  Owner <- MCOwner
  NoThread = NoThread
  NoRegion = NoRegion
SPECIFICATION Spec
INVARIANTS WellFormed StatsExact
PROPERTY AllocatorSpec
