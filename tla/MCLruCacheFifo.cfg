SPECIFICATION Spec
CONSTANTS
  Keys = {0, 1, 2, 3, 4}
  Values = {7, 8}
  Capacities = {1, 2, 3}
  Addresses = {1, 2, 3, 4}
INVARIANTS
  TypeOK
  ListSound
  MapSound
  AllFreed
PROPERTY ImplementsFifoCache
VIEW Contents
