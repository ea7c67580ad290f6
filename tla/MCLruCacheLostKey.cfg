SPECIFICATION Spec
CONSTANTS
  Keys = {0, 1}
  Values = {7, 8}
  Capacities = {2}
  Addresses = {1, 2, 3}
INVARIANT EveryKeyMapped
