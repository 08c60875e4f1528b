\* A shutdown of a client whose child a signal has ended.
SPECIFICATION Spec
CONSTANTS
  Calls = {c1}
  Closers = {k1}
PROPERTIES
  ShutdownResolves
CHECK_DEADLOCK FALSE
