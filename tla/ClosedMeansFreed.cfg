SPECIFICATION Spec
CONSTANTS
  Handle = {one}
  Descriptors = 1
  MAX_PENDING = 1
  Port = {1024}
PROPERTY ClosedMeansFreed
