SPECIFICATION Spec
CONSTANTS
  Handle = {server, one, two}
  Descriptors = 4
  MAX_PENDING = 1
  Port = {1023, 1024, 65536, 66560}
INVARIANTS
  TypeOK
  SocketsOwn
PROPERTY LeaksOnlyOnFailure
