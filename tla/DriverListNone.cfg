CONSTANTS
  a1 = a1
  a2 = a2
  b = b
  A = A
  B = B
  Drivers = {a1, a2, b}
  NoDriver = NoDriver
  Names = {A, B}
  NoName = NoName
  Name <- NameOf
  NoneOverPending = TRUE
SPECIFICATION Spec
INVARIANTS Alive
