SPECIFICATION Spec
CONSTANTS
  c1 = c1
  c2 = c2
  c3 = c3
  NoOne = NoOne
  Callers <- MCCallers
INVARIANTS
  PipeAgrees
PROPERTIES
  ImplementsSignal
  TransitionsOnly
