CONSTANTS
  Files = {f1, f2}
  BufferNames = {n1, n2}
  SourceNames = {s1, s2}
  BufferAddrs = {b1, b2}
  SourceAddrs = {a1, a2}
  Handles = {h1, h2, h3}
  Nil = Nil
  MaxBatch = 2
SPECIFICATION Spec
SYMMETRY Symmetry
\* Leaks are for good: with every name and address leaked nothing is left to do.
CHECK_DEADLOCK FALSE
INVARIANTS
  TypeOK
  CacheExact
  OpenHandleUsable
  OneOwner
  NoSourceLost
PROPERTIES
  CloseLeaksOnlyAttached
