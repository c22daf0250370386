CONSTANTS
  Nodes = {n1, n2, n3, n4}
  NoNode = NoNode
  Docs = {d1, d2}
  NoDoc = NoDoc
  Wraps = {w1, w2, w3}
  NoWrap = NoWrap
  MaxUsages = 2
SYMMETRY Symmetry
SPECIFICATION Spec
CHECK_DEADLOCK FALSE
INVARIANTS
  TypeOK
  MapsExact
  OnlyDetachLeaks
  CrashNeedsMisuse
PROPERTIES
  CollectorClosesNobody
