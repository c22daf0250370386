CONSTANTS
  Tasks = {t1, t2, t3}
  Reads = {}
  VMs = {v1, v2}
  Coroutines = {v1, v2}
  Threads = {w1, w2, w3}
  Refs = {r1, r2, r3}
  NoTask = NoTask
  NoVM = NoVM
  NoRef = NoRef
  MAX_THREADS = 2
  Backlog = 1
SPECIFICATION Spec
INVARIANTS
  PoolBounded
  EachTaskOnce
  RegistryExact
  CallbacksNotMisrouted
PROPERTIES
  OnlyLateDispatchStrands
  KeepsPromise
  CompletionsFifo
SYMMETRY Symmetry
