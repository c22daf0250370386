CONSTANTS
  Tasks = {t1, t2}
  Reads = {t1}
  VMs = {v1}
  Coroutines = {c1}
  Threads = {w1, w2}
  Refs = {r1, r2}
  NoTask = NoTask
  NoVM = NoVM
  NoRef = NoRef
  MAX_THREADS = 2
  Backlog = 1
SPECIFICATION Spec
PROPERTIES
  ReadBytesAlive
