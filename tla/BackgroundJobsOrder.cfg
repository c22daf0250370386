CONSTANTS
  HttpJobs = {h1}
  HashJobs = {}
  Reporters = {h1}
  VMs = {v1}
  Coroutines = {c1}
  NoVM = NoVM
  Refs = {r1, r2}
  NoRef = NoRef
  Idle = Idle
  Total = 2
SPECIFICATION Spec
PROPERTIES
  ProgressBeforeDeletion
