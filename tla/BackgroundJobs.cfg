CONSTANTS
  HttpJobs = {h1}
  HashJobs = {k1}
  Reporters = {h1}
  VMs = {v1, v2}
  Coroutines = {c1}
  NoVM = NoVM
  Refs = {r1, r2}
  NoRef = NoRef
  Idle = Idle
  Total = 3
SPECIFICATION FairSpec
INVARIANTS
  TypeOK
  NoParkedLeftovers
  CallbacksReachTheirJob
PROPERTIES
  
  KeepsPromise
  EveryJobResolved
