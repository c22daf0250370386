CONSTANTS
  VMs = {v1, v2}
  NoVM = NoVM
  Files = {f1, f2, f3}
  Updaters = {f1, f2}
SPECIFICATION Spec
INVARIANTS
  TypeOK
  EveryStateHasEveryPlugin
  SetUpTwiceOnlyIfNested
PROPERTIES
  UpdateAfterSetup
  FrameUpdatesAll
