CONSTANTS
  Threads = {t1, t2}
  NoThread = NoThread
  Assets = {a1, a2}
  NoAsset = NoAsset
  Originals = {a1}
  MaxNested = 1
SPECIFICATION Spec
INVARIANTS
  SettledLoadsAsConfigured
  DetourComesBack
PROPERTIES
  CrashNeedsSetter
