CONSTANTS
  Threads = {t1, t2}
  NoThread = NoThread
  Files = {f1, f2}
  NoFile = NoFile
  Skipped = {f2}
  Buffers = {b1, b2}
  Text = Text
  Objects = {o1}
  MaxFailures = 1
SPECIFICATION Spec
INVARIANTS
  TextAliveWhenCopied
