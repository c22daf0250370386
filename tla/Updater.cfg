CONSTANTS
  Kids = {k1, k2}
  NoKid = NoKid
  Game = Game
  Versions = {fork, v1, v2}
  Fork = fork
  Signed = {v1}
  None = None
  Partial = Partial
  ErrorPage = ErrorPage
SYMMETRY Symmetry
SPECIFICATION UpdaterSpec
INVARIANTS
  WorkingDllInReach
  OnlyWholeSignedInstalled
PROPERTIES
  OfferIsCurrent
