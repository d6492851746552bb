\* A bind after a reset replaces the nested action of a held oneshotk.
CONSTANTS
  a = a
  b = b
  c = c
  d = d
  x = x
  y = y
  z = z
  sh = sh
  Code = {a, b, c, d}
  NoCode = NoCode
  Key = {x, y, z}
  Mod = {sh}
  NoKey = NoKey
  SelfKey <- MCSelfKey
  NrLayers = 6
  LayerType <- MCLayerType
  LayerMods <- MCLayerMods
  Constituents <- MCConstituents
  Action <- MCAction
  Configs <- MCConfigs
  BootConfigs <- StaleBindConfigs
  Evals <- StaleBindEvals
  DefaultLayout = 0
  OneshotTimeout = TRUE
  TapTimeout = TRUE
  CacheSize = 3
  Width = 6
  BootClock = 2
  MaxClock = 8
SPECIFICATION Spec
INVARIANT NoAbort
CHECK_DEADLOCK FALSE
