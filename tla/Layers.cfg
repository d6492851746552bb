\* Held, oneshot, overloaded, toggled, swapped and nested bindings, and binds
\* that replace the keymap under held keys.
CONSTANTS
  a = a
  b = b
  c = c
  d = d
  x = x
  y = y
  z = z
  sh = sh
  Code = {a, b, c, d}
  NoCode = NoCode
  Key = {x, y, z}
  Mod = {sh}
  NoKey = NoKey
  SelfKey <- MCSelfKey
  NrLayers = 6
  LayerType <- MCLayerType
  LayerMods <- MCLayerMods
  Constituents <- MCConstituents
  Action <- MCAction
  Configs <- MCConfigs
  BootConfigs <- PlainConfigs
  Evals <- BindEvals
  DefaultLayout = 0
  OneshotTimeout = TRUE
  TapTimeout = TRUE
  CacheSize = 3
  Width = 6
  BootClock = 2
  MaxClock = 5
SPECIFICATION Spec
INVARIANTS TypeOK Paired NoAbort OwnedOutput RestingModifiers LatchCoversOneshots MacroHeld
PROPERTY LatestOccludes
CHECK_DEADLOCK FALSE
