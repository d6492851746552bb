\* An overloaded key flushed by another after its own time.
CONSTANTS
  ca = ca
  cb = cb
  co = co
  ck = ck
  main = main
  nav = nav
  ka = ka
  kb = kb
  ko = ko
  kk = kk
  kn = kn
  NoCode = NoCode
  Key = {ka, kb, ko, kk, kn}
  SelfKey <- MCSelfKey
  Layer = {main, nav}
  Main = main
  Action <- MCAction
  Descriptors <- MCDescriptors
  NrChords = 3
  ChordKeys <- MCChordKeys
  ChordDescriptor <- MCChordDescriptor
  Code = {ca, cb, co, ck}
  Configs <- NestedConfigs
  NrSlots = 2
  QueueSize = 8
  Devices = 1
  Gap = 2
  Slip = 0
  Late = 0
  MaxTime = 16
SPECIFICATION Spec
INVARIANT Awaited
CHECK_DEADLOCK FALSE
