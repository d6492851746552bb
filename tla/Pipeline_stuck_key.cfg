\* An overloaded key and a chord that has to be held, in one keymap.
CONSTANTS
  ca = ca
  cb = cb
  co = co
  ck = ck
  main = main
  nav = nav
  ka = ka
  kb = kb
  ko = ko
  kk = kk
  kn = kn
  NoCode = NoCode
  Key = {ka, kb, ko, kk, kn}
  SelfKey <- MCSelfKey
  Layer = {main, nav}
  Main = main
  Action <- MCAction
  Descriptors <- MCDescriptors
  NrChords = 3
  ChordKeys <- MCChordKeys
  ChordDescriptor <- MCChordDescriptor
  Code = {ca, cb, co, ck}
  Configs <- MixedConfigs
  NrSlots = 2
  QueueSize = 8
  Devices = 1
  Gap = 1
  Slip = 0
  Late = 1
  MaxTime = 15
SPECIFICATION Spec
INVARIANT Conserved
CHECK_DEADLOCK FALSE
