\* Chords, overloaded keys and timed keys, in keymaps of their own.
CONSTANTS
  ca = ca
  cb = cb
  co = co
  ck = ck
  main = main
  nav = nav
  ka = ka
  kb = kb
  ko = ko
  kk = kk
  kn = kn
  NoCode = NoCode
  Key = {ka, kb, ko, kk, kn}
  SelfKey <- MCSelfKey
  Layer = {main, nav}
  Main = main
  Action <- MCAction
  Descriptors <- MCDescriptors
  NrChords = 3
  ChordKeys <- MCChordKeys
  ChordDescriptor <- MCChordDescriptor
  Code = {ca, cb, co, ck}
  Configs <- DeferringConfigs
  NrSlots = 2
  QueueSize = 8
  Devices = 1
  Gap = 2
  Slip = 0
  Late = 1
  MaxTime = 15
SPECIFICATION Spec
INVARIANTS TypeOK Conserved ActivatedAtOnce Chronological HoldHasMatch WithinInterval HeldLayers OwnedOutput Awaited
PROPERTY Settles
CHECK_DEADLOCK FALSE
