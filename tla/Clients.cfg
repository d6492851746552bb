CONSTANTS
  Code <- MCCode
  Scroll <- MCScroll
  Reported <- MCReported
  ModifierKeys <- MCModifierKeys
  Modifiers <- MCModifiers
  Shift = 42
  Cancel = 48
  Spelling <- MCSpelling
  Slots = 1
  MaxEntries = 6
  Client = {c1, c2}
  NoClient = NoClient
  Kbd = {k1, k2}
  NoKbd = NoKbd
  Dangling = Dangling
  k1 = k1
  k2 = k2
  nav = nav
  dvorak = dvorak
  LayersOf <- MCLayersOf
  CodesOf <- MCCodesOf
  Layer = {nav}
  Layout = {main, dvorak}
  Main = main
  Requests <- MCRequests
  NoRequest = NoRequest
  MaxListeners = 1
  Buffer = 2
  MaxActive = 2
  MaxEvents = 3
SPECIFICATION Spec
INVARIANTS TypeOK Recoverable Informed
PROPERTIES NothingLeft Answered
CHECK_DEADLOCK FALSE
