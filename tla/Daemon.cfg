\* Two keyboards and a mouse, plugged and unplugged, with reloads at any time.
CONSTANTS
  k1 = k1
  k2 = k2
  m = m
  f = f
  g = g
  n = n
  Device = {k1, k2, m}
  Mouse = {m}
  File = {f, g}
  NoFile = NoFile
  Address = {1, 2}
  NoKbd = NoKbd
  Code = {n}
  NoCode = NoCode
  Click = Click
  Setups <- MCSetups
  Span = 2
  Stray <- MCStray
  Slip = 0
  Late = 1
  MaxChurn = 2
  MaxTime = 4
SPECIFICATION Spec
INVARIANTS TypeOK ActiveAwaited Mirrored Grabbed
PROPERTY Settles
CHECK_DEADLOCK FALSE
