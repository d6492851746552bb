\* One file for each of two keyboards.
CONSTANTS
  k1 = k1
  k2 = k2
  m = m
  f = f
  g = g
  n = n
  Device = {k1, k2, m}
  Mouse = {m}
  File = {f, g}
  NoFile = NoFile
  Address = {1, 2}
  NoKbd = NoKbd
  Code = {n}
  NoCode = NoCode
  Click = Click
  Setups <- ApartSetups
  Span = 2
  Stray <- MCStray
  Slip = 0
  Late = 1
  MaxChurn = 0
  MaxTime = 4
SPECIFICATION Spec
INVARIANT Served
CHECK_DEADLOCK FALSE
