CONSTANTS
  keyboard = keyboard
  mouse = mouse
  prog1 = prog1
  touchpad = touchpad
  f21 = f21
  Unsupported = Unsupported
  Node = {keyboard, mouse}
  RawKey = {prog1, touchpad}
  Key = {f21}
  KeyOf <- MCKeyOf
  Emits <- MCEmits
  Packets <- MCPackets
  Matches <- MCMatches
  MaxDevices = 3
  QueueSize = 6
  MaxChanges = 3
SPECIFICATION Spec
INVARIANTS TypeOK Unstuck Believed Grouped
PROPERTY Heard
CHECK_DEADLOCK FALSE
