\* Any file of three lines out of fifteen, with binds and resets after it.
CONSTANTS
  NoCode = NoCode
  NoVal = NoVal
  None = None
  Code <- MCCode
  Word <- MCWord
  KeyOf <- MCKeyOf
  SequenceOf <- MCSequenceOf
  Glyph <- MCGlyph
  Number <- MCNumber
  Parts <- MCParts
  Exp <- MCExp
  Depth <- MCDepth
  Line <- MCLine
  Bind <- MCBind
  Included <- MCIncluded
  Option <- MCOption
  IdName <- MCIdName
  IdFlags <- MCIdFlags
  Device <- MCDevice
  MaxLayers = 9
  MaxDescriptors = 3
  MaxMacros = 1
  MaxCommands = 1
  MaxChords = 2
  MaxChordKeys = 3
  MaxConstituents = 2
  MaxMacroSize = 4
  MaxSections = 6
  MaxIds = 3
  MaxArgs = 5
  MaxLines = 3
SPECIFICATION Spec
INVARIANTS TypeOK Valid Complete IdsHonoured
PROPERTIES Attributed Implements
CHECK_DEADLOCK FALSE
