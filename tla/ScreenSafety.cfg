SPECIFICATION ScreenSpec
CONSTANTS
  Viewers = {c1}
  W = 2
  H = 2
  Images = {i1}
  Box <- SameBoxes
  Positions <- Left
  Damaged <- AllDamage
  Asked <- TopAndAll
  Slices = {0, 1}
  Defers = {TRUE}
  TurnOff = FALSE
INVARIANTS ScreenTypeOK PixelsCovered  CursorKnown
PROPERTY PixelsArrive
CHECK_DEADLOCK FALSE
