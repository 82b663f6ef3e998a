\* Units of 8 rather than 1024, so that all five are passed.
CONSTANTS
  Base = 8
  Unit <- Units
  Values <- AllValues
  Replies <- AllReplies
  KeyOrder <- Order
  KeyLen <- Lengths
  Depth <- Depths
  MaxFigure = 5000
SPECIFICATION Spec
CHECK_DEADLOCK FALSE
INVARIANT FiguresAreTrue
INVARIANT RepliesToldApart
INVARIANT ColumnsAligned
INVARIANT ValuesAligned
PROPERTY FiguresNeverFall
