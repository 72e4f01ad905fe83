CONSTANTS
  MaxLines = 2
  PipeSize = 1
  Heirs = TRUE
  MaxActs = 3
  Picture = Picture
  Map = Map
  Books <- Sources
  Narrations <- Readings
SPECIFICATION Spec
INVARIANTS CommandReturns FinishedUnlessDefective CuesNameTheirBlocks NothingElseTouched
PROPERTIES CommandEnds PreviewSettles
