CONSTANTS
  Duration = 8
  MaxChunk = 3
  HardCap = 4
  Tolerance = 1
  Radius = 1
  Backtrack = 4
  SearchAhead = 6
  MaxCandidates = 3
  Fuzz = 1
  Documents = 3
  Smart = TRUE
  a = a
  b = b
  c = c
  Picture = Picture
  Map = Map
  Quiet = Quiet
  Pending = Pending
  Excluded = Excluded
  Page = Page
  Images = {Picture, Map}
  Book <- BookTokens
  DocumentOf <- Lines
  ImageIn <- Pictures
  Contents <- ChapterMarks
  Narrations <- Heard
SPECIFICATION SyncSpec
INVARIANTS PlanAccepted ClipsTrue EverySegmentOnce NarrationInOrder FailuresExplained
CHECK_DEADLOCK FALSE
