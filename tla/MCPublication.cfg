CONSTANTS
  Books = {b1, b2}
  Contents = {c1, c2}
  None = None
  Corrupt = Corrupt
SPECIFICATION Spec
SYMMETRY Symmetry
INVARIANT CommitRecoverable
PROPERTIES NeverOverwrites CompletedMeansPublished CommitIsFinal
