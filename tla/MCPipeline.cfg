CONSTANTS
  Changing <- MCChanging
  Versions = {v1, v2}
  None = None
  MaxChanges = 2
  MaxDamages = 1
SYMMETRY Symmetry
SPECIFICATION Spec
CHECK_DEADLOCK FALSE
INVARIANTS NoStaleReuse PrefixOnly CompletedPublished ReviewResolvedFirst
