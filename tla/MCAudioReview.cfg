CONSTANTS
  Items = {s1, s2, s3}
  Edges = {s3}
  Images = {p1}
  Smart = TRUE
  Absent = Absent
  Torn = Torn
SYMMETRY Symmetry
SPECIFICATION Spec
INVARIANTS BookHonoursDecisions ImagesDistinct
CHECK_DEADLOCK FALSE
