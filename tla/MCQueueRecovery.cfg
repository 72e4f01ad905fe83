CONSTANTS
  Snapshots = {s1, s2, s3}
  NoOpenBook = NoOpenBook
  Absent = Absent
  Bad = Bad
SPECIFICATION SnapshotSpec
SYMMETRY Symmetry
INVARIANTS RecoversSavedWork
PROPERTIES UnreadableSetAside
