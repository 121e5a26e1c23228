SPECIFICATION Spec
CONSTANTS
  Sids = {s1, s2}
  Clients = {c1, c2}
  Leavers = {c1, c2}
  NoRec = NoRec
  NoView = NoView
  High = 1
  MaxOps = 3
  LateNames = FALSE
INVARIANTS TypeOK DiffIsFresh SnapshotFirst MirroredWhenQuiet
SYMMETRY Symmetry
CONSTRAINT Smooth
