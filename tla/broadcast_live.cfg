SPECIFICATION FairSpec
CONSTANTS
  Sids = {s1}
  Clients = {c1, c2}
  Leavers = {c1}
  NoRec = NoRec
  NoView = NoView
  High = 1
  MaxOps = 1
  LateNames = TRUE
PROPERTIES EventuallyMirrored SweepsGoOn
