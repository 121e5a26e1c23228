SPECIFICATION StallSpec
CONSTANTS
  Sids = {s1}
  Clients = {c1}
  Leavers = {c1}
  NoRec = NoRec
  NoView = NoView
  High = 1
  MaxOps = 2
  LateNames = FALSE
PROPERTIES SweepsGoOn
