SPECIFICATION Spec
CONSTANTS
  Events = {"Stop", "PreCompact"}
  TARGET_HOOK_EVENTS = {"Stop"}
  theirs = theirs
  path1 = path1
  path2 = path2
  Commands = {theirs, path1, path2}
  Marked = {path1, path2}
  Emitters = {path1, path2}
  Rests = {"none", "env"}
  Found <- MCFound
  MaxEdits = 2
  MaxRuns = 2
  MaxSecond = 1
INVARIANTS TypeOK SettingsWhole LostOnlyInTheGap Delivered RoundTrip
SYMMETRY Symmetry
CHECK_DEADLOCK FALSE
