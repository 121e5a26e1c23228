SPECIFICATION Spec
CONSTANTS
  Pids = {}
  NoPid = NoPid
  NoRecord = NoRecord
  MaxEvents = 6
  Tools = {"", "Bash", "mcp__x"}
  Agents = {"a", "b"}
PROPERTIES RestoredExactly
CHECK_DEADLOCK FALSE
