SPECIFICATION Spec
CONSTANTS
  Pids = {}
  NoPid = NoPid
  NoRecord = NoRecord
  MaxEvents = 6
  Tools = {"", "Bash", "mcp__x"}
  Agents = {"a", "b", "c"}
INVARIANTS TypeOK StackMirrorsOpen SinceCoversState LabelFitsState
PROPERTIES RestoredWhenNested OuterLabelKept
CHECK_DEADLOCK FALSE
