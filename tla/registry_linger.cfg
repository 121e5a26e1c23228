SPECIFICATION FairSpec
CONSTANTS
  Pids = {p1}
  Sids = {s1}
  NoPid = NoPid
  NoSid = NoSid
  NoRecord = NoRecord
  Hooks = {"PreToolUse"}
  Resumable = FALSE
  MaxSent = 3
  MaxBoots = 1
PROPERTIES DeadIsDespawned
