SPECIFICATION FairSpec
CONSTANTS
  Pids = {p1, p2}
  Sids = {s1, s2}
  NoPid = NoPid
  NoSid = NoSid
  NoRecord = NoRecord
  Hooks = {"Notification"}
  Resumable = FALSE
  MaxSent = 3
  MaxBoots = 2
INVARIANTS TypeOK IdentityTrue EndedStaysGone
PROPERTIES NeverDespawnedAlive IsRoster CrashedIsDespawned EndedIsDespawned
