SPECIFICATION FairSpec
CONSTANTS
  Sids = {s1, s2, s3}
  States = {"asking", "working"}
  SpawnTime = 1
  FadeTime = 2
  FlashTime = 2
  Heights = {100, 500, 630, 670, 900}
INVARIANTS TypeOK OfficeConsistent SlotsTile DesksApartAndInside
PROPERTIES GridGrowsWhenFull FlashOnEdge GhostsFade
