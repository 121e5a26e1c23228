SPECIFICATION FairSpec
CONSTANTS
  MaxConns = 3
  MaxSends = 3
  MaxQueue = 3
INVARIANTS TypeOK HearsABeginning StatusTrue
PROPERTIES BannerSettles ThreadEnds
