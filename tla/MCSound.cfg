CONSTANTS
  Null = Null
  Sounds <- MCSounds
  Demo <- MCDemo
SPECIFICATION FairSpec
INVARIANTS TypeOK NeverStuckOn PlayedInOrder
PROPERTIES SoundEnds
