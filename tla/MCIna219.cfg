CONSTANTS
  Requests = {r1, r2, r3}
  Channels = {"voltage"}
  SQES = 9
SPECIFICATION FairSpec
INVARIANTS TypeOK PoolAccounted AnsweredOnce OkIsFresh
PROPERTIES AllAnswered
