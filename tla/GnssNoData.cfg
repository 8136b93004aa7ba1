CONSTANTS
  Words = 2
  RING_BUFFER_SIZE = 2
  ClockMod = 4
  MaxAge = 0
  MaxFixes = 4
  MaxTime = 1
  BufSize = 12
  MaxPayload = 9
  PvtLen = 3
  NmeaTail = 5
  Bodies <- MCBodies
  Lost = {6}
  MaxSent = 3
SPECIFICATION ParserSpec
PROPERTY NoDataMeansNone
