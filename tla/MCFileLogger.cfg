CONSTANTS
  Handles = {log_file, h2}
  log_file = log_file
  NumFiles = 2
  MaxSize = 3
  StartLen = 2
  ReadBuffLen = 2
SPECIFICATION MainSpec
INVARIANTS TypeOK OpenIsUsable NoFileLeaked MenuOwnsScreen
PROPERTY MainIsAClient
