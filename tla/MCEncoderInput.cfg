CONSTANTS
  DEBOUNCE_ROTATE_MS = 1
  DEBOUNCE_SWITCH_MS = 2
  DOUBLE_PRESS_MS = 5
  POLL_MS = 1
  ENCODER_MSGQ_SIZE = 1
  ClockMod = 14
SPECIFICATION Spec
INVARIANTS TypeOK ThreePressesSuffice
PROPERTIES DoublePressGenuine PressesPaired
