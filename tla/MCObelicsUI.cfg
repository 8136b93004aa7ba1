CONSTANTS
  Null = Null
  MainMenu = "top"
  Menus <- MCMenus
  Items <- MCItems
  Parent <- MCParent
  Screens = {}
  Reads <- MCReads
  Fields = {"udp"}
  Groups <- MCGroups
  NoSample = s0
  Samples = {s0, s1}
  QueueSize = 2
  MENU_VISIBLE_ROWS = 7
  MENU_CURSOR_ROW = 3
  MIN_REDRAW_MS = 0
  ClockMod = 1
  MaxCredit = 7
SPECIFICATION UISpec
INVARIANTS SelectedVisible FourPressesPerCommand
