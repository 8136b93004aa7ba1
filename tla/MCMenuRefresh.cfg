CONSTANTS
  Null = Null
  MainMenu = "main_menu"
  Menus <- MCMenus
  Items <- MCItems
  Parent <- MCParent
  Screens = {"gps"}
  Reads <- MCReads
  Fields <- MCFields
  Groups <- MCGroups
  NoSample = s0
  Samples = {s0, s1, s2}
  QueueSize = 1
  MENU_VISIBLE_ROWS = 2
  MENU_CURSOR_ROW = 1
  MIN_REDRAW_MS = 2
  ClockMod = 6
SPECIFICATION FairSpec
INVARIANTS PromptUpdateShown
PROPERTIES InputServed
