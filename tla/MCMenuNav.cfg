CONSTANTS
  Null = Null
  MainMenu = "main_menu"
  Menus <- ObelicsMenus
  Items <- ObelicsItems
  Parent <- ObelicsParent
  Screens <- ObelicsScreens
  Reads <- ObelicsReads
  Fields <- ObelicsFields
  Groups <- MCGroups
  NoSample = s0
  Samples = {s0, s1}
  QueueSize = 2
  MENU_VISIBLE_ROWS = 7
  MENU_CURSOR_ROW = 3
  MIN_REDRAW_MS = 0
  ClockMod = 1
SPECIFICATION Spec
INVARIANTS TypeOK PanelFaithful
PROPERTIES ConfirmedOnPanel CommandsGuarded
