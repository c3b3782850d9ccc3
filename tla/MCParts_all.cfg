\* The line editor, the output filter, Python runs and the app's tabs.
SPECIFICATION Spec
CONSTANTS
  Letters = {"a", "b"}
  Limit = 2
  MaxKeys = 7
  Emitters = {reader}
  Bytes = {"e", "p", "t"}
  Control <- MCControl
  MaxSize = 3
  MaxBytes = 7
  Consoles = {s1}
  Requests = {r1}
  Folders = {home, other}
  Start = home
  MaxRuns = 3
  MaxPrints = 2
  MaxCds = 1
  TabLimit = 3
  MaxShells = 3
  MaxLaunches = 2
  MaxSetups = 1
INVARIANTS
  FilterIsTransparent
  
  KeysGoToTheScreen
  OnlyOpenTabsRun
 
