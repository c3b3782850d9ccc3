\* Two tabs and their linux-setup.
SPECIFICATION ActivitySpec
CONSTANTS
  TabLimit = 2
  MaxShells = 2
  MaxLaunches = 1
  MaxSetups = 2
PROPERTY SetupIsReleased
