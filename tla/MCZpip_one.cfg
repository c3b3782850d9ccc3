\* One user; wheels that need each other, clash and fail; a Ctrl+C or a kill.
SPECIFICATION FairSpec
CONSTANTS
  Users = {u1}
  Packages = {"app", "lib", "base"}
  Versions = {1, 2}
  Files = {"app.py", "lib.py", "base.py", "shared", "extra"}
  Wheels <- MCWheels
  Requires <- MCRequires
  Torn = Torn
  MaxCommands = 3
  MaxFailures = 1
  MaxStops = 1
INVARIANT FailureRestores
INVARIANT OkMeansDone
PROPERTY RecordsStand
 
