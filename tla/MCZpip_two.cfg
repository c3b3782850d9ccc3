\* Two users at once: the database between them.
SPECIFICATION Spec
CONSTANTS
  Users = {u1, u2}
  Packages = {"app", "lib"}
  Versions = {1}
  Files = {"app.py", "lib.py", "shared"}
  Wheels <- MCWheels
  Requires <- NoRequires
  Torn = Torn
  MaxCommands = 3
  MaxFailures = 1
  MaxStops = 1
SYMMETRY UserSymmetry
INVARIANT OwnersDisjoint
