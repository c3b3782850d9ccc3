\* One installer; it fails, is interrupted and killed.
SPECIFICATION FairSpec
CONSTANTS
  Installers = {i1}
  Nobody = Nobody
  Names = {profile, notes}
  MaxFailures = 1
  MaxStops = 2
INVARIANT SwapIsAtomic
 
 
PROPERTY RerunHeals
