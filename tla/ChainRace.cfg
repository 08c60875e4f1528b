\* Two sessions bound to different scopes run the evidence chain at once.
SPECIFICATION Spec
CONSTANTS
  low = low
  high = high
  other = other
  Missions = {m1}
  Sessions = {s1, s2}
  Intents = {"evidence"}
  Scopes = {low, high, other}
  ModeOf <- MCModeOf
  Runs <- RunsRace
  Outputs = {o1}
  MaxFaults = 0
  MaxDetours = 1
  NoMission = NoMission
  NoScope = NoScope
  NoOutput = NoOutput
INVARIANTS
  OneScopePerMission
  AuthorizedSteps
SYMMETRY SessionSymmetry
