\* One session, the three chains, no fault: every mission is completed.
SPECIFICATION FairSpec
CONSTANTS
  low = low
  high = high
  other = other
  Missions = {m1}
  Sessions = {s1}
  Intents = {"reconciliation", "verify", "evidence"}
  Scopes = {low, high}
  ModeOf <- MCModeOf
  Runs <- RunsOne
  Outputs = {o1}
  MaxFaults = 0
  MaxDetours = 2
  NoMission = NoMission
  NoScope = NoScope
  NoOutput = NoOutput
PROPERTY ChainCompletes
