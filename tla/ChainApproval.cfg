\* One session, reconciliation, two faults: an approve step without approval.
SPECIFICATION Spec
CONSTANTS
  low = low
  high = high
  other = other
  Missions = {m1}
  Sessions = {s1}
  Intents = {"reconciliation"}
  Scopes = {low, high}
  ModeOf <- MCModeOf
  Runs <- RunsOne
  Outputs = {o1}
  MaxFaults = 2
  MaxDetours = 1
  NoMission = NoMission
  NoScope = NoScope
  NoOutput = NoOutput
INVARIANT ApprovedStepsApproved
