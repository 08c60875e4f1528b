\* One session, the three chains one at a time, one fault anywhere.
SPECIFICATION Spec
CONSTANTS
  low = low
  high = high
  other = other
  Missions = {m1}
  Sessions = {s1}
  Intents = {"reconciliation", "verify", "evidence"}
  Scopes = {low, high}
  ModeOf <- MCModeOf
  Runs <- RunsCrash
  Outputs = {o1}
  MaxFaults = 1
  MaxDetours = 1
  NoMission = NoMission
  NoScope = NoScope
  NoOutput = NoOutput
INVARIANTS
  TypeOK
  LostReceiptsBounded
  SnapshotsSound
PROPERTIES
  CeremonyEarned
  WaitsReleasedOnRequest
  KeepsPromise
