\* One session that keeps continuing, one fault anywhere.
SPECIFICATION FairSpec
CONSTANTS
  NoMission = NoMission
  Missions = {m1}
  Sessions = {s1}
  Intents = {"monthly-close", "invoice-review"}
  Modes = {3}
  MaxFaults = 1
  MaxLog = 30
PROPERTIES
  PlannedMissionsSettle
