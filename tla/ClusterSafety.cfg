SPECIFICATION Spec
CONSTANTS
  Absent = Absent
  Owner = "ops"
  UserNames = {"ana", "bob"}
  Outsiders <- MCOutsiders
  Specs <- Changing
  Roles = {"view", "edit"}
  Foreign = {}
  Refused = {}
  Disturbances = {"create", "edit", "delete", "role", "hold", "drift", "squat", "fail", "crash"}
  MaxEdits = 2
  MaxFaults = 1
INVARIANT TypeOK NoOrphanedGrant NothingLost
PROPERTY  KeepsPromise
CHECK_DEADLOCK FALSE
