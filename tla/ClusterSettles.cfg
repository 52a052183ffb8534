SPECIFICATION FairSpec
CONSTANTS
  Absent = Absent
  Owner = "ops"
  UserNames = {"ana", "bob"}
  Outsiders <- MCOutsiders
  Specs <- Refusing
  Roles = {"view", "edit"}
  Foreign = {"other"}
  Refused = {"edit"}
  Disturbances = {"create", "delete", "foreign", "force", "resync"}
  MaxEdits = 4
  MaxFaults = 0
PROPERTY Settles 
CHECK_DEADLOCK FALSE
