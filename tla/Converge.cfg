SPECIFICATION FairSpec
CONSTANTS
  Absent = Absent
  Unset = Unset
  Malformed = Malformed
  Owner = "team"
  OwnerKey = "owner"
  InventoryKey = "inventory"
  UserNames = {"ana", "bob"}
  Outsiders <- MCOutsiders
  Specs <- AgreeingOrNone
  Roles = {"view"}
  QuotaNames = {}
  Limits = {}
  MetaKeys = {"owner"}
  MetaValues = {"team"}
  Strangers = {}
  Leftovers = {}
  Foreign = {}
  Unsound = {}
  Refused = {}
  Disturbances = {"create", "edit", "role", "fail"}
  MaxEdits = 2
  MaxFaults = 1
INVARIANT ReadyMeansObserved ShownIsGranted
PROPERTY Converges
CHECK_DEADLOCK FALSE
