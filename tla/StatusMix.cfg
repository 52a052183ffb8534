SPECIFICATION Spec
CONSTANTS
  Absent = Absent
  Unset = Unset
  Malformed = Malformed
  Owner = "team"
  OwnerKey = "owner"
  InventoryKey = "inventory"
  UserNames = {"ana", "bob"}
  Outsiders <- MCOutsiders
  Specs <- OneSpec
  Roles = {"view"}
  QuotaNames = {}
  Limits = {}
  MetaKeys = {"owner"}
  MetaValues = {"team"}
  Strangers = {}
  Leftovers = {}
  Foreign = {}
  Unsound = {}
  Refused = {}
  Disturbances = {"create", "role", "fail"}
  MaxEdits = 1
  MaxFaults = 2
PROPERTY StatusReportsOutcome
CHECK_DEADLOCK FALSE
