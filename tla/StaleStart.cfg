SPECIFICATION SpecBoth
CONSTANTS
  Absent = Absent
  Unset = Unset
  Malformed = Malformed
  Owner = "team"
  OwnerKey = "owner"
  InventoryKey = "inventory"
  UserNames = {"ana", "bob"}
  Outsiders <- MCOutsiders
  Specs <- OneSpec
  Roles = {"view"}
  QuotaNames = {}
  Limits = {}
  MetaKeys = {"owner"}
  MetaValues = {"team"}
  Strangers = {}
  Leftovers = {}
  Foreign = {}
  Unsound = {}
  Refused = {}
  Disturbances = {"create", "delete", "takeover"}
  MaxEdits = 2
  MaxFaults = 1
INVARIANT NoOrphanedGrant
CHECK_DEADLOCK FALSE
