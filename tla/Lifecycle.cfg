SPECIFICATION Spec
CONSTANTS
  Absent = Absent
  Unset = Unset
  Malformed = Malformed
  Owner = "team"
  OwnerKey = "owner"
  InventoryKey = "inventory"
  UserNames = {"ana", "bob"}
  Outsiders <- MCOutsiders
  Specs <- OneSpec
  Roles = {"view"}
  QuotaNames = {}
  Limits = {}
  MetaKeys = {"owner"}
  MetaValues = {"team"}
  Strangers = {}
  Leftovers = {}
  Foreign = {"other"}
  Unsound = {}
  Refused = {}
  Disturbances = {"create", "delete", "foreign", "hold", "fail", "crash"}
  MaxEdits = 5
  MaxFaults = 1
INVARIANT NoOrphanedGrant GuardedPass 
PROPERTY ForeignFinalizersKept KeepsPromise
CHECK_DEADLOCK FALSE
