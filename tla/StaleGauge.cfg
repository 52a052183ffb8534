SPECIFICATION Spec
CONSTANTS
  Absent = Absent
  Unset = Unset
  Malformed = Malformed
  Owner = "team"
  OwnerKey = "owner"
  InventoryKey = "inventory"
  UserNames = {"ana", "bob"}
  Outsiders <- MCOutsiders
  Specs <- OneRejected
  Roles = {"view", "admin"}
  QuotaNames = {"cpu"}
  Limits = {"small", "unsound"}
  MetaKeys = {"owner", "tier"}
  MetaValues = {"team", "gold", "unsound"}
  Strangers = {}
  Leftovers = {}
  Foreign = {}
  Unsound = {"unsound"}
  Refused = {}
  Disturbances = {"create", "edit", "role"}
  MaxEdits = 2
  MaxFaults = 2
INVARIANT GaugeReports
CHECK_DEADLOCK FALSE
