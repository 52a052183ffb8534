SPECIFICATION FairSpec
CONSTANTS
  Absent = Absent
  Unset = Unset
  Malformed = Malformed
  Owner = "team"
  OwnerKey = "owner"
  InventoryKey = "inventory"
  UserNames = {"ana", "bob"}
  Outsiders <- MCOutsiders
  Specs <- RevokingSpecs
  Roles = {"view", "admin"}
  QuotaNames = {"cpu"}
  Limits = {"small", "unsound"}
  MetaKeys = {"owner", "tier"}
  MetaValues = {"team", "unsound"}
  Strangers = {}
  Leftovers = {}
  Foreign = {}
  Unsound = {"unsound"}
  Refused = {"admin"}
  Disturbances = {"create", "edit", "delete", "corrupt", "hold", "force", "crash"}
  MaxEdits = 2
  MaxFaults = 1
PROPERTY Revoked  DeletionCompletes
CHECK_DEADLOCK FALSE
