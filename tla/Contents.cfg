SPECIFICATION Spec
CONSTANTS
  Absent = Absent
  Unset = Unset
  Malformed = Malformed
  Owner = "team"
  OwnerKey = "owner"
  InventoryKey = "inventory"
  UserNames = {"ana", "bob"}
  Outsiders <- MCOutsiders
  Specs <- ContentSpecs
  Roles = {"view"}
  QuotaNames = {"cpu"}
  Limits = {"small", "large"}
  MetaKeys = {"owner", "tier", "else"}
  MetaValues = {"team", "gold"}
  Strangers = {}
  Leftovers = {}
  Foreign = {}
  Unsound = {}
  Refused = {}
  Disturbances = {"create", "edit", "quota", "metadata", "namespace"}
  MaxEdits = 2
  MaxFaults = 1
INVARIANT TypeOK 
PROPERTY ExternalMetadataKept
CHECK_DEADLOCK FALSE
