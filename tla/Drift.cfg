SPECIFICATION FairSpec
CONSTANTS
  Absent = Absent
  Unset = Unset
  Malformed = Malformed
  Owner = "team"
  OwnerKey = "owner"
  InventoryKey = "inventory"
  UserNames = {"ana", "bob"}
  Outsiders <- MCOutsiders
  Specs <- OneSpec
  Roles = {"view", "admin"}
  QuotaNames = {}
  Limits = {}
  MetaKeys = {"owner"}
  MetaValues = {"team"}
  Strangers <- MCStrangers
  Leftovers <- MCLeftovers
  Foreign = {}
  Unsound = {}
  Refused = {}
  Disturbances = {"create", "drift", "relabel", "resync"}
  MaxEdits = 1
  MaxFaults = 2
PROPERTY Reclaims StrangersUntouched KeptGrantNeverBlinks
CHECK_DEADLOCK FALSE
