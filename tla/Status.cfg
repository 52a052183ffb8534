SPECIFICATION Spec
CONSTANTS
  Absent = Absent
  Unset = Unset
  Malformed = Malformed
  Owner = "team"
  OwnerKey = "owner"
  InventoryKey = "inventory"
  UserNames = {"ana", "bob"}
  Outsiders <- MCOutsiders
  Specs <- BothOrOne
  Roles = {"view", "admin"}
  QuotaNames = {}
  Limits = {}
  MetaKeys = {"owner"}
  MetaValues = {"team"}
  Strangers = {}
  Leftovers = {}
  Foreign = {}
  Unsound = {}
  Refused = {}
  Disturbances = {"create", "edit", "delete"}
  MaxEdits = 4
  MaxFaults = 1
INVARIANT StatusOfThisObject NothingLost
PROPERTY StatusNeverRegresses AgreementIsFresh
CHECK_DEADLOCK FALSE
