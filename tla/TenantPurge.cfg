SPECIFICATION Spec
CONSTANTS
  Pasts <- All
  Kinds = {"upload_v1", "upload_acs", "upload_v2", "status", "purge", "offboard", "member", "grant", "revert"}
  MaxTx = 3
PROPERTIES
  PurgeTakesItsOwn
  PurgesOnlyCutOff
CHECK_DEADLOCK FALSE
