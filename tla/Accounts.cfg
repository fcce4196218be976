SPECIFICATION Spec
CONSTANTS
  Pasts <- All
  MaxTx = 3
  User = {1, 2, 3}
  MaxAttempts = 2
  GivenRoles = {"owner", "viewer"}
INVARIANTS
  OldSecretsEnd
  OnlyResetCircles
PROPERTIES
  OwnershipIsHandedOn
CHECK_DEADLOCK FALSE
