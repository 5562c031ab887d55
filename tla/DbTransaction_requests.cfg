SPECIFICATION Spec
CONSTANTS
  Script <- Handlers
  Messages = {"createAppUser", "deleteSite", "deleteUser", "changeOwnerSetUser", "createSite", "sendChat"}
  MaxRequests = 3
  MaxFaults = 2
INVARIANTS SessionAgrees OnlyLossRepeats CarefulWhole OnlyHeadMissing
PROPERTIES FailedStaysOut
CHECK_DEADLOCK FALSE
