\* One branch with two commits and two attempts of each; two calls may fail.
SPECIFICATION MailSpec
CONSTANTS
  Branches = {"main"}
  MaxPushes = 2
  MaxAttempts = 2
  MaxStops = 2
INVARIANT RepairAsked
