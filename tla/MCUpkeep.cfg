\* Job guard: a heavy and a light unit, three retries.  Mail monitor: one branch
\* with two commits and two attempts of each.  Archility: two repositories.  Purge:
\* one branch, also as a backup.  Bootstrap: one run of each command.
SPECIFICATION UpkeepSpec
CONSTANTS
  Units = {1, 2}
  Heavy = {1}
  MaxDeferrals = 2
  MaxTriggers = 2
  Overlap = {2}
  Blind = {}
  Forgetful = {}
  Branches = {"main"}
  MaxPushes = 2
  MaxAttempts = 2
  MaxStops = 1
  Scheduled = "scheduled"
  Manual = "manual"
  Candidates <- InOrder
  MaxDeployEvents = 2
  Topics = {"topic"}
  Backups = {"topic"}
  Changes = {1, 2}
  MaxPurgeEvents = 6
  Configurers = {"one"}
  Lister = "lister"
  Listing <- InListing
  Size <- Sizes
  Generated = {"cache"}
  MaxNodes = 2
  MaxBootEvents = 2
INVARIANTS UpkeepTypeOK DeferralHasRetry MailKept OneRequest BothOrNeither
PROPERTIES SeriesEnds FixAnnounced RendersKept DriftProposed OnlyFinishedGoes InventoryHonest
