\* One branch, also as a backup, two commits, eight things that people do.
SPECIFICATION PurgeSpec
CONSTANTS
  Topics = {"topic"}
  Backups = {"topic"}
  Changes = {1, 2}
  MaxPurgeEvents = 8
PROPERTY NothingHeld
