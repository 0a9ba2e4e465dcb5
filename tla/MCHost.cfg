\* Job guard: three heavy units, one of which may be overlooked and lose its
\* counter.  Capture: two captures of two directories with three files, one file
\* too many, and two changes.  Supervision: restic and three helpers.
SPECIFICATION HostSpec
CONSTANTS
  Units = {1, 2, 3}
  Heavy = {1, 2, 3}
  MaxDeferrals = 2
  MaxTriggers = 1
  Overlap = {}
  Blind = {3}
  Forgetful = {3}
  Selectors = {"docs", "media"}
  Below <- Contained
  MaxFiles = 2
  MaxCaptures = 2
  MaxEdits = 2
  Restic = "restic"
  Helpers = {"h1", "h2", "h3"}
  Us = "us"
  Launchd = "launchd"
INVARIANTS OneHeavyAtATime NoCircularWait CapturedAtOneMoment GroupIsOurs
PROPERTIES RestoredWasThere RunEnds
