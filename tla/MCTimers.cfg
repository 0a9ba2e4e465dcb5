\* Notifier: two units, two dropped triggers.  Switch: one repository, three things
\* that happen around the runs.  Runner: launchd and a person, three disturbances.
SPECIFICATION TimersSpec
CONSTANTS
  Services = {"a", "b"}
  MaxEvents = 2
  MaxTime = 3
  Pressure = 1
  Renotify = 2
  MaxDoubts = 1
  Faults = {"failed send", "late answer", "crash"}
  Timer = "timer"
  Operator = "operator"
  Repos = {"r"}
  Weathers = {TRUE, FALSE}
  MaxSwitchEvents = 3
  Launchd = "launchd"
  Person = "person"
  Interval = 3
  RetryTime = 2
  StartupDelay = 2
  MaxLag = 1
  MaxRunnerEvents = 3
INVARIANTS TimersTypeOK NothingSkipped PausesRecorded
PROPERTIES EveryDropTold EnableIsComplete FindingsAnnounced StartsInTurn JobRunsAgain
