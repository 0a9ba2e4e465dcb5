\* Two commands on two repositories with two names, and around them
\* one more registration and one change on GitHub, edit or kill.
SPECIFICATION CatalogSpec
CONSTANTS
  Procs = {p, q}
  Commands = {"init", "reconcile", "refresh", "materialize", "sync"}
  Ids = {a, b}
  Slugs = {x, y}
  NoOne = NoOne
  MaxRegistry = 2
  MaxEvents = 1
SYMMETRY Interchangeable
INVARIANTS CatalogTypeOK
PROPERTIES RowsKept NothingOverwritten InstalledAsRegistered
CHECK_DEADLOCK FALSE
