\* Two commands while the registry, the catalog, the configuration and the state move.
SPECIFICATION Spec
CONSTANTS
  p1 = p1  p2 = p2  d1 = d1  d2 = d2  t1 = t1  t2 = t2  e1 = e1  e2 = e2
  Procs = {p1, p2}
  Commands = {"init-state", "validate", "plan", "backup"}
  Datasets = {d1}
  Targets = {t1}
  Paths = {e1}
  NoOne = NoOne
  Missing = Missing
  MaxRegistry = 1
  MaxEdits = 3
  MaxVersion = 1
  MaxSnapshots = 1
  MaxLost = 0
SYMMETRY Symmetry
INVARIANTS ConsistentInputs
PROPERTIES WrittenUnderGovernance
