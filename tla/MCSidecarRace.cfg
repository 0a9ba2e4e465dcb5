\* Two coordinators racing to open an epoch and back up one dataset; every command ends.
SPECIFICATION FairSpec
CONSTANTS
  p1 = p1  p2 = p2  d1 = d1  d2 = d2  t1 = t1  t2 = t2  e1 = e1  e2 = e2
  Procs = {p1, p2}
  Commands = {"init-state", "backup"}
  Datasets = {d1}
  Targets = {t1}
  Paths = {e1}
  NoOne = NoOne
  Missing = Missing
  MaxRegistry = 0
  MaxEdits = 0
  MaxVersion = 2
  MaxSnapshots = 2
  MaxLost = 0
PROPERTIES NoLostCommit CommitsFreshData CommandsEnd
