\* Backups and drills of two datasets share the control directory; a target loses a snapshot.
SPECIFICATION Spec
CONSTANTS
  p1 = p1  p2 = p2  d1 = d1  d2 = d2  t1 = t1  t2 = t2  e1 = e1  e2 = e2
  Procs = {p1, p2}
  Commands = {"backup", "drill"}
  Datasets = {d1, d2}
  Targets = {t1, t2}
  Paths = {e1}
  NoOne = NoOne
  Missing = Missing
  MaxRegistry = 0
  MaxEdits = 0
  MaxVersion = 1
  MaxSnapshots = 1
  MaxLost = 1
SYMMETRY Symmetry
INVARIANTS EvidenceIsTrue StateProtects
PROPERTIES EvidenceBinds ImplementsLedger
