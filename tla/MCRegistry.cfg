\* Two commands on two repositories with two names; GitHub changes once.
SPECIFICATION Spec
CONSTANTS
  p1 = p1  p2 = p2  a = a  b = b  x = x  y = y
  Procs = {p1, p2}
  Ids = {a, b}
  Slugs = {x, y}
  NoOne = NoOne
  Missing = Missing
  Unclassified = Unclassified
  MaxGeneration = 2
  MaxChanges = 1
SYMMETRY Symmetry
INVARIANTS ReadersSeeOneRegistry
PROPERTIES ImplementsClassification
