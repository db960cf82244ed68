CONSTANTS
  t1 = t1
  t2 = t2
  t3 = t3
  t4 = t4
  manager = manager
  handler = handler
  cleaner = cleaner
  tag = tag
  record = record
  Txns = {t1, t2, t3, t4}
  Reads <- MCReads
  Writes <- MCWrites
  Owner <- MCOwner
  FirstWriters = {manager}
SYMMETRY Symmetry
SPECIFICATION Spec
INVARIANTS AssertionsHold OracleInv
PROPERTIES ImplementsTxn SnapshotIsFixed ReadsAreNotModified
