SPECIFICATION PSpec
CONSTANTS
  Event = {e1, e2}
  Snapshots = TRUE
  MaxSeq = 3
INVARIANT AckedUnlessRefused
