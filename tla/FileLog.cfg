SPECIFICATION Spec
CONSTANTS
  Event = {e1, e2}
  Snapshots = TRUE
  MaxSeq = 5
INVARIANTS AckedRecoverable LiveEqualsRebuild SeqGapless ReplayIsFold
PROPERTY RefinesHistory
