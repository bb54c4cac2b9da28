SPECIFICATION Spec
CONSTANTS
  Msg = {m1, m2}
  Label = {inbox, work}
  MaxUid = 3
  MaxLife = 1
INVARIANT FoldsAgree
SYMMETRY Alike
