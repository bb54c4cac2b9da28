SPECIFICATION Spec
CONSTANTS
  Acct = {a1, a2}
  Body = {b1}
  MaxFaults = 1
  Writer = {w1, w2, w3}
  NoFile = NoFile
  File = {1, 2, 3, 4, 5}
  MaxHitches = 2
  Replica = {r1, r2}
  MaxEvents = 3
  MaxErrors = 2
  Item = {1, 2}
  MaxTime = 2
  MaxAsked = 3
  BodyLine <- MCBodyLine
  MaxLines = 2
  MaxMail = 2
INVARIANT LiveSetIsComplete
