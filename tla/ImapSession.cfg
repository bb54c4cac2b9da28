SPECIFICATION MCSpec
CONSTANTS
  Msg = {m1, m2}
  Label = {work}
  MaxUid = 3
  MaxLife = 1
  Sess = {s1}
  Gor = {g1, g2}
  None = None
  MaxOwed = 1
  Inbox <- MCInbox
  ModelFlag = {"seen", "flagged"}
  Wanted <- MCWanted
  MaxNum = 4
  MaxCommands = 2
  MaxStirs = 1
INVARIANTS UidNeverReused ViewAgrees ExpungesAsMeant  FlagsAsAsked
SYMMETRY Alike
CONSTRAINTS FewUids LittleAtATime
