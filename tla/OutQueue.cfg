SPECIFICATION Spec
CONSTANTS
  t1 = t1  d1 = d1
  Msg = {m1, m2}
  Tenant <- SameTenant
  RcptDomain <- SameDomain
  MaxAttempts = 2
  MaxPerDomain = 1
  Schedule <- ShortRamp
  MinVolume = 1
  BounceNum = 1
  BounceDen = 2
  MaxFaults = 3
INVARIANTS MailIsOnDisk RetriesBounded GatesSurvive
PROPERTIES NoRevival
SYMMETRY Alike
