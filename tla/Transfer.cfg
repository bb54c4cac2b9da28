SPECIFICATION Spec
CONSTANTS
  a1 = a1  a2 = a2  a3 = a3  m1 = m1  m2 = m2  m3 = m3
  Acct = {a1, a2, a3}
  Nobody = Nobody
  Out = Out
  Mail = {m1, m2, m3}
  From <- Senders
  To <- Recipients
  Web = {m2}
  Away = {a1, a2}
  MaxBytes <- Plans
  MaxFaults = 1
INVARIANTS AckedIsAccountedFor DeliveredOnce ChainsEnd CapOverrun
CHECK_DEADLOCK FALSE
CONSTRAINT TwoAtATime
