\* One job and two manual retries of it, two attempts each.
CONSTANTS
  j1 = j1  j2 = j2  j3 = j3  t1 = t1  t2 = t2  t3 = t3  r1 = r1  r2 = r2
  w1 = w1  w2 = w2  c1 = c1  c2 = c2  c3 = c3  k = k
  NoTask = NoTask  NoKey = NoKey
  Jobs <- OneJob
  Tasks <- RetryTaskIds
  Slots <- OneSlot
  Keys = {k}
  JobOf <- RetryJobOf
  FirstTask <- OneFirst
  Inputs <- Plain
  Clients <- Users
  NewId <- OneNewId
  Ops <- RetryOps
  LostReply = TRUE
  MaxDbFaults = 0
  MaxRedisFaults = 1
  MaxApiDowns = 0
  MaxDowns = 0
SPECIFICATION Spec
INVARIANTS RetryCountBelowMax NoOrphan
CHECK_DEADLOCK FALSE
