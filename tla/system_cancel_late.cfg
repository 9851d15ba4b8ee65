\* A cancellation that overtakes an attempt.
CONSTANTS
  j1 = j1  j2 = j2  j3 = j3  t1 = t1  t2 = t2  t3 = t3  r1 = r1  r2 = r2
  w1 = w1  w2 = w2  c1 = c1  c2 = c2  c3 = c3  k = k
  NoTask = NoTask  NoKey = NoKey
  Jobs <- OneJob
  Tasks <- OneTask
  Slots <- OneSlot
  Keys = {k}
  JobOf <- OneJobOf
  FirstTask <- OneFirst
  Inputs <- Timed
  Clients <- TwoUsers
  NewId <- PairNewId
  Ops <- PairOps
  LostReply = FALSE
  MaxDbFaults = 0
  MaxRedisFaults = 0
  MaxApiDowns = 0
  MaxDowns = 0
SPECIFICATION Spec
INVARIANT CancelledNotStarted
CHECK_DEADLOCK FALSE
