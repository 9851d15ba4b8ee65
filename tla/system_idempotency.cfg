\* Three requests under one key; every kind of fault once, Redis errors honest.
CONSTANTS
  j1 = j1  j2 = j2  j3 = j3  t1 = t1  t2 = t2  t3 = t3  r1 = r1  r2 = r2
  w1 = w1  w2 = w2  c1 = c1  c2 = c2  c3 = c3  k = k
  NoTask = NoTask  NoKey = NoKey
  Jobs <- ThreeJobs
  Tasks <- KeyTasks
  Slots <- OneSlot
  Keys = {k}
  JobOf <- KeyJobOf
  FirstTask <- KeyFirst
  Inputs <- Keyed
  Clients <- Users
  NewId <- KeyNewId
  Ops <- KeyOps
  LostReply = FALSE
  MaxDbFaults = 1
  MaxRedisFaults = 1
  MaxApiDowns = 1
  MaxDowns = 1
SPECIFICATION Spec
INVARIANTS TypeOK OneRunPerKey CreatedIsKept NoOrphan
CHECK_DEADLOCK FALSE
