\* One crash in the attempt asynq makes after the job is dead.
CONSTANTS
  j1 = j1  t1 = t1  w1 = w1  w2 = w2
  NoTask = NoTask  NoKey = NoKey
  Jobs <- OneJob
  Tasks <- OneTask
  Slots <- TwoSlots
  Keys = {}
  JobOf <- JobOf1
  FirstTask <- First1
  Inputs <- AnyWork
  MaxDbFaults = 0
  MaxDowns = 1
SPECIFICATION Spec
INVARIANT ArchivedIsDead
CHECK_DEADLOCK FALSE
