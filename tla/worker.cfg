\* One job of every kind, two slots, two failed calls, two stops or crashes.
CONSTANTS
  j1 = j1  t1 = t1  w1 = w1  w2 = w2
  NoTask = NoTask  NoKey = NoKey
  Jobs <- OneJob
  Tasks <- OneTask
  Slots <- TwoSlots
  Keys = {}
  JobOf <- JobOf1
  FirstTask <- First1
  Inputs <- AnyWork
  MaxDbFaults = 2
  MaxDowns = 2
SPECIFICATION FairSpec
INVARIANTS TypeOK RetryAccounting ExhaustedAnnounced ExhaustedDead
INVARIANTS RetryCountBelowMax FinishedAnnounced
PROPERTIES OutcomeAnnounced JobConcludes KeepsPromises
CHECK_DEADLOCK FALSE
