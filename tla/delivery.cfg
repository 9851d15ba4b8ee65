\* Two webhooks of one owner, one that never works; two faults; with fairness.
CONSTANTS
  e1 = e1  e2 = e2  good = good  bad = bad  u = u  s1 = s1
  front = front  middle = middle  final = final  flaky = flaky  broken = broken
  NoTask = NoTask  NoUser = NoUser  NoUrl = NoUrl
  Events <- TwoEvents
  Hooks <- TwoHooks
  Tasks <- Deliveries
  Users <- OneUser
  EventUser <- ByUser
  HookUser <- Owners
  HookUrls <- Sites
  Urls <- AllUrls
  Buildable <- Requestable
  Resolves <- Hosts
  Replies <- Servers
  Senders <- OneSender
  AllowPrivate = FALSE
  baseDelay = 2  maxDelay = 20  jitterMax = 2  MaxDuration = 31
  MaxFaults = 2
SPECIFICATION FairSpec
INVARIANTS TypeOK OneFaultOneLoss FinishedWasTaken RetriesSlowDown
PROPERTIES DeletedStaysSilent DeliveredOrDeleted
CHECK_DEADLOCK FALSE
