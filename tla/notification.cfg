\* One job, two webhooks of its owner, a pool of one, one stop or crash; with fairness.
CONSTANTS
  j1 = j1  t1 = t1  u = u  near = near  far = far  w1 = w1  s1 = s1  front = front  final = final
  NoKey = NoKey  NoTask = NoTask  NoUser = NoUser  NoUrl = NoUrl
  NoEvent = NoEvent  NoNews = NoNews
  Jobs <- OneJob
  Keys = {}
  Tasks <- OneTask
  JobOf <- OfJob
  FirstTask <- First
  Inputs <- Webhooks
  Slots <- OneSlot
  Senders <- OneSender
  Events <- Calls
  Hooks <- TwoHooks
  Users <- OneUser
  EventUser <- ByUser
  Owner <- TheUser
  HookUser <- Owners
  HookUrls <- Sites
  Urls <- TwoUrls
  Buildable <- TwoUrls
  Resolves <- Hosts
  Replies <- Servers
  AllowPrivate = FALSE
  baseDelay = 2  maxDelay = 20  jitterMax = 2  MaxDuration = 31
  Concurrency = 1
  MaxDbFaults = 0
  MaxDowns = 1
  MaxFaults = 0
SPECIFICATION NotificationFairSpec
INVARIANTS LeftToldAll EventsAccounted
PROPERTIES OwnerHears
CHECK_DEADLOCK FALSE
