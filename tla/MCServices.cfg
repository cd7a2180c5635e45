CONSTANTS
  a = a
  b = b
  c = c
  d = d
  e = e
  key1 = key1
  key2 = key2
  s1 = s1
  s2 = s2
  p1 = p1
  o1 = o1
  o2 = o2
  f = f
  g = g
  ann = ann
  bob = bob
  bot = bot
  own = own
  buy = buy
  quote = quote
  v1 = v1
  v2 = v2
  u1 = u1
  u2 = u2
  u3 = u3
  top = top
  sub = sub
  low = low
  site = site
  g1 = g1
  r0 = r0
  r1 = r1
  c1 = c1
  al = al
  be = be
  e1 = e1
  e2 = e2
  e3 = e3
  e4 = e4
  st = st
  fd = fd
  vw = vw
  Callers = {a, b, c, d, e}
  EmailOf <- MCEmailOf
  HandleOf <- MCHandleOf
  HashOf <- MCHashOf
  Plans <- MCPlans
  MaxVaultCrashes = 1
  MaxRelayCrashes = 1
  DagTraffic <- MCDagTraffic
  MaxDagCrashes = 1
  Checkouts = {s1, s2}
  Payouts = {p1}
  Onboardings = {o1, o2}
  PayTraffic <- MCPayTraffic
  MaxDeliveries = 2
  MaxPayCrashes = 1
  Files = {f, g}
  Owners = {ann, bob}
  MediaTraffic <- MCMediaTraffic
  MaxBytes = 1
  MaxMediaRequests = 3
  MaxMediaCrashes = 1
  Labelers = {ann, bob}
  ModTraffic <- MCModTraffic
  MaxModRequests = 4
  MaxModCrashes = 1
  SimUsers = {ann}
  SimAgents = {bot}
  SimOwners = {own}
  SimActions = {buy, quote}
  SimFeeds = {1, 2}
  FeedLimit = 1
  LogLimit = 1
  SimScenarios <- MCSimScenarios
  MaxTicks = 1
  Actors2 = {ann, bot}
  EventIds = {1, 2, 3}
  Views = {v1, v2}
  ViewScenarios <- MCViewScenarios
  PerLog = 2
  MaxViewTicks = 2
  HolonUsers = {u1, u2, u3}
  HolonGroups = {top, sub, low}
  ParentOf <- MCParentOf
  CreatedAs <- MCCreatedAs
  HolonScenarios <- MCHolonScenarios
  Platforms = {site}
  MaxDepth = 1
  HolonLimit = 2
  MaxHolonTicks = 2
  RepUsers = {u1, u2}
  RepGroups = {g1}
  Primary = r0
  Replicas = {r1}
  RepClients = {c1}
  ConnectedTo <- MCConnected
  SetupViews = 1
  RepScenarios <- MCRepScenarios
  MaxRepTicks = 2
  StoreActors = {al, be}
  StoreObjects = {st, fd, vw}
  StoreTraffic <- MCStoreTraffic
  MaxTogether = 2
  MaxStoreCrashes = 1
SPECIFICATION PlatformSpec
INVARIANTS
  PlatformTypeOK
  EntityRecoverable
  AnswersAreDurable
  LoginsHold
  BillingAgrees
  MediaIsConsistent
  FilterHonoursAnswers
  ClaimsRecompute
  RecordsAgree
  StoresSurviveOverlap
CHECK_DEADLOCK FALSE
