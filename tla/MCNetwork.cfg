CONSTANTS
  f1 = f1
  f2 = f2
  c1 = c1
  c2 = c2
  s1 = s1
  s2 = s2
  s3 = s3
  b1 = b1
  n1 = n1
  n2 = n2
  l1 = l1
  l2 = l2
  A = A
  B = B
  ann = ann
  post = post
  secret = secret
  likes = likes
  r1 = r1
  r2 = r2
  r3 = r3
  bob = bob
  pat = pat
  open = open
  whisper = whisper
  answer = answer
  dm = dm
  Founders = {f1, f2}
  Clicks = {c1, c2}
  TierOf <- MCTierOf
  Accesses = {"paid"}
  Edits <- MCEdits
  MaxPubRequests = 5
  MaxPubCrashes = 1
  Sockets = {s1, s2, s3}
  Broadcasts = {b1}
  Notices = {n1, n2}
  Listeners = {l1, l2}
  Marks <- MCMarks
  MaxNoticeCrashes = 1
  Nodes = {A, B}
  Entities = {ann}
  Posts = {post, secret}
  Links = {likes}
  Private = {secret}
  Home <- MCHome
  Imports <- MCImports
  MaxActs = 3
  PeerNodes = {A, B}
  Meetings <- MCMeetings
  MaxPeerCrashes = 2
  Relays = {r1, r2, r3}
  Indexable = {ann, bob, pat}
  PrivateOnes = {pat}
  EntitiesAt <- MCEntitiesAt
  HintsOf <- MCHintsOf
  TargetsAt <- MCTargetsAt
  PeersOf <- MCPeersOf
  MaxDepth = 1
  Crawls = {1, 2}
  People = {ann, bob}
  Posted = {open, whisper, answer, dm}
  About <- MCAbout
  MaxReadActs = 4
SPECIFICATION Spec
INVARIANTS
  TypeOK
  ReaderGetsItsDue
  PushesArrive
  NodesKeepTheirSay
  ReadsAreTrue
PROPERTY SeedsAreCrawled
CHECK_DEADLOCK FALSE
