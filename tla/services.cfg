SPECIFICATION ServicesSpec
CONSTANTS
  \* breaker
  Callers = {b1, b2}
  Threshold = 2
  Cooldown = 2
  \* gate and desk
  c1 = c1
  c2 = c2
  RateLimit = 3
  RateWindow = 3
  Allowlist = {u1}
  Senders = {u1, u2}
  Chats = {c1, c2}
  MaxCases = 2
  SentTo <- BothToOne
  PendingLimit = 1
  \* case
  CaseTexts <- CaseRequests
  CaseOffers <- SmallOffers
  Executions = 2
  \* plan
  Proposals <- PlanProposals
  MaxTasks = 5
  MaxAgents = 5
  MaxDepth = 4
  MaxIterations = 5
  History <- Records
  Watched = {"research", "report", "vendor"}
  \* documents
  Sources <- Ingested
  Words <- WordsOf
  MaxWords = 6
  MinWords = 4
  CaseIds = {"k1", "k2"}
  \* knowledge
  DocIds = {1, 2}
  KbTenants = {"default"}
  Readers <- TwoReaders
  Contents <- TwoWords
  Limit = 1
  \* services
  Threads = {"s1", "s2"}
  Defaults = {"Dell"}
  Competitors = {"Dell", "Acme"}
  Silent = {"Acme"}
  Kinds <- OneKind
  OpsKinds = {}
  Invoices <- InvoiceSets
  Replies <- ReplySeries
  FreshFor = 1
  \* access
  Clients <- SomeClients
  ApprovalRows <- SomeApprovals
  Amounts = {500, 999995, 1000000, 20000000}
  AssetIds = {"a"}
  Assets <- SomeAssets
  Principals <- SomePrincipals
  Changes <- SomeChanges
  \* tools
  Inside = {"q"}
  Outside = {"x"}
  FileTexts <- SomeTexts
  Agents <- SomeAgents
  PolicyFiles <- SomePolicies
  \* checks
  Results <- SomeResults
  QuoteSets <- QuotedBefore
  Quotes <- TrustedQuotes
  Answers <- SomeAnswers
  \* scraping
  Uris <- Pages
  Blocked = {}
  AllowedSites = {}
  Ttl = 1
  \* advice
  KeySets <- TwoProviders
  Personas = {"operations", "finance"}
  DatedQuotes <- Dated
  FreshDays = 30
  MaxListed = 1
  NoDate = NoDate
  \* resume
  t1 = t1
  w1 = w1
  Task = {t1}
  Deps <- OneTask
  Worker = {w1}
  MaxAttempts = 2
  MaxFaults = 1
  IterationLimit = 3
  NoMsg = NoMsg
  NoTask = NoTask
INVARIANTS
  ServicesTypeOK
  CaseSeesUploads
  AsksForItsOwn
  RecommendedIsBest
  CheaperStaysBest
  PlanIsRunnable
  IngestKeepsContent
  AnswersAreCurrent
  RepublishedTaskEnds
PROPERTIES
  CooldownRespected
  BreakerRecovers
  WatchesKept
\* Chats, the knowledge base and a resumed workflow may come to an end.
CHECK_DEADLOCK FALSE
