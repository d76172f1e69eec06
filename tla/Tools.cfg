INIT MCInit
NEXT MCNext
CONSTANTS
  Procs = {p1, p2}
  Roots = {d1, d2}
  Unread = Unread
  Tools = {p1, p2}
  Commands <- MCCommands
  Contents = {0, 1}
  CacheModes = {"run", "persistent"}
  MaxAttempts = 2
  MaxEdits = 1
  Requests = {r1, r2, r3}
  Size = 2
  Gaps = {2, 3}
  MaxClock = 8
  Never = Never
  Pieces <- MCPieces
  ToolOpen <- MCToolOpen
  ToolClose <- MCToolClose
  Details <- MCDetails
  DetailsClose <- MCDetailsClose
  Blank = " "
  Call = "d"
  Symbols = {"<", "t", "/", "d", " "}
  MaxAnswer <- MCMaxAnswer
  MaxTries = 2
  MaxThoughts = 1
  MaxHeld = 2
  Asked <- MCAsked
  SessionTries = 3
  Sessions = {s1, s2}
  Inputs = {i1, i2}
  Plan <- MCPlan
  Nil = Nil
  None = None
  Unset = Unset
  MaxStarts = 3
  Findings <- MCFindings
  MaxRounds = 3
  MaxNew = 2
  NoAnswer = NoAnswer
  Keys = {k1, k2, k3, k4}
  Story = k1
  Pages = {u1}
  MaxJiraIssues = 3
  MaxDepth = 1
  MaxConfluencePages = 1
  MaxFigmaLinks = 2
  FigmaConcurrency = 1
  Followed = {"parent", "linked"}
  Mentions <- MCMentions
  TreeSize = 4
  MaxText = 2
  Texts = {"a", "b"}
  Depths = {2}
  MaxScreens = 2
  Clients = {c1, c2}
  Queries = {q1, q2}
  MaxVersion = 2
  MaxRetries = 1
  MaxEntries = 1
  MaxCalls = 3
  Partial = Partial
  TopVersion = 2
  Packages = {p1, p2}
  Logged = {p1}
  MaxForeign = 1
  Calls = {c1, c2}
  Providers <- MCProviders
  Searxng = TRUE
  MaxSteps = 2
  Flows <- MCFlows
  Written <- MCWritten
  MaxWritten = 3
  Servers <- MCServers
  MaxListed = 3
  CountryLists <- MCCountries
  Counts = {2}
INVARIANTS
  StreamFaithful
  BlocksWellFormed
  PromptWhole
  FindingsCarried
  SlotsPaced
  SkippedHavingPassed
  SlugNamesOnePlan
  WalkIsNearestFirst
  ContextFaithful
  AnswerIsCurrent
  ReleaseSound
  ContextsGivenBack
  ValidFlowRuns
  PoolAsConfigured
PROPERTIES
  SuccessIsEarned
CHECK_DEADLOCK FALSE
