SPECIFICATION AnySpec
CONSTANTS
  NoEntry = NoEntry
  Requests = {"r1", "r2", "r3"}
  Queries <- FewQueries
  Pages <- ShortPages
  MinWords = 2
  Ttl = 1
  MaxTime = 2
  Servers = {"s1", "s2"}
  FileKeys = {"k1", "k2", "k3"}
  Callers = {"call"}
  Clients <- OneOfEach
  MaxRestarts = 1
  Agents = {"*", "ours", "other"}
  Ours = "ours"
  Patterns <- FewPatterns
  Matches = {"/", "/a"}
  Length <- PatternLength
  MaxLines = 5
  Links <- Few
  Seed = "p"
  Bare <- WithoutFragment
  Site <- SiteOf
  Scheme <- SchemeOf
  Candidates <- SeedCandidates
  Listed <- RobotsLists
  Sitemap <- Serves
  LinkLists <- SeedLinks
  MaxSitemapDepth = 2
  MaxUrls = 3
  MaxChildren = 2
INVARIANTS
  TypesOK
  OneKey
  DuplicatesBounded
  NothingLost
  HitHonest
  LongestRuleApplies
  WalkBounded
  PagesKept
PROPERTIES
  CallEnds
CHECK_DEADLOCK FALSE
