SPECIFICATION BothSpec
CONSTANTS
  Jobs = {j1, j2, j3}
  None = None
  Urls <- BothUrls
  Defrag <- BothDefrag
  Netloc <- BothNetloc
  Scheme <- BothScheme
  Final <- BothFinal
  PageLinks <- BothLinks
  AskedPages = {None, 1, 2}
  AskedDepths = {None, 1, 3}
  MaxConcurrency = 2
  MaxPagesDefault = 10
  MaxDepthDefault = 2
INVARIANTS
  TypeOK
  PermitsConserved
  BreadthFirst
  ShortestDepth
  CompleteCrawl
  DeniedNeverScraped
PROPERTIES
  PollsFollowLifecycle
  EveryJobEnds
