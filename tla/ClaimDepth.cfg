SPECIFICATION Spec
CONSTANTS
  Jobs = {j1}
  None = None
  Urls <- WebUrls
  Defrag <- WebDefrag
  Netloc <- WebNetloc
  Scheme <- WebScheme
  Final <- WebFinal
  PageLinks <- WebLinks
  AskedPages = {None, 2}
  AskedDepths = {0}
  MaxConcurrency = 1
  MaxPagesDefault = 10
  MaxDepthDefault = 2
INVARIANTS
  NeverDeeperThanAsked
