SPECIFICATION Spec
CONSTANTS
  Jobs = {j1}
  None = None
  Urls <- WebUrls
  Defrag <- WebDefrag
  Netloc <- WebNetloc
  Scheme <- WebScheme
  Final <- WebFinal
  PageLinks <- WebLinks
  AskedPages = {None, 2}
  AskedDepths = {None, 1, 3}
  MaxConcurrency = 1
  MaxPagesDefault = 10
  MaxDepthDefault = 2
INVARIANTS
  DeniedNeverFetched
