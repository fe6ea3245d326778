SPECIFICATION Spec
CONSTANTS
  Calls = {c1, c2}
  Origins = {https, http}
  Netloc <- OneHost
  Paths = {page}
  None = None
  CacheTTL = 2
  MaxClock = 3
SYMMETRY Symmetry
INVARIANTS
  TypeOK
  AnswersRecent
  ChangesObeyed
