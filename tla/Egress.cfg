SPECIFICATION EitherSpec
CONSTANTS
  Fetches = {f1}
  Urls <- WebUrls
  Scheme <- WebScheme
  Host <- WebHost
  WellFormed <- WebUrls
  Addresses = {"public", "other", "private"}
  Blocked = {"private"}
  Answers <- WebAnswers
  None = None
  MaxRedirects = 2
  Connections = {c1, c2, c3}
  Slots = 1
  Nobody = Nobody
  ProxyNames = {"a"}
  ProxyResolves <- WebResolves
INVARIANTS
  TypeOK
  OnlyVetted
  NeverDowngraded
  HopsBounded
  ProxyTypeOK
  ProxyOnlyVetted
  QuietAfterClose
PROPERTIES
  FetchEnds
  RequestServed
  CloseEnds
CHECK_DEADLOCK FALSE
