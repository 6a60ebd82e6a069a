CONSTANTS
  g1 = g1
  p1 = p1
  r1 = r1
  d1 = d1
  i1 = i1
  shop = shop
  other = other
  local = local
  usdt = usdt
  gold = gold
  Reads = {g1}
  Posts = {p1}
  Resolves = {r1}
  MaxRetries = 2
  Lookups = {d1}
  Invoices = {i1}
  Orders <- MCOrders
  Documents <- MCDocuments
  Assets = {usdt,gold}
  Sites = {shop,other,local}
  LocalSites = {local}
  MaxBytes = 2
  MaxChunk = 2
  NoOrder = NoOrder
  NoDocument = NoDocument
  NoSite = NoSite
  Scenarios <- MCScenarios
SPECIFICATION FairCallerSpec
CHECK_DEADLOCK FALSE
INVARIANTS
  SentOnce
  CallersReleased
  CallbackVouched
  ReadsBounded
PROPERTIES
  NothingSentAfterAbort
  EveryCallerSettles
