CONSTANTS
  a1 = a1
  a2 = a2
  a3 = a3
  usd = usd
  eur = eur
  h1 = h1
  h2 = h2
  lsp = lsp
  other = other
  net1 = net1
  net2 = net2
  c1 = c1
  c2 = c2
  c3 = c3
  p1 = p1
  p2 = p2
  Assets = {a1,a2,a3}
  Tickers = {usd,eur}
  Hashes = {h1,h2}
  Keys = {lsp,other}
  Networks = {net1,net2}
  MaxUnits = 2
  MaxMsat = 3
  MaxTime = 2
  None = None
  Listings <- MCListings
  Calls = {c1,c2,c3}
  Mixes <- MCMixes
  Payments = {p1,p2}
  Asset = a1
  MinMsat = 2
  LspKey = lsp
  MaxLookups = 2
  Expiry = 2
  MaxTicks = 9
  Menus <- MCMenus
  Targets <- MCTargets
  Answers <- MCAnswers
  MaxFees = {0,1}
  LspHashes = {h2}
SPECIFICATION SessionSpec
CHECK_DEADLOCK FALSE
INVARIANTS
  EndsTruly
  RegistersOnce
  ClaimsReported
  LifetimeFits
  AtomicRelay
  CarriedByOne
  ForcedChoice
PROPERTIES
  NoRoundAfterAbort
  WaitsEnd
