SPECIFICATION FairSpec
CONSTANTS
  None = None
  copilot = copilot
  azure = azure
  kimi = kimi
  typesafe = typesafe
  vm = vm
  gpt = gpt
  solo = solo
  amb = amb
  alias = alias
  qualified = qualified
  native = native
  Keys = {vm, gpt, qualified, native, amb, alias}
  Instances = {copilot, azure, kimi, typesafe}
  MaxEntries = 1
  OrderBound = 1
  Requests = {r1}
  Asked = {vm, alias, qualified, native, amb}
  Virtual = vm
  RoundRobin = TRUE
  Upstreams <- MCUpstreams
  Qualified <- MCQualified
  Ambiguous = {amb}
  Canonical <- MCCanonical
  Catalog <- MCCatalog
  Rank <- MCRank
  Evaluators = {typesafe}
  Copilots = {copilot}
  Unstable = {kimi}
INVARIANTS TypeOK FallbackIsComplete AtMostOneDoomedCall
PROPERTIES EveryRequestEnds
