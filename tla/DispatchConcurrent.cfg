SPECIFICATION Spec
CONSTANTS
  None = None
  copilot = copilot
  azure = azure
  kimi = kimi
  typesafe = typesafe
  vm = vm
  gpt = gpt
  solo = solo
  amb = amb
  alias = alias
  qualified = qualified
  native = native
  Keys = {gpt, solo}
  Instances = {copilot, kimi}
  MaxEntries = 1
  OrderBound = 0
  Requests = {r1, r2}
  Asked = {gpt, solo}
  Virtual = None
  RoundRobin = FALSE
  Upstreams <- MCNoUpstreams
  Qualified <- MCQualified
  Ambiguous = {}
  Canonical <- MCCanonical
  Catalog <- MCCatalog
  Rank <- MCRank
  Evaluators = {}
  Copilots = {copilot}
  Unstable = {copilot, kimi}
INVARIANTS ReturnsToServer
SYMMETRY AnyRequest
