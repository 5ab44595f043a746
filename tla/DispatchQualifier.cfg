SPECIFICATION Spec
CONSTANTS
  None = None
  copilot = copilot
  azure = azure
  kimi = kimi
  typesafe = typesafe
  vm = vm
  gpt = gpt
  solo = solo
  qualified = qualified
  native = native
  amb = amb
  alias = alias
  Keys = {gpt, native}
  Instances = {kimi}
  MaxEntries = 2
  OrderBound = 0
  Requests = {r1}
  Asked = {native}
  Virtual = None
  RoundRobin = FALSE
  Upstreams <- MCNoUpstreams
  Qualified <- MCQualified
  Ambiguous = {}
  Canonical <- MCCanonical
  Catalog <- MCCatalog
  Rank <- MCRank
  Evaluators = {}
  Copilots = {}
  Unstable = {}
INVARIANT QualifierIsTheFallback
