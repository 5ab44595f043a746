SPECIFICATION Spec
CONSTANTS
  None = None
  copilot = copilot
  azure = azure
  kimi = kimi
  typesafe = typesafe
  vm = vm
  gpt = gpt
  solo = solo
  qualified = qualified
  native = native
  amb = amb
  alias = alias
  Keys = {gpt, vm}
  Instances = {copilot, kimi, typesafe}
  MaxEntries = 2
  OrderBound = 0
  Requests = {r1}
  Asked = {vm}
  Virtual = vm
  RoundRobin = FALSE
  Upstreams <- MCUpstreams
  Qualified <- MCQualified
  Ambiguous = {}
  Canonical <- MCCanonical
  Catalog <- MCCatalog
  Rank <- MCRank
  Evaluators = {typesafe}
  Copilots = {copilot}
  Unstable = {}
INVARIANT VirtualReturnsToServer
