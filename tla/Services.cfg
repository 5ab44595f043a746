\* One service at a time, each with its own callers, faults and bounds.  The services come
\* to rest when their callers are through.
SPECIFICATION ServicesSpec
CHECK_DEADLOCK FALSE
CONSTANTS
  MaxManagers = 3
  MaxRecords = 2
  Buffer = 1
  PoolWorkers = 1
  Servers = {s1, s2, s3}
  Stops = {c1}
  NoClaim = NoClaim
  Callers = {k1, k2}
  Earlier = {e1, e2}
  MaxOutages = 1
  Ids = {i1, i2}
  Admins = {a1}
  Savers = {w1, w2}
  MaxChanges = 2
  Nobody = Nobody
  MaxReaders = 2
  Writers = {v1}
  MaxWrites = 1
  Processes = {p1, p2}
  MaxTokens = 3
  MaxFaults = 1
  MaxAsks = 2
  Openers = {o1, o2}
  Releases = {0, 4, 7, 12}
  MaxKills = 1
  Seats = {g1, g2}
  Enterprise = {g1}
  Public = Public
  NoSeat = NoSeat
  MaxOthers = 1
  MaxSignIns = 2
  MaxInstances = 2
  MaxVisits = 1
  MaxRequests = 2
  MaxUpstreams = 2
  MaxAsked = 2
  MaxLength = 2
  MaxSwitches = 1
INVARIANTS
  ServicesTypeOK
  AcceptedRecordsAreWritten
  ServingIsClaimed
  ClearForgets
  RowsFollowTheRegistry
  AnswersAreCurrent
  UpstreamReadsTheTranscript
  AnswersComeBack
  UpgradesLoseNothing
  CopilotCallsAreSound
  SignInsAreWhole
  VirtualModelsAreWhole
  AnswersKeepTheirQuestions
PROPERTIES
  NoLiveTokenRetired
  CircuitRecovers
  WaitsReturn
