\* Every upstream format and client dialect; answers of up to 3 chunks.
SPECIFICATION StreamsSpec
CONSTANTS
  None = None
  Blank = Blank
  Whole = Whole
  Loose = Loose
  Strict = Strict
  Custom = Custom
  Formats = {"openai", "copilot", "compat", "responses", "copilot_responses", "gemini", "antigravity", "buffered", "azure"}
  MaxChunks = 3
  MaxCalls = 2
INVARIANTS
  StreamTypeOK
  CallsKeepTheirArguments
  AnswerArrives
  CacheKeepsAnswers
  ToldToRunTools
PROPERTIES
  ClientSeesOneMessage
  StreamsEnd
