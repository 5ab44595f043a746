\* What a chat upstream sends with its finish reason, against the contract of cif-translation/spec.md.
SPECIFICATION StreamsSpec
CONSTANTS
  None = None
  Blank = Blank
  Whole = Whole
  Loose = Loose
  Strict = Strict
  Custom = Custom
  Formats = {"openai"}
  MaxChunks = 3
  MaxCalls = 2
INVARIANT LastDeltaArrives
