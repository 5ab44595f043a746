\* A cached call, replayed as a chat stream, against the contract of cif-translation/spec.md.
SPECIFICATION StreamsSpec
CONSTANTS
  None = None
  Blank = Blank
  Whole = Whole
  Loose = Loose
  Strict = Strict
  Custom = Custom
  Formats = {"openai"}
  MaxChunks = 3
  MaxCalls = 2
INVARIANT StreamReplayKeepsArguments
