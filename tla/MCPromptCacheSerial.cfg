SPECIFICATION Spec
CONSTANTS
  Tok <- MCTok
  Prompts <- TwoPrompts
  Pixels = {}
  Scratch = "z"
  MaxTokensSet = {2}
  Penalties = {1}
  Best <- MCBest
  MaxSeqLen = 6
  Chunk = 1
  Formats = {"f16"}
  RowBytes <- MCRowBytes
  Budget = 12
  Kinds = {FALSE}
  RecurrentBytes = 2
  Batched = FALSE
  OutputHead = "cpu"
  MinTokens = 2
  MaxEntries = 2
  DefaultLimit = 18
  Limits = {}
INVARIANT SourceIsExact
