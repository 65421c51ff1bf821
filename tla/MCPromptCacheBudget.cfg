SPECIFICATION Spec
CONSTANTS
  Tok <- MCTok
  Prompts <- TwoPrompts
  Pixels = {"px"}
  Scratch = "z"
  MaxTokensSet = {1, 2}
  Penalties = {1}
  Best <- MCBest
  MaxSeqLen = 6
  Chunk = 1
  Formats = {"f16", "i8"}
  RowBytes <- MCRowBytes
  Budget = 10
  Kinds = {TRUE, FALSE}
  RecurrentBytes = 2
  Batched = TRUE
  OutputHead = "materialize"
  MinTokens = 2
  MaxEntries = 2
  DefaultLimit = 9
  Limits = {}
INVARIANT ContextIsPrompt
INVARIANT RetainedWithinBudget
