SPECIFICATION Spec
CONSTANTS
  Tok <- MCTok
  Prompts <- FewPrompts
  Pixels = {}
  Scratch = "z"
  MaxTokensSet = {2}
  Penalties = {1, 2}
  Best <- MCBest
  MaxSeqLen = 6
  Chunk = 1
  Formats = {"f16"}
  RowBytes <- MCRowBytes
  Budget = 12
  Kinds = {TRUE, FALSE}
  RecurrentBytes = 2
  Batched = TRUE
  OutputHead = "cpu"
  MinTokens = 2
  MaxEntries = 2
  DefaultLimit = 18
  Limits = {0}
INVARIANT ReusableRowsMatch
INVARIANT SourceIsExact
INVARIANT SnapshotsBounded
PROPERTY ImplementsColdCompletion
PROPERTY DisplacedIsKept
