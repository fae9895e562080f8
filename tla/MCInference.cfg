SPECIFICATION InferenceFairSpec
CONSTANTS
  Alphabet <- MCAlphabet
  MaxSymbols = 5
  Commands <- MCCommands
  Replies <- MCReplies
  NumberIn <- MCNumberIn
  Width <- MCWidth
  IsIdent <- MCIsIdent
INVARIANTS PatternCut OkIsFirstValid FeedbackComplete TwinsAgree
PROPERTY InferenceEnds
