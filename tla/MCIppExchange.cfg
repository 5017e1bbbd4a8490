CONSTANTS
  TimezoneOffset <- AheadOfUtc
  Serialize <- serializeIppRequest
  Parse <- parseIppMessage
  Encode <- Encoded
  Replies <- MCReplies
  OtherRequests <- MCOtherRequests
  RequestId = 99999999
  ChunkSize = 47
SPECIFICATION FairSpec
INVARIANTS
  TypeOK
  AnswerIsWhole
  RequestReadsBack
  AnswerIsUnderstood
  ToldIsRetained
PROPERTIES
  RetainedIsAnswered
  SequenceMovesOn
  SettlesUnlessCut
