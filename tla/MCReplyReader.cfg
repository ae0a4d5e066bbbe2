\* Every way to cut the stream, with the conversations it is meant for.
CONSTANTS
  Cases <- Everything
  BufSize = 32
SPECIFICATION FairSpec
INVARIANTS
  TypeOK
  ReplyIsMessage
  NoStaleText
PROPERTIES
  ConversationEnds
\* A conversation ends.
CHECK_DEADLOCK FALSE
