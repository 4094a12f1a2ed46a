SPECIFICATION FairSpec
CONSTANTS
    c1 = c1
    Conversations = {c1}
    Queries = {q1, q2}
    ConvOf <- MCConvOf
    Scoped = {c1}
    MaxTokens = 2
    NoTitle = NoTitle
INVARIANTS TypeOK OnlyDoneIsWritten AnswerFollowsQuestion CancelIsPrompt
PROPERTIES ConversationLogSpec StreamsEnd
CHECK_DEADLOCK FALSE
