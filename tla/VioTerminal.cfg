SPECIFICATION Spec
CONSTANTS
    c1 = c1
    Conversations = {c1}
    Queries = {q1}
    ConvOf <- MCConvOf
    Scoped = {c1}
    MaxTokens = 1
    NoTitle = NoTitle
INVARIANT EndsWithTerminal
CHECK_DEADLOCK FALSE
