SPECIFICATION FSpec
CONSTANTS
    Conversations <- MCConversations
    Depth = 64
    AffinityCap = 2
    AffinityTtl = 1
PROPERTIES AnswerKept
CHECK_DEADLOCK FALSE
