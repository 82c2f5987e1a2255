SPECIFICATION Spec
CONSTANTS
    Fences <- MCFences
    NoSystem = NoSystem
    NoRaw = NoRaw
    Unread = Unread
    NoTenant = NoTenant
    NoUsage = NoUsage
    Idle = Idle
    Bpe <- MCBpe
    Chars <- MCChars
    CharsPerToken = 4
    Dull = {"um"}
    Stub <- MCStub
    Marker <- MCMarker
    Stopwords = {"the"}
    Unencodable = {"lone"}
    ContextHeader = "[context]"
    SummaryHeader = "[summary]"
    Setups <- MCInline
    MaxItems = 7
    MaxTurns = 4
    MaxRestarts = 1
INVARIANT WordsSeparated
CHECK_DEADLOCK FALSE
