SPECIFICATION Spec
CONSTANTS
    Fences <- MCFences
    NoSystem = NoSystem
    NoRaw = NoRaw
    Unread = Unread
    NoTenant = NoTenant
    NoUsage = NoUsage
    Idle = Idle
    Bpe <- MCBpe
    Chars <- MCChars
    CharsPerToken = 4
    Dull = {"um"}
    Stub <- MCStub
    Marker <- MCMarker
    Stopwords = {"the"}
    Unencodable = {"lone"}
    ContextHeader = "[context]"
    SummaryHeader = "[summary]"
    Setups <- MCSetups
    MaxItems = 7
    MaxTurns = 4
    MaxRestarts = 1
INVARIANTS TypeOK SaysWhatWasAsked WindowValid ToolPairing DedupRecoverable Accounts
    CountsWhatIsSent AlwaysHealthy BreakpointPlaced PrefixStable SinksAgree
    BilledOnce
CHECK_DEADLOCK FALSE
