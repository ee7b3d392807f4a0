\* Histories of four messages, texts of five characters, command lines of four words, outputs
\* of five lines, five operations on a rail, documents of six pieces; money that overflows at 250.
CONSTANTS
    Ids = {1, 2}
    Shapes = {"openai", "anthropic", "responses"}
    MaxHistory = 4
    MaxMoney = 250
    MaxScenarios = 2
    LongThreshold = 3
    RegistryGeneration = 1
    RegistryKeys <- Keys
    OpenAIInputs <- OpenAIRequests
    AnthropicInputs <- AnthropicRequests
    Proofs <- ProofRecords
    UuidShape <- Uuid
    HandlePrefix <- Handle
    ShaMin = 2
    ShaMax = 3
    MaxText = 5
    HeaderLen = 1
    PartialHeaderLen = 2
    DividerLen = 1
    NoteLen = 2
    SuffixLen = 1
    RedactedLen = 3
    DefaultBudget = 20
    BodyReserve = 4
    DefaultCap = 32
    CompactFloor = 4
    NoticeLen = 3
    SummaryCap = 10
    Entries <- Coordinates
    ClosetCaps = {0, 6, 7, 9, 12, 15, 17, 30}
    MaxEntries = 4
    EagerInputs <- ToolResults
    MaxTok = 3
    HeadLines = 1
    TailLines = 1
    CtxBefore = 1
    CtxAfter = 1
    MaxLexemes = 4
    MaxLines = 5
    MaxOps = 5
    MaxDepth = 2
    MaxMembers = 2
    Chunks <- JsonChunks
    MaxChunks = 6
SPECIFICATION Spec
INVARIANTS RepairedIsPaired RepairIsIdempotent AcceptedIsCheaper IdentifiersAreWhole ClosetAccountsForAll EagerWithinCap OnlySimpleCommands PlanSurvives NothingHidden CompactKeepsTokens
CHECK_DEADLOCK FALSE
