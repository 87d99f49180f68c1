SPECIFICATION PartsSpec
CONSTANTS
    Runs = {1, 2}
    NoRun = 0
    MaxRetries = 1
    Grades = {"good"}
    Shelves = {"tech"}
    Hashes = {"h1"}
    EarlierHash = "h0"
    Null = "null"
    Requests = {r1, r2}
    Canonical = "canon"
    Redirected = "other"
    MaxRequests = 3
    MaxOverlaps = 2
    Replies <- MCReplies
    SampleReplies <- MCSampleReplies
    MaxDeployments = 1
    Settings <- MCSettings
    Items = {1, 2}
    Contents <- MCContents
    SiteOf <- MCSiteOf
    Dates = {0, 1}
    LinkDays = 1
    DayLength = 1
    LastInstant = 2
    Posts = {p1, p2}
    TelemetryHosts = {"us", "eu"}
    FirstHost = "us"
    Elsewhere = "x"
    Answers <- MCAnswers
    MaxRedirects = 2
    HeadCommits = {"one", "two"}
    Changes <- MCChanges
    MaxCost = 6
    Overhead = 3
    MaxReviews = 3
    Addresses = {"a", "b", "book"}
    Purchased = "book"
    NoAddress = "-"
    Environments <- MCEnvironments
    Calls <- MCCalls
    PageSize = 2
    RecentLimit = 2
    SecondLength = 2
    DateLength = 4
    Shift = 1
    SampleArticles <- MCSampleArticles
    SampleCandidates <- MCSampleCandidates
    SampleJobs <- MCSampleJobs
    Quotas <- MCQuotas
    MaxPerSource = 2
    Ungraded = "none"
    Pool <- MCPool
    UsedIds <- MCUsedIds
    Priors <- MCPriors
    MaxChars = 5
    LineForms <- MCLineForms
    MaxLines = 3
    OtherAnswers <- MCOtherAnswers
    SampleTexts <- MCSampleTexts
    WorkerSources = {"s1", "s2"}
    NoPath = "none"
    HunkLines <- MCHunkLines
    HunkStarts = {1, 3, 4}
    MaxDiff = 7
    SampleFiles <- MCSampleFiles
    CiInputs <- MCCiInputs
    MinTicks = 2
    PageForms <- MCPageForms
    MaxForms = 3
    RawLines <- MCRawLines
    MaxRawLines = 3
INVARIANTS
    TypeOK
    SettledLinkAgrees
    DeliveredIsShown
    PassedStaysLive
    SmokeArticleIsCleared
    FailureIsTold
    InterestIsEarned
    SelectionIsJustified
    JudgementFitsTheText
    ChunksKeepTheArticle
    PingsMatchTheJob
    DangerIsReviewedOnce
    RoutesGuardWhatTheyChange
    ListsCoverTheStore
    ReportCoversTheDiff
    ArticleKeepsItsWords
PROPERTIES
    NothingForgotten
    KeepsPromise
SYMMETRY Symmetry
CHECK_DEADLOCK FALSE
