CONSTANTS
    Hooks = {"h", "i"}
    MaxKeys = 1
    MaxEntries = 3
    MaxSockets = 3
    PageProfiles = {"p", "q", "r"}
    PageSteps = 3
    DocTexts = {"a", "b", "bad"}
    DocValid = {"a", "b"}
    DocSteps = 7
    FormUids = {"p", "q"}
    FormSteps = 5
    ItemRenders = 1
    ItemUpdates = 1
    ItemClicks = 2
    SampleTicks = 2
    PackTicks = 4
    PackRatio = 2
    MonitorClock = 2
    MonitorMessages = 2
    MonitorSteps = 2
    PlotWidth = 90
    PlotLengths = {1, 2, 7}
    PlotSpeed = 1
    PlotStale = 1
    PlotClock = 3
    PlotSteps = 3
    DataUsable = {1, 4}
    DataVersions = 4
    DataGrace = 2
    DataThrottle = 1
    DataClock = 4
    DataProfiles = {"p"}
    DataProviders <- TwoProviders
    DataSteps = 3
    LocaleSpaces = {"m", "n"}
    LocaleLeaves = {"x", "y"}
    LocaleBase = "en"
    LocaleOthers = {"zh"}
    LocaleContents <- TextKeys
    LocaleTrees <- Trees
    LocaleWhitelist = {}
    LocaleRuns = 2
    TrayTasks = 2
    TrayConns = 2
    TrayStops = 2
    DnsTexts <- Docs
    DnsTimers = 2
    DnsSteps = 4
    ProxyHosts = {"name", "ip6", "bad"}
    ProxyTasks = 2
    ProxySteps = 4
    TunnelLocals = {"bad", "private"}
    TunnelTargets = {"bad", "name"}
    TunnelGroups <- TwoGroups
    TunnelSteps = 6
    TunnelAdds = 2
    PortTexts = {500, 7898, 99999}
    PortSaves = 2
    PortSteps = 5
    GuardedKeys <- SomeKeys
    GuardedSteps = 3
    DevOrigins <- OneDev
    CoreOrigins = {"x", " ", "dev"}
    CoreRows = 2
    CoreCalls = 2
    CoreSteps = 5
    VergeAddresses = {"any", " ", "own"}
    VergeNumbers = {0, 500, 12}
    NotANumber = 500
    VergeSteps = 5
    BackupServers = {"a", "bad"}
    BackupValid = {"a"}
    NoServer = "none"
    BackupPage = 2
    BackupFiles = 3
    BackupCalls = 2
    BackupSteps = 5
    TestUrls = {"a", "b"}
    TestUids = 3
    TestCount = 2
    TestSteps = 3
    IpServices = 2
    IpRefresh = 1
    IpClock = 2
    IpTicks = 2
    IpSteps = 2
    UnlockMedia = {"a"}
    UnlockOld = {"o"}
    UnlockNote = 1
    UnlockSteps = 4
    PrebuildBinaries <- TwoBinaries
    PrebuildResources = {"mmdb"}
    PrebuildScripts = {"set_dns"}
    PrebuildTasks <- FiveTasks
    PrebuildRetry = 2
    PrebuildVersions = 3
    PrebuildSteps = 3
SPECIFICATION PageSpec
INVARIANTS SocketsOwned ListsFaithful SwitchTracked FormsFaithful ResourcesOwned ViewsCurrent FilesKept SpeedOwned SettingsApplied OriginsKept BackupsConfirmed
PROPERTIES RowsSaved
CHECK_DEADLOCK FALSE
