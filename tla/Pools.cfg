SPECIFICATION MCSpec
CONSTANTS
    f1 = f1
    f2 = f2
    l1 = l1
    LocalHosts <- LocalNames
    Threads = {t1, t2}
    Services <- TwoServices
    PickRms <- TwoNames
    Own = {c1}
    Foreign = {f1, f2}
    Logs = {l1}
    XmlLog <- Xml
    CondorLogs = {None, l1}
    MaxHandles = 3
    Engine = Engine
    None = None
    Texts <- ShortTexts
    Words <- ShortWords
    MaxWords = 2
    Settings = {"preset", "file"}
    Hosts = {"h1", "h2"}
    MaxEntries = 2
CHECK_DEADLOCK FALSE
INVARIANT TypeOK
INVARIANT NothingDangles
INVARIANT LogsKept
INVARIANT OnlyJobsKeepPools
INVARIANT NoSelfJoin
INVARIANT OneDataPerId
INVARIANT AbortExplained
INVARIANT IdsLeadBack
INVARIANT ArgumentsArrive
INVARIANT SettingsApply
INVARIANT MachinesChosen
INVARIANT TransfersCarried
INVARIANT ValuesArrive
PROPERTY CallsReturn
PROPERTY UnloadEnds
