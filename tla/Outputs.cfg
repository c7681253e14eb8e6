SPECIFICATION Spec
CONSTANTS
    Letters = {"env", "client", "g", "a"}
    Digits = {"1"}
    Signs = {"."}
    MaxLength = 4
    Fleets <- MCFleets
    Keys <- MCKeys
    MAX_DEPTH = 1
    MaxDepth = 3
    MaxItems = 1
    Hosts = {"web01", "any", "forge"}
    Wildcards = {"any"}
    Skipped = {"forge"}
    Titles = {"VELOMA"}
    Keywords = {"hostname", "port"}
    HostName = "hostname"
    Other = "match"
    Values = {"forge", "address"}
    Unset = "unset"
    Aliases <- MCAliases
    Directives <- MCDirectives
    MaxLines = 5
CHECK_DEADLOCK FALSE
INVARIANTS
    NamesAreAccepted
    SlugsStayApart
    InventoryIsThePlan
    EventsAreHarmless
    FilesAreUnderstood
