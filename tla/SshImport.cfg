SPECIFICATION Spec
CONSTANTS
    host = host
    forge = forge
    title = title
    forced = forced
    environment = environment
    group = group
    Hosts = {host}
    Wildcards = {}
    Skipped = {forge}
    Titles = {title, forced}
    Keywords = {HostName}
    HostName = HostName
    Other = Other
    Values = {forge}
    Unset = Unset
    Aliases <- MCAliases
    Directives <- MCDirectives
    Environments = {environment}
    Groups = {group}
    Status = {"UNKNOWN", "ONLINE"}
    Unknown = "UNKNOWN"
    Files <- MCFiles
    Choices <- MCChoices
    Imports = {i1, i2}
    MaxEdits = 3
CHECK_DEADLOCK FALSE
SYMMETRY ImportSymmetry
INVARIANTS
    TypeOK
    ReferencesResolve
PROPERTIES
    FillsOnlyBlanks
    HostsAreRegistered
    RepeatChangesNothing
