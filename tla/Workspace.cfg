SPECIFICATION Spec
CONSTANTS
    Paths <- MCPaths
    Layout <- MCLayout
    Playbooks <- playbooks
    YamlNames = {"x.yml"}
    TextNames = {"x.yml"}
    Contents = {"plays", "text", "nothing"}
    Parses = {"plays", "nothing"}
    Plays = {"plays"}
    Empty = "nothing"
    Requests = {r1, r2}
    NoPath = NoPath
CHECK_DEADLOCK FALSE
SYMMETRY RequestSymmetry
INVARIANTS
    TypeOK
    PlaybooksAreValid
    NothingIsReplaced
    ChangesAreRecorded
    LayoutStays
