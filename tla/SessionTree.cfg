CONSTANTS
    MaxSpaces = 2
    MaxTabs = 2
    MaxPanes = 3
    MaxDepth = 1
    MaxTerminals = 2
    Domains <- MCDomains
    Layouts <- MCLayouts
    FirstFiles <- MCFirstFiles
    MaxCommands = 2
    MaxExits = 1
    MaxRestarts = 1
    MaxFaults = 1

SPECIFICATION FairSpec

INVARIANTS
    SessionTreeTypeOK
    TreesWellFormed
    TerminalsMatch
    FileCurrent
PROPERTIES
    PumpSpares
    ExitsClose
    ChangesSaved

CHECK_DEADLOCK FALSE
