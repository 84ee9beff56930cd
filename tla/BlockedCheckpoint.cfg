CONSTANTS
    MaxSpaces = 1
    MaxTabs = 1
    MaxPanes = 3
    MaxDepth = 2
    MaxTerminals = 3
    Domains <- MCServerOnly
    Layouts <- MCNoLayouts
    FirstFiles <- MCNoFile
    MaxCommands = 5
    MaxExits = 0
    MaxRestarts = 2
    MaxFaults = 0

SPECIFICATION Spec

INVARIANTS
    AlwaysCapturable

CHECK_DEADLOCK FALSE
