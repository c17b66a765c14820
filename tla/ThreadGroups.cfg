SPECIFICATION GroupsSpec
CONSTANTS
    Threads = {t1, t2, t3, t4}
    Main = main
    MaxGroups = 3
INVARIANTS
    LinksDescend
    NoNestedTimeouts
CHECK_DEADLOCK FALSE
