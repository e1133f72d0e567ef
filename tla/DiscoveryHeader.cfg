CONSTANTS
    Hosts = {h1}
    Readers = {h1}
    Fds = {1}
    Entries <- SomeEntries
    Starts <- OnlyOpen
    Cmds = {k1}
    HeaderBlocks = 1
    Ways = {"eof", "lost"}
    Chunk = 2
    MaxChanges = 2
    MaxConnects = 2
    MaxFaults = 1
    Star = Star
    Dead = Dead
    None = None
SPECIFICATION DiscoverySpec
INVARIANTS
    RepliesAreWhole
CHECK_DEADLOCK FALSE
