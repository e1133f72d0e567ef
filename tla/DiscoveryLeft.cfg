CONSTANTS
    Hosts = {h1}
    Readers = {h1}
    Fds = {1}
    Entries <- SomeEntries
    Starts <- AllOpen
    Cmds = {k1}
    HeaderBlocks = 0
    Ways = {"eof", "lost"}
    Chunk = 2
    MaxChanges = 2
    MaxConnects = 2
    MaxFaults = 1
    Star = Star
    Dead = Dead
    None = None
SPECIFICATION FairDiscoverySpec
PROPERTIES
    LeftIsClosed
CHECK_DEADLOCK FALSE
