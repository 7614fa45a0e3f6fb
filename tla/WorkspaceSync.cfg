CONSTANTS
    Nodes = {home, r1, r2}
    Owners = {home, r1, r2}
    Remotes = {r1, r2}
    Home = home
    Watched = home
    Birth = r1
    Warps = {w1}
    Workers = {r1, home}
    MaxWork = 2
    Starts = {0}
    None = None
SPECIFICATION SyncFairSpec
INVARIANTS OneHistory HistoryIsWhole OnlyDivergedDies FencedOut StolenWhole
CHECK_DEADLOCK FALSE
PROPERTY ReaderFollows
