SPECIFICATION FairSpec
CONSTANTS
    d1 = d1
    d2 = d2
    d3 = d3
    d4 = d4
    htt = htt
    p1 = p1
    pm = pm
    s1 = s1
    v0 = v0
    v1 = v1
    NoPool = NoPool
    NoFlow = NoFlow
    InvalidFlow = InvalidFlow
    Senders = {s1}
    Htt = htt
    Vdevs = {v0, v1}
    Flows = {v0, v1}
    OtherTypes = {}
    Pools = {p1, pm}
    Descs = {d1, d2, d3, d4}
    MgmtPool = pm
    MgmtDescs = {}
    Vdev0 = v0
    PoolSize = 2
    StopTh = 50
    StartOffset = 30
    OneCpu = TRUE
    SendMayFail = TRUE
    UnmapStopped = FALSE
    SizeOf <- MCSizeOf
INVARIANT InvalidDrained
INVARIANT PausedDrains
PROPERTY EventuallyWoken
