SPECIFICATION Spec
CONSTANTS
    d1 = d1
    d2 = d2
    d3 = d3
    d4 = d4
    d5 = d5
    d6 = d6
    htt = htt
    p1 = p1
    pm = pm
    s1 = s1
    v0 = v0
    v1 = v1
    NoPool = NoPool
    NoFlow = NoFlow
    InvalidFlow = InvalidFlow
    Senders = {s1}
    Htt = htt
    Vdevs = {v1}
    Flows = {v0, v1}
    OtherTypes = {}
    Pools = {p1, pm}
    Descs = {d1, d2, d3, d4, d5, d6}
    MgmtPool = pm
    MgmtDescs = {}
    Vdev0 = v0
    PoolSize = 3
    StopTh = 50
    StartOffset = 10
    OneCpu = FALSE
    SendMayFail = FALSE
    UnmapStopped = FALSE
    SizeOf <- MCSizeOf
SYMMETRY Symmetry
INVARIANT UnpausedRuns
