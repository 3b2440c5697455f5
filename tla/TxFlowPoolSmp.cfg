SPECIFICATION Spec
CONSTANTS
    d1 = d1
    d2 = d2
    d3 = d3
    d4 = d4
    f2 = f2
    htt = htt
    p1 = p1
    p2 = p2
    p3 = p3
    pm = pm
    s1 = s1
    v0 = v0
    v1 = v1
    NoPool = NoPool
    NoFlow = NoFlow
    InvalidFlow = InvalidFlow
    Senders = {s1}
    Htt = htt
    Vdevs = {v0, v1}
    Flows = {v0, v1, f2}
    OtherTypes = {f2}
    Pools = {p1, p2, p3, pm}
    Descs = {d1, d2, d3, d4}
    MgmtPool = pm
    MgmtDescs = {d4}
    Vdev0 = v0
    PoolSize = 2
    StopTh = 50
    StartOffset = 30
    OneCpu = FALSE
    SendMayFail = FALSE
    UnmapStopped = TRUE
    SizeOf <- MCSizeOf
SYMMETRY Symmetry
INVARIANT DescsConserved
INVARIANT NoDangling
