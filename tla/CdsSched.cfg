\* Threads may answer a suspend too late; messages, packets of two stations and
\* one element for each thread.
SPECIFICATION FairSpec
CONSTANTS
    McQueues <- MCOneQueue
    Posters = {p1}
    Stations = {s1, s2}
    PoolSize <- MCOne
    MaxPosts = 2
    MaxSuspends = 2
    Impatient = FALSE
INVARIANTS
    SuspendedQuiet
    NoGuestWhenStopped
    PoolConserved
    SomeoneWakes
PROPERTIES
    Served
    CloseEnds
\* The driver may be unloaded.
CHECK_DEADLOCK FALSE
