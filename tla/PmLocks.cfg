\* Two locks, one thread with timeouts; jiffies stay in the lower half.
SPECIFICATION LocksSpec
CONSTANTS
    Locks = {l1, l2}
    Callers = {c1}
    Delays = {1, 3}
    Half = 16
    FirstJiffy = 1
    LastCall = 4
    MaxStall = 1
    Off = Off
    None = None
INVARIANTS
    HeldOnce
    NoLockOrphaned
PROPERTIES
    NeverReleasedEarly
\* After the last call all locks may be released or held for good.
CHECK_DEADLOCK FALSE
